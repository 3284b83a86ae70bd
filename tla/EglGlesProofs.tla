---------------------------- MODULE EglGlesProofs ----------------------------
(***************************************************************************)
(* Proofs about EglGles, for channels of any capacity, any set of calls    *)
(* with any arguments, and any number of commands queued.                  *)
(***************************************************************************)
EXTENDS EglGles, SequenceTheorems, FiniteSetTheorems, WellFoundedInduction, TLAPS

-----------------------------------------------------------------------------
(* Induction, without an operator for the property.                        *)

\* A set of naturals that is not empty has a least element.
LEMMA Least ==
    ASSUME NEW T, T \subseteq Nat, T # {}
    PROVE  \E n \in T : \A m \in T : n <= m
  <1> DEFINE R == {ss \in Nat \X Nat : ss[1] < ss[2]}
  <1>1. IsWellFoundedOn(R, Nat)
    BY NatLessThanWellFounded DEF OpToRel
  <1>2. PICK n \in T : \A m \in T : ~ (<<m, n>> \in R)
    <2> HIDE DEF R
    <2> QED
      BY <1>1, WFMin
  <1>3. \A m \in T : ~ (m < n)
    BY <1>2
  <1> QED
    BY <1>3

\* A set with 0 and every successor has all naturals.
LEMMA Induction ==
    ASSUME NEW S, 0 \in S, \A n \in Nat : n \in S => n + 1 \in S
    PROVE  Nat \subseteq S
  <1>1. SUFFICES ASSUME Nat \ S # {} PROVE FALSE
    OBVIOUS
  <1>2. PICK n \in Nat \ S : \A m \in Nat \ S : n <= m
    BY <1>1, Least
  <1>3. n # 0 /\ n - 1 \in Nat
    OBVIOUS
  <1>4. n - 1 \in S
    BY <1>2, <1>3
  <1>5. (n - 1) + 1 = n
    OBVIOUS
  <1> QED
    BY <1>3, <1>4, <1>5

\* The same up to a bound.
LEMMA BoundedInduction ==
    ASSUME NEW S, NEW N \in Nat, 0 \in S, \A n \in 0..(N - 1) : n \in S => n + 1 \in S
    PROVE  0..N \subseteq S
  <1> DEFINE T == {n \in Nat : n <= N => n \in S}
  <1>1. \A n \in Nat : n \in T => n + 1 \in T
    OBVIOUS
  <1>2. Nat \subseteq T
    BY <1>1, Induction
  <1> QED
    BY <1>2

-----------------------------------------------------------------------------
(* Words, and how a message is read.                                       *)

\* The data that messages are made of.
Items ==
    {"alpha", "anyBufferBound", "api", "attribIndex", "attribList",
     "attribute", "blue", "border", "buffer", "bufsize", "callId", "cmd",
     "config", "configSize", "configs", "context", "count", "data",
     "dataSize", "display", "displayId", "drawSurface", "element", "error",
     "first", "format", "genNames", "green", "height", "index", "indices",
     "infoLog", "internalFormat", "length", "level", "location", "logLength",
     "major", "mask", "minor", "mode", "n", "name", "names", "normalized",
     "nothing", "numAttribs", "numConfig", "numVertices", "param", "params",
     "passingType", "pname", "program", "ptr", "queryString", "readSurface",
     "red", "shader", "shareContext", "size", "status", "stride", "string",
     "stringName", "surface", "target", "texels", "texture", "type", "usage",
     "v0", "value", "varSize", "vertex", "width", "window", "x", "y"}

Word == [item : Items, val : Int \cup DOMAIN Calls]
Words == Seq(Word)
Lists == Seq(Items)

\* What a reader reads after it has read a and then the value v of item h: the
\* server, for NoCall, or the client in call c.
More(c, h, v, a) ==
    IF h \in VarSize THEN Copies(v, "element")
    ELSE IF c.cmd = "none" THEN ServerReadsMore(h, v, a) ELSE ClientReadsMore(c, h, v)

\* A reader that has still to read left, expects list and has read a.
Reading == [left : Words, list : Lists, read : Words]
At(left, list, a) == [left |-> left, list |-> list, read |-> a]

\* From every state in R the reader c finds what it expects and stays in R, or
\* is done; in the end it has read whole.
Closed(c, R, whole) ==
    \A x \in R :
      /\ x \in Reading /\ x.read \o x.left = whole
      /\ \/ x.left = <<>> /\ x.list = <<>>
         \/ x.list # <<>> /\ Head(x.list) = "nothing" /\ At(x.left, Tail(x.list), x.read) \in R
         \/ /\ x.list # <<>> /\ Head(x.list) # "nothing" /\ x.left # <<>>
            /\ Head(x.left).item = Expected(Head(x.list))
            /\ Head(x.list) = "callId" => c.cmd # "none" /\ Head(x.left).val = CallId
            /\ At(Tail(x.left),
                  More(c, Head(x.list), Head(x.left).val, x.read) \o Tail(x.list),
                  Append(x.read, Head(x.left))) \in R

\* Reader c, having read a, reads left as list.
Parses(c, left, list, a) ==
    \E R : At(left, list, a) \in R /\ Closed(c, R, a \o left)

LEMMA ParsesType ==
    ASSUME NEW c, NEW l, NEW t, NEW a, Parses(c, l, t, a)
    PROVE  l \in Words /\ t \in Lists /\ a \in Words
  BY DEF Parses, Closed, Reading, At

LEMMA ParsesNothing ==
    ASSUME NEW c, NEW a \in Words
    PROVE  Parses(c, <<>>, <<>>, a)
  <1> DEFINE R == {At(<<>>, <<>>, a)}
  <1>1. <<>> \in Words /\ <<>> \in Lists
    BY EmptySeq DEF Words, Lists
  <1>2. At(<<>>, <<>>, a) \in Reading
    BY <1>1 DEF Reading, At
  <1>3. ASSUME NEW x \in R PROVE x = At(<<>>, <<>>, a)
    OBVIOUS
  <1>4. At(<<>>, <<>>, a).left = <<>> /\ At(<<>>, <<>>, a).list = <<>> /\ At(<<>>, <<>>, a).read = a
    BY DEF At
  <1>5. Closed(c, R, a \o <<>>)
    BY <1>2, <1>3, <1>4 DEF Closed
  <1> QED
    BY <1>5 DEF Parses

LEMMA HeadOfList ==
    ASSUME NEW S, NEW h \in S, NEW t \in Seq(S)
    PROVE  /\ <<h>> \o t \in Seq(S) /\ <<h>> \o t # <<>>
           /\ Head(<<h>> \o t) = h /\ Tail(<<h>> \o t) = t
  <1>1. <<h>> \in Seq(S) /\ Len(<<h>>) = 1
    OBVIOUS
  <1>2. <<h>> \o t \in Seq(S) /\ Len(<<h>> \o t) = 1 + Len(t)
    BY <1>1, ConcatProperties
  <1>3. (<<h>> \o t)[1] = h /\ \A i \in 1..Len(t) : (<<h>> \o t)[i + 1] = t[i]
    BY <1>1, ConcatProperties, LenProperties
  <1>4. <<h>> \o t # <<>>
    BY <1>2, LenProperties
  <1>5. Len(Tail(<<h>> \o t)) = Len(t) /\ Tail(<<h>> \o t) \in Seq(S)
        /\ \A i \in 1..Len(t) : Tail(<<h>> \o t)[i] = t[i]
    BY <1>2, <1>3, <1>4, HeadTailProperties, LenProperties
  <1>6. Tail(<<h>> \o t) = t
    BY <1>5, SeqEqual
  <1> QED
    BY <1>2, <1>3, <1>4, <1>6

LEMMA NothingFirst ==
    ASSUME NEW t \in Lists
    PROVE  /\ <<"nothing">> \o t \in Lists /\ <<"nothing">> \o t # <<>>
           /\ Head(<<"nothing">> \o t) = "nothing" /\ Tail(<<"nothing">> \o t) = t
  <1>1. "nothing" \in Items
    BY DEF Items
  <1> QED
    BY Zenon, <1>1, HeadOfList DEF Lists

LEMMA ParsesSkip ==
    ASSUME NEW c, NEW l, NEW t, NEW a, Parses(c, l, t, a)
    PROVE  Parses(c, l, <<"nothing">> \o t, a)
  <1>1. PICK R : At(l, t, a) \in R /\ Closed(c, R, a \o l)
    BY DEF Parses
  <1>2. l \in Words /\ t \in Lists /\ a \in Words
    BY ParsesType
  <1> DEFINE u == <<"nothing">> \o t
             Q == R \cup {At(l, u, a)}
  <1>3. u \in Lists /\ u # <<>> /\ Head(u) = "nothing" /\ Tail(u) = t
    BY <1>2, NothingFirst
  <1> HIDE DEF u
  <1>4. At(l, u, a) \in Reading /\ At(l, u, a).left = l /\ At(l, u, a).list = u
        /\ At(l, u, a).read = a
    BY <1>2, <1>3 DEF Reading, At
  <1>5. R \subseteq Q /\ At(l, t, a) \in Q
    BY Zenon, <1>1
  <1>6. ASSUME NEW x \in Q PROVE x \in R \/ x = At(l, u, a)
    OBVIOUS
  <1> HIDE DEF Q
  <1>7. Closed(c, Q, a \o l)
    BY <1>1, <1>3, <1>4, <1>5, <1>6 DEF Closed
  <1>8. At(l, u, a) \in Q
    BY DEF Q
  <1> QED
    BY <1>7, <1>8 DEF Parses, u

LEMMA ParsesRead ==
    ASSUME NEW c, NEW l, NEW t \in Lists, NEW a \in Words, NEW h \in Items, NEW w \in Word,
           h # "nothing", w.item = Expected(h),
           h = "callId" => c.cmd # "none" /\ w.val = CallId,
           Parses(c, l, More(c, h, w.val, a) \o t, Append(a, w))
    PROVE  Parses(c, <<w>> \o l, <<h>> \o t, a)
  <1> DEFINE m == More(c, h, w.val, a) \o t
  <1>1. PICK R : At(l, m, Append(a, w)) \in R /\ Closed(c, R, Append(a, w) \o l)
    BY DEF Parses
  <1>2. l \in Words
    BY ParsesType
  <1> DEFINE k == <<w>> \o l
             u == <<h>> \o t
             Q == R \cup {At(k, u, a)}
  <1>3. u \in Lists /\ u # <<>> /\ Head(u) = h /\ Tail(u) = t
    BY Zenon, HeadOfList DEF Lists
  <1>4. k \in Words /\ k # <<>> /\ Head(k) = w /\ Tail(k) = l
    BY Zenon, <1>2, HeadOfList DEF Words
  <1>5. Append(a, w) \o l = a \o k
    <2>1. Append(a, w) = a \o <<w>> /\ <<w>> \in Words
      BY AppendIsConcat DEF Words
    <2> QED
      BY <1>2, <2>1, ConcatAssociative DEF Words
  <1>6. At(k, u, a) \in Reading /\ At(k, u, a).left = k /\ At(k, u, a).list = u
        /\ At(k, u, a).read = a
    BY Zenon, <1>3, <1>4 DEF Reading, At
  <1>7. R \subseteq Q /\ At(l, m, Append(a, w)) \in Q /\ m = More(c, h, w.val, a) \o t
    BY Zenon, <1>1
  <1>8. ASSUME NEW x \in Q PROVE x \in R \/ x = At(k, u, a)
    OBVIOUS
  <1> HIDE DEF Q, u, k, m
  <1>9. Closed(c, Q, a \o k)
    <2> DEFINE Good(x) ==
          /\ x \in Reading /\ x.read \o x.left = a \o k
          /\ \/ x.left = <<>> /\ x.list = <<>>
             \/ x.list # <<>> /\ Head(x.list) = "nothing" /\ At(x.left, Tail(x.list), x.read) \in Q
             \/ /\ x.list # <<>> /\ Head(x.list) # "nothing" /\ x.left # <<>>
                /\ Head(x.left).item = Expected(Head(x.list))
                /\ Head(x.list) = "callId" => c.cmd # "none" /\ Head(x.left).val = CallId
                /\ At(Tail(x.left),
                      More(c, Head(x.list), Head(x.left).val, x.read) \o Tail(x.list),
                      Append(x.read, Head(x.left))) \in Q
    <2>1. \A x \in R : Good(x)
      BY Zenon, <1>1, <1>5, <1>7 DEF Closed
    <2>2. Good(At(k, u, a))
      BY Zenon, <1>3, <1>4, <1>6, <1>7
    <2> QED
      BY Zenon, <1>8, <2>1, <2>2 DEF Closed
  <1>10. At(k, u, a) \in Q
    BY DEF Q
  <1> QED
    BY <1>9, <1>10 DEF Parses, u, k

-----------------------------------------------------------------------------
(* FlattenSeq, by its prefixes.                                            *)

\* f[i] is the first i sequences of s in one.
PartialJoins(f, s) ==
    f[0] = <<>> /\ \A i \in 0..(Len(s) - 1) : f[i + 1] = f[i] \o s[i + 1]

LEMMA Flatten ==
    ASSUME NEW S, NEW s \in Seq(Seq(S))
    PROVE  \E f \in [0..Len(s) -> Seq(S)] : PartialJoins(f, s) /\ f[Len(s)] = FlattenSeq(s)
  <1> DEFINE n == Len(s)
             Rec(g) == g = [i \in 1..n |-> IF i = 1 THEN s[i] ELSE g[i - 1] \o s[i]]
             Upto(m) == {g \in [1..m -> Seq(S)] :
                           \A i \in 1..m : g[i] = IF i = 1 THEN s[i] ELSE g[i - 1] \o s[i]}
             T == {m \in 0..n : Upto(m) # {}}
             flatten == CHOOSE g : Rec(g)
  <1>1. n \in Nat /\ s \in [1..n -> Seq(S)]
    BY LenProperties
  <1>2. 0 \in T
    <2>1. [i \in 1..0 |-> <<>>] \in Upto(0)
      OBVIOUS
    <2> HIDE DEF Upto
    <2> QED
      BY <1>1, <2>1
  <1>3. ASSUME NEW m \in 0..(n - 1), m \in T PROVE m + 1 \in T
    <2>1. PICK g : g \in Upto(m)
      BY <1>3
    <2> DEFINE h == [i \in 1..(m + 1) |->
                       IF i <= m THEN g[i] ELSE IF m = 0 THEN s[1] ELSE g[m] \o s[m + 1]]
    <2>2. m # 0 => g[m] \in Seq(S)
      BY <2>1
    <2>3. s[m + 1] \in Seq(S)
      BY <1>1
    <2>4. m # 0 => g[m] \o s[m + 1] \in Seq(S)
      BY <2>2, <2>3, ConcatProperties
    <2>5. h \in [1..(m + 1) -> Seq(S)]
      BY <2>1, <2>3, <2>4
    <2>6. ASSUME NEW i \in 1..(m + 1)
          PROVE  h[i] = IF i = 1 THEN s[i] ELSE h[i - 1] \o s[i]
      <3>1. CASE i <= m
        <4>1. i \in 1..m /\ i \in 1..(m + 1) /\ h[i] = g[i]
          BY <3>1
        <4>2. CASE i # 1
          <5>1. i - 1 \in 1..(m + 1) /\ i - 1 <= m
            BY <3>1, <4>2
          <5>2. h[i - 1] = g[i - 1]
            BY <5>1
          <5> HIDE DEF h
          <5> QED
            BY <2>1, <4>1, <4>2, <5>2
        <4>3. CASE i = 1
          <5> HIDE DEF h
          <5> QED
            BY <2>1, <4>1, <4>3
        <4> QED
          BY Zenon, <4>2, <4>3
      <3>2. CASE i = m + 1 /\ m = 0
        BY <3>2
      <3>3. CASE i = m + 1 /\ m # 0
        <4>1. i # 1 /\ i - 1 = m /\ ~ (i <= m) /\ m \in 1..(m + 1) /\ m <= m
          BY <3>3
        <4>2. h[i] = g[m] \o s[m + 1] /\ h[m] = g[m]
          BY <3>3, <4>1
        <4> HIDE DEF h
        <4> QED
          BY <3>3, <4>1, <4>2
      <3> QED
        BY <3>1, <3>2, <3>3
    <2>7. h \in Upto(m + 1)
      <3> HIDE DEF h
      <3> QED
        BY <2>5, <2>6
    <2> HIDE DEF Upto
    <2> QED
      BY <1>1, <2>7
  <1>4. n \in T
    <2> HIDE DEF T, n
    <2>1. 0..n \subseteq T
      BY <1>1, <1>2, <1>3, BoundedInduction
    <2> QED
      BY <1>1, <2>1
  <1>5. \E g : Rec(g)
    <2>1. PICK g : g \in Upto(n)
      BY Zenon, <1>4
    <2>2. Rec(g)
      BY Zenon, <2>1
    <2> QED
      BY <2>2
  <1>6. Rec(flatten)
    BY Zenon, <1>5
  <1>7. FlattenSeq(s) = IF n = 0 THEN s ELSE flatten[n]
    BY Zenon DEF FlattenSeq
  <1> HIDE DEF flatten
  <1>8. \A i \in 1..n : flatten[i] = IF i = 1 THEN s[i] ELSE flatten[i - 1] \o s[i]
    BY <1>6
  <1> HIDE DEF Rec
  <1> DEFINE f == [i \in 0..n |-> IF i = 0 THEN <<>> ELSE flatten[i]]
             U == {i \in 0..n : f[i] \in Seq(S)}
  <1>9. ASSUME NEW i \in 0..(n - 1) PROVE f[i + 1] = f[i] \o s[i + 1]
    <2>1. CASE i = 0
      <3>1. f[0] = <<>> /\ f[1] = s[1] /\ s[1] \in Seq(S)
        BY <1>1, <1>8, <2>1
      <3>2. <<>> \o s[1] = s[1]
        BY <3>1, ConcatEmptySeq
      <3>3. i + 1 = 1
        BY <2>1
      <3> HIDE DEF f
      <3> QED
        BY <2>1, <3>1, <3>2, <3>3
    <2>2. CASE i # 0
      <3>1. i \in 1..n /\ i + 1 \in 1..n /\ i + 1 # 1 /\ (i + 1) - 1 = i
        BY <1>1, <2>2
      <3>2. flatten[i + 1] = flatten[i] \o s[i + 1]
        BY <1>8, <3>1
      <3>3. f[i + 1] = flatten[i + 1] /\ f[i] = flatten[i]
        BY <1>1, <2>2
      <3> QED
        BY <3>2, <3>3
    <2> QED
      BY <2>1, <2>2
  <1>10. 0..n \subseteq U
    <2>1. 0 \in U
      BY <1>1, EmptySeq
    <2>2. ASSUME NEW i \in 0..(n - 1), i \in U PROVE i + 1 \in U
      <3>1. f[i] \in Seq(S) /\ s[i + 1] \in Seq(S)
        BY <1>1, <2>2
      <3>2. f[i] \o s[i + 1] \in Seq(S)
        BY Zenon, <3>1, ConcatProperties
      <3>3. f[i + 1] \in Seq(S) /\ i + 1 \in 0..n
        <4>1. f[i + 1] = f[i] \o s[i + 1]
          BY <1>9
        <4> HIDE DEF f
        <4> QED
          BY <1>1, <3>2, <4>1
      <3> QED
        BY <3>3
    <2> HIDE DEF U
    <2> QED
      BY <1>1, <2>1, <2>2, BoundedInduction
  <1>11. f \in [0..n -> Seq(S)]
    BY <1>10
  <1>12. PartialJoins(f, s)
    <2>1. f[0] = <<>>
      BY <1>1
    <2> HIDE DEF f
    <2> QED
      BY <1>9, <1>11, <2>1 DEF PartialJoins
  <1>13. f[n] = FlattenSeq(s)
    <2>1. CASE n = 0
      <3>1. s = <<>>
        BY <2>1, EmptySeq
      <3> QED
        BY <1>7, <2>1, <3>1
    <2>2. CASE n # 0
      BY <1>1, <1>7, <2>2
    <2> QED
      BY <2>1, <2>2
  <1> QED
    BY <1>11, <1>12, <1>13

-----------------------------------------------------------------------------
(* Parts of a message.                                                     *)

\* Reader c, having read a, reads the words w as list, whatever follows both.
Reads(c, a, list, w) ==
    \A l \in Words, t \in Lists :
       Parses(c, l, t, a \o w) => Parses(c, w \o l, list \o t, a)

LEMMA Empty ==
    /\ <<>> \in Words /\ <<>> \in Lists
    /\ \A w \in Words : w \o <<>> = w /\ <<>> \o w = w
    /\ \A t \in Lists : t \o <<>> = t /\ <<>> \o t = t
  BY EmptySeq, ConcatEmptySeq DEF Words, Lists

\* Concatenation associates.  A name for it keeps the provers from joining
\* for ever.
Associates(p, q, r) == (p \o q) \o r = p \o (q \o r)

LEMMA SeqsAssociate == \A S : \A p, q, r \in Seq(S) : Associates(p, q, r)
  BY ConcatAssociative DEF Associates

LEMMA WordsAssociate == \A w, v, u \in Words : Associates(w, v, u)
  BY SeqsAssociate DEF Words

LEMMA ListsAssociate == \A t, u, r \in Lists : Associates(t, u, r)
  BY SeqsAssociate DEF Lists

LEMMA WordsJoin == \A w, v \in Words : w \o v \in Words
  BY ConcatProperties DEF Words

LEMMA ListsJoin == \A t, u \in Lists : t \o u \in Lists
  BY ConcatProperties DEF Lists

LEMMA Join ==
    /\ \A w, v \in Words : w \o v \in Words
    /\ \A t, u \in Lists : t \o u \in Lists
    /\ \A w, v, u \in Words : (w \o v) \o u = w \o (v \o u)
    /\ \A t, u, r \in Lists : (t \o u) \o r = t \o (u \o r)
  <1>1. ASSUME NEW w \in Words, NEW v \in Words, NEW u \in Words
        PROVE  (w \o v) \o u = w \o (v \o u)
    BY Zenon, WordsAssociate DEF Associates
  <1>2. ASSUME NEW t \in Lists, NEW u \in Lists, NEW r \in Lists
        PROVE  (t \o u) \o r = t \o (u \o r)
    BY Zenon, ListsAssociate DEF Associates
  <1> QED
    BY Zenon, <1>1, <1>2, WordsJoin, ListsJoin

LEMMA One ==
    /\ \A w \in Word : <<w>> \in Words
    /\ \A h \in Items : <<h>> \in Lists
    /\ \A a \in Words, w \in Word : Append(a, w) = a \o <<w>> /\ Append(a, w) \in Words
  BY AppendIsConcat, AppendProperties DEF Words, Lists

\* What is read as a list from the first word to the last is a message.
LEMMA ReadsAll ==
    ASSUME NEW c, NEW a \in Words, NEW list \in Lists, NEW w \in Words,
           Reads(c, a, list, w)
    PROVE  Parses(c, w, list, a)
  <1>1. Parses(c, <<>>, <<>>, a \o w)
    BY WordsJoin, ParsesNothing
  <1>2. Parses(c, w \o <<>>, list \o <<>>, a)
    BY <1>1, Empty DEF Reads
  <1> QED
    BY <1>2, Empty

LEMMA ReadsEmpty ==
    ASSUME NEW c, NEW a \in Words
    PROVE  Reads(c, a, <<>>, <<>>)
  BY Empty DEF Reads

LEMMA ReadsJoin ==
    ASSUME NEW c, NEW a \in Words, NEW t \in Lists, NEW u \in Lists,
           NEW w \in Words, NEW v \in Words,
           Reads(c, a, t, w), Reads(c, a \o w, u, v)
    PROVE  Reads(c, a, t \o u, w \o v)
  <1> SUFFICES ASSUME NEW l \in Words, NEW r \in Lists, Parses(c, l, r, a \o (w \o v))
               PROVE  Parses(c, (w \o v) \o l, (t \o u) \o r, a)
    BY DEF Reads
  <1>0. Associates(a, w, v)
    BY WordsAssociate
  <1>1. Parses(c, l, r, (a \o w) \o v)
    BY <1>0 DEF Associates
  <1>2. Parses(c, v \o l, u \o r, a \o w)
    BY <1>1 DEF Reads
  <1>3. Parses(c, w \o (v \o l), t \o (u \o r), a)
    <2>1. v \o l \in Words /\ u \o r \in Lists
      BY Zenon, WordsJoin, ListsJoin
    <2> QED
      BY <1>2, <2>1 DEF Reads
  <1>4. Associates(w, v, l) /\ Associates(t, u, r)
    BY WordsAssociate, ListsAssociate
  <1> QED
    BY <1>3, <1>4 DEF Associates

LEMMA ReadsNothing ==
    ASSUME NEW c, NEW a \in Words
    PROVE  Reads(c, a, <<"nothing">>, <<>>)
  BY Empty, ParsesSkip DEF Reads

LEMMA ReadsWord ==
    ASSUME NEW c, NEW a \in Words, NEW h \in Items, NEW w \in Word, NEW v \in Words,
           h # "nothing", w.item = Expected(h),
           h = "callId" => c.cmd # "none" /\ w.val = CallId,
           More(c, h, w.val, a) \in Lists,
           Reads(c, a \o <<w>>, More(c, h, w.val, a), v)
    PROVE  Reads(c, a, <<h>>, <<w>> \o v)
  <1> DEFINE m == More(c, h, w.val, a)
  <1> SUFFICES ASSUME NEW l \in Words, NEW r \in Lists, Parses(c, l, r, a \o (<<w>> \o v))
               PROVE  Parses(c, (<<w>> \o v) \o l, <<h>> \o r, a)
    BY DEF Reads
  <1>0. <<w>> \in Words
    BY One
  <1>4. Associates(a, <<w>>, v) /\ Associates(<<w>>, v, l)
    BY <1>0, WordsAssociate
  <1>1. Parses(c, l, r, (a \o <<w>>) \o v)
    BY <1>4 DEF Associates
  <1>2. Parses(c, v \o l, m \o r, Append(a, w))
    BY <1>1, One DEF Reads
  <1>3. Parses(c, <<w>> \o (v \o l), <<h>> \o r, a)
    BY <1>2, ParsesRead
  <1> QED
    BY <1>3, <1>4 DEF Associates

\* Items after which a reader reads no more than it would anyway.
Plain == Items \ (VarSize \cup {"callId", "nothing", "cmd", "passingType", "dataSize",
                                "anyBufferBound", "numConfig", "logLength"})

LEMMA ReadsPlain ==
    ASSUME NEW c, NEW a \in Words, NEW h \in Plain, NEW v \in Int
    PROVE  Reads(c, a, <<h>>, <<W(h, v)>>)
  <1> DEFINE w == W(h, v)
  <1>1. w \in Word /\ w.item = h /\ w.val = v /\ h \in Items
    BY DEF W, Word, Plain
  <1>2. h \notin VarSize /\ h # "nothing" /\ h # "callId" /\ w.item = Expected(h)
    BY <1>1 DEF Plain, Expected
  <1>3. More(c, h, w.val, a) = <<>>
    BY Zenon, <1>1, <1>2 DEF More, Plain, ServerReadsMore, ClientReadsMore
  <1> HIDE DEF w
  <1>4. Reads(c, a \o <<w>>, <<>>, <<>>)
    BY Zenon, <1>1, WordsJoin, One, ReadsEmpty
  <1>5. Reads(c, a, <<h>>, <<w>> \o <<>>)
    BY <1>1, <1>2, <1>3, <1>4, Empty, ReadsWord
  <1> QED
    BY <1>1, <1>5, Empty, One DEF w

\* The values v as words of one item.
Run(h, v) == [k \in 1..Len(v) |-> W(h, v[k])]

LEMMA RunType ==
    ASSUME NEW h \in Items, NEW v \in Seq(Int)
    PROVE  Run(h, v) \in Words /\ Len(Run(h, v)) = Len(v)
           /\ Copies(Len(v), h) \in Lists
  <1>1. Len(v) \in Nat /\ \A k \in 1..Len(v) : v[k] \in Int
    BY LenProperties
  <1>2. \A k \in 1..Len(v) : W(h, v[k]) \in Word
    BY <1>1 DEF W, Word
  <1>3. Run(h, v) \in [1..Len(v) -> Word]
    BY <1>2 DEF Run
  <1>4. Copies(Len(v), h) \in [1..Len(v) -> Items]
    BY DEF Copies
  <1>5. Run(h, v) \in Words /\ Len(Run(h, v)) = Len(v)
    BY <1>1, <1>3 DEF Words
  <1>6. Copies(Len(v), h) \in Lists
    BY <1>1, <1>4 DEF Lists
  <1> QED
    BY <1>5, <1>6

LEMMA ReadsRun ==
    ASSUME NEW c, NEW a \in Words, NEW h \in Plain, NEW v \in Seq(Int)
    PROVE  Reads(c, a, Copies(Len(v), h), Run(h, v))
  <1> DEFINE n == Len(v)
             R(i) == [k \in 1..i |-> W(h, v[k])]
             T == {i \in 0..n : Reads(c, a, Copies(i, h), R(i))}
  <1>1. n \in Nat /\ (\A k \in 1..n : v[k] \in Int) /\ h \in Items
    BY LenProperties DEF Plain
  <1>2. \A k \in 1..n : W(h, v[k]) \in Word
    BY <1>1 DEF W, Word
  <1>3. 0 \in T
    <2>1. Copies(0, h) = <<>> /\ R(0) = <<>>
      BY DEF Copies
    <2> HIDE DEF R
    <2> QED
      BY <1>1, <2>1, ReadsEmpty
  <1>4. ASSUME NEW i \in 0..(n - 1), i \in T PROVE i + 1 \in T
    <2> DEFINE w == W(h, v[i + 1])
    <2>1. i \in Nat /\ w \in Word /\ v[i + 1] \in Int
      BY <1>1, <1>2
    <2>2. R(i) \in Words /\ Len(R(i)) = i
      <3>1. R(i) \in [1..i -> Word]
        BY <1>1, <1>2
      <3> QED
        BY <2>1, <3>1 DEF Words
    <2>3. Copies(i, h) \in Lists /\ Len(Copies(i, h)) = i
      BY <1>1, <2>1 DEF Copies, Lists
    <2>4. Copies(i + 1, h) = Copies(i, h) \o <<h>>
      BY <1>1, <2>1, <2>3 DEF Copies, Lists
    <2>5. R(i + 1) = R(i) \o <<w>>
      <3> HIDE DEF w
      <3>1. Len(R(i) \o <<w>>) = i + 1 /\ R(i) \o <<w>> \in Words
            /\ \A k \in 1..(i + 1) : (R(i) \o <<w>>)[k] = IF k <= i THEN R(i)[k] ELSE w
        <4> HIDE DEF R
        <4>1. <<w>> \in Words /\ Len(<<w>>) = 1 /\ <<w>>[1] = w
          BY <2>1, One
        <4>2. /\ R(i) \o <<w>> \in Words
              /\ Len(R(i) \o <<w>>) = Len(R(i)) + Len(<<w>>)
              /\ \A k \in 1..(Len(R(i)) + Len(<<w>>)) :
                    (R(i) \o <<w>>)[k] = IF k <= Len(R(i)) THEN R(i)[k] ELSE <<w>>[k - Len(R(i))]
          BY Zenon, <2>2, <4>1, ConcatProperties DEF Words
        <4> HIDE DEF w
        <4>3. ASSUME NEW k \in 1..(i + 1)
              PROVE  (R(i) \o <<w>>)[k] = IF k <= i THEN R(i)[k] ELSE w
          <5>1. (R(i) \o <<w>>)[k] = IF k <= i THEN R(i)[k] ELSE <<w>>[k - i]
            BY <2>1, <2>2, <4>1, <4>2
          <5>2. ~ (k <= i) => k - i = 1
            BY <2>1
          <5> QED
            BY <4>1, <5>1, <5>2
        <4> QED
          BY <2>2, <4>1, <4>2, <4>3
      <3>2. R(i + 1) \in [1..(i + 1) -> Word]
        BY <1>1, <1>2
      <3>3. R(i + 1) \in Words /\ Len(R(i + 1)) = i + 1
        BY <2>1, <3>2 DEF Words
      <3>4. ASSUME NEW k \in 1..(i + 1) PROVE R(i + 1)[k] = IF k <= i THEN R(i)[k] ELSE w
        BY <2>1 DEF w
      <3> HIDE DEF R
      <3> QED
        BY <3>1, <3>3, <3>4, SeqEqual DEF Words
    <2>6. Reads(c, a, Copies(i, h), R(i))
      BY Zenon, <1>4
    <2>7. Reads(c, a \o R(i), <<h>>, <<w>>)
      <3> HIDE DEF R
      <3> QED
        BY Zenon, <2>1, <2>2, WordsJoin, ReadsPlain
    <2>8. Reads(c, a, Copies(i, h) \o <<h>>, R(i) \o <<w>>)
      <3> HIDE DEF R, w
      <3> QED
        BY Zenon, <1>1, <2>1, <2>2, <2>3, <2>6, <2>7, One, ReadsJoin
    <2>9. Reads(c, a, Copies(i + 1, h), R(i + 1))
      <3> HIDE DEF R, w
      <3> QED
        BY <2>4, <2>5, <2>8
    <2> HIDE DEF R, w
    <2> QED
      BY <1>1, <2>9
  <1>5. 0..n \subseteq T
    <2> HIDE DEF T, n
    <2> QED
      BY <1>1, <1>3, <1>4, BoundedInduction
  <1>6. Reads(c, a, Copies(n, h), R(n))
    BY <1>1, <1>5
  <1> QED
    BY <1>6 DEF Run

-----------------------------------------------------------------------------
(* Lists of parts.                                                         *)

\* A sequence of sequences, but for its first.
LEMMA FlattenFirst ==
    ASSUME NEW S, NEW x \in Seq(S), NEW s \in Seq(Seq(S))
    PROVE  FlattenSeq(<<x>> \o s) = x \o FlattenSeq(s)
  <1> DEFINE y == <<x>> \o s
             n == Len(s)
  <1>1. n \in Nat /\ s \in [1..n -> Seq(S)]
    BY LenProperties
  <1>2. y \in Seq(Seq(S)) /\ Len(y) = n + 1 /\ y[1] = x /\ \A i \in 1..n : y[i + 1] = s[i]
    <2>1. <<x>> \in Seq(Seq(S)) /\ Len(<<x>>) = 1 /\ <<x>>[1] = x
      OBVIOUS
    <2>2. y \in Seq(Seq(S)) /\ Len(y) = n + 1
          /\ \A i \in 1..(n + 1) : y[i] = IF i <= 1 THEN <<x>>[i] ELSE s[i - 1]
      BY <1>1, <2>1, ConcatProperties
    <2> HIDE DEF y
    <2>3. y[1] = x
      BY <1>1, <2>1, <2>2
    <2>4. ASSUME NEW i \in 1..n PROVE y[i + 1] = s[i]
      <3>1. i + 1 \in 1..(n + 1) /\ ~ (i + 1 <= 1) /\ (i + 1) - 1 = i
        BY <1>1
      <3> QED
        BY <2>2, <3>1
    <2> QED
      BY <2>2, <2>3, <2>4
  <1> HIDE DEF y
  <1>3. PICK f \in [0..n -> Seq(S)] : PartialJoins(f, s) /\ f[n] = FlattenSeq(s)
    BY Flatten
  <1>4. PICK g \in [0..(n + 1) -> Seq(S)] : PartialJoins(g, y) /\ g[n + 1] = FlattenSeq(y)
    BY Zenon, <1>2, Flatten
  <1>0. /\ f[0] = <<>> /\ \A i \in 0..(n - 1) : f[i + 1] = f[i] \o s[i + 1]
        /\ g[0] = <<>> /\ \A i \in 0..n : g[i + 1] = g[i] \o y[i + 1]
    <2>1. Len(y) - 1 = n
      BY <1>1, <1>2
    <2> QED
      BY <1>3, <1>4, <2>1 DEF PartialJoins
  <1> HIDE DEF n
  <1> DEFINE T == {i \in 0..n : g[i + 1] = x \o f[i]}
  <1>5. 0 \in T
    <2>1. 0 \in 0..n /\ 0 + 1 = 1
      BY <1>1
    <2>2. g[1] = <<>> \o y[1]
      BY <1>0, <2>1
    <2>3. g[1] = x /\ x \o f[0] = x
      BY <1>0, <1>2, <2>2, ConcatEmptySeq
    <2> QED
      BY Zenon, <2>1, <2>3
  <1>6. ASSUME NEW i \in 0..(n - 1), i \in T PROVE i + 1 \in T
    <2>1. i + 1 \in 0..n /\ i + 1 \in 1..n /\ i \in 0..n
      BY <1>1
    <2>2. f[i + 1] = f[i] \o s[i + 1]
      BY <1>0
    <2>3. g[(i + 1) + 1] = g[i + 1] \o y[(i + 1) + 1]
      BY <1>0, <2>1
    <2>4. y[(i + 1) + 1] = s[i + 1]
      BY Zenon, <1>2, <2>1
    <2>5. g[i + 1] = x \o f[i]
      BY <1>6
    <2>6. f[i] \in Seq(S) /\ s[i + 1] \in Seq(S)
      BY Zenon, <1>1, <1>3, <2>1
    <2>7. Associates(x, f[i], s[i + 1])
      BY Zenon, <2>6, SeqsAssociate
    <2>8. g[(i + 1) + 1] = x \o f[i + 1]
      BY <2>2, <2>3, <2>4, <2>5, <2>7 DEF Associates
    <2> QED
      BY <2>1, <2>8
  <1>7. 0..n \subseteq T
    <2> HIDE DEF T
    <2> QED
      BY <1>1, <1>5, <1>6, BoundedInduction
  <1>8. g[n + 1] = x \o f[n]
    <2>1. n \in 0..n
      BY <1>1
    <2>2. n \in T
      <3> HIDE DEF T
      <3> QED
        BY Zenon, <1>7, <2>1
    <2> QED
      BY Zenon, <2>2
  <1> QED
    BY <1>3, <1>4, <1>8 DEF y

\* The parts of one list, one item each, are the list.
LEMMA Singles ==
    ASSUME NEW S, NEW t \in Seq(S)
    PROVE  FlattenSeq([k \in 1..Len(t) |-> <<t[k]>>]) = t
           /\ [k \in 1..Len(t) |-> <<t[k]>>] \in Seq(Seq(S))
  <1> DEFINE n == Len(t)
             s == [k \in 1..n |-> <<t[k]>>]
  <1>1. n \in Nat /\ t \in [1..n -> S]
    BY LenProperties
  <1>2. s \in Seq(Seq(S)) /\ Len(s) = n /\ \A k \in 1..n : s[k] = <<t[k]>>
    <2>1. \A k \in 1..n : <<t[k]>> \in Seq(S)
      BY <1>1
    <2>2. s \in [1..n -> Seq(S)]
      BY <2>1
    <2> QED
      BY <1>1, <2>2
  <1> HIDE DEF s
  <1>3. PICK f \in [0..n -> Seq(S)] : PartialJoins(f, s) /\ f[n] = FlattenSeq(s)
    BY <1>2, Flatten
  <1> DEFINE T == {i \in 0..n : f[i] = SubSeq(t, 1, i)}
  <1>4. 0 \in T
    BY <1>1, <1>3, SubSeqEmpty DEF PartialJoins
  <1>5. ASSUME NEW i \in 0..(n - 1), i \in T PROVE i + 1 \in T
    <2>1. i + 1 \in 1..n /\ 1 \in 1..n /\ i + 1 \in 1..Len(t) /\ (i + 1) - 1 = i
      BY <1>1
    <2>2. f[i + 1] = SubSeq(t, 1, i) \o <<t[i + 1]>>
      BY <1>2, <1>3, <1>5, <2>1 DEF PartialJoins
    <2>3. SubSeq(t, 1, i + 1) = SubSeq(t, 1, (i + 1) - 1) \o <<t[i + 1]>>
      BY <1>1, <2>1, SubSeqRecursiveSecond
    <2>4. f[i + 1] = SubSeq(t, 1, i + 1)
      BY Zenon, <2>1, <2>2, <2>3
    <2>5. i + 1 \in 0..n
      BY <1>1
    <2> QED
      BY Zenon, <2>4, <2>5
  <1>6. 0..n \subseteq T
    <2> HIDE DEF T, n
    <2> QED
      BY <1>1, <1>4, <1>5, BoundedInduction
  <1>7. f[n] = t
    <2>1. n \in T
      <3>1. n \in 0..n
        BY <1>1
      <3> HIDE DEF T, n
      <3> QED
        BY Zenon, <1>6, <3>1
    <2>2. f[n] = SubSeq(t, 1, n)
      BY <2>1
    <2>3. SubSeq(t, 1, Len(t)) = t
      BY Zenon, SubSeqFull
    <2> QED
      BY <2>2, <2>3
  <1> QED
    BY <1>2, <1>3, <1>7 DEF s

\* Part by part.
LEMMA ReadsFlat ==
    ASSUME NEW c, NEW a \in Words, NEW s \in Seq(Lists), NEW w \in Seq(Words),
           Len(s) = Len(w),
           \A k \in 1..Len(s) : \A b \in Words : Reads(c, b, s[k], w[k])
    PROVE  Reads(c, a, FlattenSeq(s), FlattenSeq(w))
           /\ FlattenSeq(s) \in Lists /\ FlattenSeq(w) \in Words
  <1> DEFINE n == Len(s)
  <1>1. n \in Nat /\ s \in [1..n -> Lists] /\ w \in [1..n -> Words] /\ Len(w) = n
    BY Zenon, LenProperties
  <1>2. PICK f \in [0..n -> Lists] : PartialJoins(f, s) /\ f[n] = FlattenSeq(s)
    BY Zenon, Flatten DEF Lists
  <1>3. PICK g \in [0..n -> Words] : PartialJoins(g, w) /\ g[n] = FlattenSeq(w)
    BY <1>1, Flatten DEF Words
  <1> DEFINE T == {i \in 0..n : Reads(c, a, f[i], g[i])}
  <1>4. 0 \in T
    BY <1>1, <1>2, <1>3, ReadsEmpty DEF PartialJoins
  <1>5. ASSUME NEW i \in 0..(n - 1), i \in T PROVE i + 1 \in T
    <2>1. i + 1 \in 1..n /\ i + 1 \in 0..n /\ i \in 0..n
      BY <1>1
    <2>2. f[i + 1] = f[i] \o s[i + 1] /\ g[i + 1] = g[i] \o w[i + 1]
      BY Zenon, <1>1, <1>2, <1>3 DEF PartialJoins
    <2>3. f[i] \in Lists /\ g[i] \in Words /\ s[i + 1] \in Lists /\ w[i + 1] \in Words
      BY Zenon, <1>1, <1>2, <1>3, <2>1
    <2>4. Reads(c, a \o g[i], s[i + 1], w[i + 1])
      BY <2>1, <2>3, WordsJoin
    <2>5. Reads(c, a, f[i + 1], g[i + 1])
      BY Zenon, <1>5, <2>2, <2>3, <2>4, ReadsJoin
    <2> QED
      BY Zenon, <2>1, <2>5
  <1>6. 0..n \subseteq T
    <2> HIDE DEF T, n
    <2> QED
      BY <1>1, <1>4, <1>5, BoundedInduction
  <1>7. Reads(c, a, f[n], g[n]) /\ f[n] \in Lists /\ g[n] \in Words
    BY <1>1, <1>6
  <1> QED
    BY <1>2, <1>3, <1>7

-----------------------------------------------------------------------------
(* Data as they are encoded.                                               *)

\* A record x whose datum item, if it has one, is what Encode takes it for.
Typed(x, item) ==
    IF item \in VarSize \cup Arrays THEN item \in DOMAIN x => x[item] \in Seq(Int)
    ELSE item \in DOMAIN x => x[item] \in Int

LEMMA RunWords ==
    ASSUME NEW h, NEW v \in Seq(Int)
    PROVE  [k \in DOMAIN v |-> W(h, v[k])] = Run(h, v)
  BY LenProperties DEF Run

LEMMA EncodeDatum ==
    ASSUME NEW x, NEW item \in Items \ (VarSize \cup Arrays), Typed(x, item)
    PROVE  \E v \in Int : /\ Encode(x, item) = <<W(item, v)>>
                          /\ v = IF item \in DOMAIN x THEN x[item] ELSE 0
  BY DEF Typed, Encode

LEMMA EncodeVarSize ==
    ASSUME NEW x, NEW item \in VarSize, Typed(x, item)
    PROVE  \E v \in Seq(Int) :
             Encode(x, item) = <<W("varSize", Len(v))>> \o Run("element", v)
  <1> DEFINE v == IF item \in DOMAIN x THEN x[item] ELSE <<>>
  <1>1. v \in Seq(Int)
    BY EmptySeq DEF Typed
  <1>2. Encode(x, item)
          = <<W("varSize", Len(v))>> \o [k \in DOMAIN v |-> W("element", v[k])]
    BY DEF Encode
  <1> HIDE DEF v
  <1> QED
    BY <1>1, <1>2, RunWords

LEMMA EncodeArray ==
    ASSUME NEW x, NEW item \in Arrays \ VarSize, item \in DOMAIN x, x[item] \in Seq(Int)
    PROVE  Encode(x, item) = Run(item, x[item])
  BY RunWords DEF Encode

LEMMA ReadsVarSize ==
    ASSUME NEW c, NEW a \in Words, NEW h \in VarSize, NEW v \in Seq(Int)
    PROVE  /\ Reads(c, a, <<h>>, <<W("varSize", Len(v))>> \o Run("element", v))
           /\ <<W("varSize", Len(v))>> \o Run("element", v) \in Words
  <1> DEFINE w == W("varSize", Len(v))
  <1>1. w \in Word /\ w.item = Expected(h) /\ w.val = Len(v) /\ h \in Items
    BY LenProperties DEF W, Word, Expected, Items, VarSize
  <1>2. h # "nothing" /\ h # "callId" /\ More(c, h, w.val, a) = Copies(Len(v), "element")
    BY <1>1 DEF More, VarSize
  <1>3. "element" \in Plain /\ "element" \in Items
    BY DEF Plain, Items, VarSize
  <1>4. Run("element", v) \in Words /\ Copies(Len(v), "element") \in Lists
    BY Zenon, <1>3, RunType
  <1> HIDE DEF w
  <1>5. a \o <<w>> \in Words /\ <<w>> \in Words
    BY Zenon, <1>1, One, WordsJoin
  <1>6. Reads(c, a \o <<w>>, Copies(Len(v), "element"), Run("element", v))
    BY <1>3, <1>5, ReadsRun
  <1>7. Reads(c, a, <<h>>, <<w>> \o Run("element", v))
    BY Zenon, <1>1, <1>2, <1>4, <1>6, ReadsWord
  <1> QED
    BY <1>4, <1>5, <1>7, WordsJoin DEF w

\* What a side reads for n elements, if they are n.
LEMMA ReadsBlock ==
    ASSUME NEW c, NEW a \in Words, NEW h \in Plain, NEW v \in Seq(Int)
    PROVE  Reads(c, a, Block(Len(v), h), Run(h, v)) /\ Block(Len(v), h) \in Lists
  <1>1. Len(v) \in Nat /\ h \in Items /\ "nothing" \in Items
    BY LenProperties DEF Plain, Items
  <1>2. CASE Len(v) > 0
    BY <1>1, <1>2, ReadsRun, RunType DEF Block
  <1>3. CASE Len(v) = 0
    <2>1. Block(Len(v), h) = <<"nothing">> /\ Run(h, v) = <<>>
      BY <1>3 DEF Block, Run
    <2> QED
      BY <1>1, <2>1, ReadsNothing, One
  <1> QED
    BY <1>1, <1>2, <1>3

\* Data that a message may have anywhere.
Ordinary == (Plain \ Arrays) \cup VarSize

LEMMA ReadsDatum ==
    ASSUME NEW c, NEW a \in Words, NEW x, NEW item \in Ordinary, Typed(x, item)
    PROVE  Reads(c, a, <<item>>, Encode(x, item)) /\ Encode(x, item) \in Words
  <1>1. CASE item \in VarSize
    <2>1. PICK v \in Seq(Int) :
            Encode(x, item) = <<W("varSize", Len(v))>> \o Run("element", v)
      BY <1>1, EncodeVarSize
    <2> QED
      BY <1>1, <2>1, ReadsVarSize
  <1>2. CASE item \in Plain \ Arrays
    <2>1. PICK v \in Int : Encode(x, item) = <<W(item, v)>>
      BY <1>2, EncodeDatum DEF Plain
    <2>2. W(item, v) \in Word
      BY <1>2 DEF W, Word, Plain
    <2> QED
      BY <1>2, <2>1, <2>2, ReadsPlain, One
  <1> QED
    BY <1>1, <1>2 DEF Ordinary

LEMMA DatumWords ==
    ASSUME NEW x, NEW item \in Ordinary, Typed(x, item)
    PROVE  Encode(x, item) \in Words
  BY Empty, ReadsDatum

\* A message of such data is read as their list.
LEMMA ReadsMessage ==
    ASSUME NEW c, NEW a \in Words, NEW x, NEW t \in Seq(Ordinary),
           \A k \in 1..Len(t) : Typed(x, t[k])
    PROVE  Reads(c, a, t, Message(x, t)) /\ Message(x, t) \in Words /\ t \in Lists
  <1> DEFINE n == Len(t)
             s == [k \in 1..n |-> <<t[k]>>]
             w == [k \in 1..n |-> Encode(x, t[k])]
  <1>1. n \in Nat /\ t \in [1..n -> Ordinary] /\ DOMAIN t = 1..n
    BY LenProperties
  <1>2. Ordinary \subseteq Items
    BY DEF Ordinary, Plain, Items, VarSize
  <1>3. t \in Lists
    BY Zenon, <1>2, SeqMonotonic DEF Lists
  <1>4. FlattenSeq(s) = t /\ s \in Seq(Lists)
    BY <1>3, Singles DEF Lists
  <1>5. \A k \in 1..n : Encode(x, t[k]) \in Words
    BY <1>1, Empty, ReadsDatum
  <1>6. w \in Seq(Words) /\ Len(w) = n
    <2>1. w \in [1..n -> Words]
      BY <1>5
    <2> QED
      BY <1>1, <2>1
  <1>7. Len(s) = n
    BY <1>1
  <1>8. ASSUME NEW k \in 1..n, NEW b \in Words PROVE Reads(c, b, s[k], w[k])
    BY <1>1, ReadsDatum
  <1>9. Message(x, t) = FlattenSeq(w)
    BY Zenon, <1>1 DEF Message
  <1> HIDE DEF s, w
  <1>10. Reads(c, a, FlattenSeq(s), FlattenSeq(w)) /\ FlattenSeq(w) \in Words
    BY <1>4, <1>6, <1>7, <1>8, ReadsFlat
  <1> QED
    BY <1>3, <1>4, <1>9, <1>10

\* A message, but for its first datum.
LEMMA MessageFirst ==
    ASSUME NEW x, NEW h, NEW S, NEW t \in Seq(S), h \in S, Encode(x, h) \in Words,
           \A k \in 1..Len(t) : Encode(x, t[k]) \in Words
    PROVE  Message(x, <<h>> \o t) = Encode(x, h) \o Message(x, t)
  <1> DEFINE n == Len(t)
             u == <<h>> \o t
             w == [k \in 1..n |-> Encode(x, t[k])]
             v == [k \in 1..(n + 1) |-> Encode(x, u[k])]
  <1>1. n \in Nat /\ DOMAIN t = 1..n
    BY LenProperties
  <1>2. u \in Seq(S) /\ Len(u) = n + 1 /\ DOMAIN u = 1..(n + 1)
        /\ \A k \in 1..(n + 1) : u[k] = IF k <= 1 THEN h ELSE t[k - 1]
    <2>1. <<h>> \in Seq(S) /\ Len(<<h>>) = 1 /\ <<h>>[1] = h
      OBVIOUS
    <2> QED
      BY <1>1, <2>1, ConcatProperties, LenProperties
  <1> HIDE DEF u
  <1>3. w \in Seq(Words) /\ Len(w) = n
    <2>1. w \in [1..n -> Words]
      OBVIOUS
    <2> QED
      BY <1>1, <2>1
  <1>4. <<Encode(x, h)>> \o w = v
    <2> DEFINE y == <<Encode(x, h)>> \o w
    <2>1. <<Encode(x, h)>> \in Seq(Words) /\ Len(<<Encode(x, h)>>) = 1
          /\ <<Encode(x, h)>>[1] = Encode(x, h)
      OBVIOUS
    <2>2. y \in Seq(Words) /\ Len(y) = n + 1
          /\ \A k \in 1..(n + 1) : y[k] = IF k <= 1 THEN <<Encode(x, h)>>[k] ELSE w[k - 1]
      <3> HIDE DEF w
      <3> QED
        BY <1>1, <1>3, <2>1, ConcatProperties
    <2>3. \A k \in 1..(n + 1) : y[k] = Encode(x, u[k])
      <3> SUFFICES ASSUME NEW k \in 1..(n + 1) PROVE y[k] = Encode(x, u[k])
        OBVIOUS
      <3>1. CASE k = 1
        <4>1. k <= 1
          BY <3>1
        <4>2. u[k] = h
          BY <1>2, <4>1
        <4>3. y[k] = Encode(x, h)
          <5> HIDE DEF y
          <5> QED
            BY <2>1, <2>2, <3>1, <4>1
        <4> QED
          BY <4>2, <4>3
      <3>2. CASE k # 1
        <4>1. k - 1 \in 1..n /\ ~ (k <= 1)
          BY <1>1, <3>2
        <4>2. w[k - 1] = Encode(x, t[k - 1]) /\ u[k] = t[k - 1]
          BY Zenon, <1>1, <1>2, <4>1
        <4> HIDE DEF y, w
        <4> QED
          BY <2>2, <4>1, <4>2
      <3> QED
        BY <3>1, <3>2
    <2>4. y = [k \in 1..(n + 1) |-> y[k]]
      <3> HIDE DEF y
      <3> QED
        BY <1>1, <2>2
    <2> HIDE DEF y
    <2>5. y = v
      BY <2>3, <2>4
    <2> QED
      BY <2>5 DEF y
  <1>5. Message(x, u) = FlattenSeq(v) /\ Message(x, t) = FlattenSeq(w)
    BY <1>1, <1>2 DEF Message
  <1> HIDE DEF v, w
  <1> QED
    BY <1>3, <1>4, <1>5, FlattenFirst DEF u, Words

LEMMA MessageNone ==
    ASSUME NEW x
    PROVE  Message(x, <<>>) = <<>>
  <1> DEFINE s == [k \in DOMAIN <<>> |-> Encode(x, <<>>[k])]
  <1>1. s = <<>>
    OBVIOUS
  <1>2. FlattenSeq(<<>>) = <<>>
    BY Zenon DEF FlattenSeq
  <1>3. Message(x, <<>>) = FlattenSeq(s)
    BY ZenonT(40) DEF Message
  <1> HIDE DEF s
  <1> QED
    BY <1>1, <1>2, <1>3

-----------------------------------------------------------------------------
(* The tables of the client and of the server.                             *)

\* The answers that are longer than the table of the client says.
Queries == {"eglGetConfigs", "eglChooseConfig"}
Logs    == {"glGetShaderInfoLog", "glGetProgramInfoLog"}
Names   == {"glGenTextures", "glGenBuffers"}
Draws   == {"glDrawArrays", "glDrawElements"}

\* How the client's table has command cmd, as k, and the server's, as h.
SentAsRead(cmd, k, h) ==
    /\ cmd \notin Draws \cup {"glShaderSource", "glBufferData"} =>
           k.send \in Seq(Ordinary) /\ h.receive = <<"callId">> \o k.send
    /\ cmd = "glShaderSource" =>
           k.send = <<"shader", "count">>
           /\ h.receive = <<"callId", "shader", "count", "passingType">>
    /\ cmd = "glBufferData" =>
           k.send = <<"target", "dataSize", "data", "usage">>
           /\ h.receive = <<"callId", "target", "dataSize", "usage">>
    /\ cmd = "glDrawArrays" =>
           k.send = <<"mode", "first", "count">>
           /\ h.receive = <<"callId">> \o (k.send \o VertexAttribHeader)
    /\ cmd = "glDrawElements" =>
           k.send = <<"mode", "count", "type", "indices">>
           /\ h.receive = <<"callId">> \o (k.send \o VertexAttribHeader)

AnsweredAsReceived(cmd, k, h) ==
    /\ cmd \notin Queries \cup Logs \cup Names =>
           \/ k.receive = <<>> /\ h.send = <<>>
           \/ \E s \in Seq(Ordinary) :
                 k.receive = <<"callId">> \o s /\ h.send = <<"callId">> \o s
    /\ cmd \in Queries =>
           k.receive = <<"callId", "status", "numConfig">>
           /\ h.send = <<"callId", "status", "numConfig">>
    /\ cmd \in Logs =>
           k.receive = <<"callId", "logLength">>
           /\ h.send = <<"callId", "logLength", "infoLog">>
    /\ cmd \in Names =>
           k.receive = <<"callId">> /\ h.send = <<"callId", "genNames">>
    /\ cmd \in Draws \cup {"glShaderSource", "glBufferData", "glBindBuffer"} =>
           k.receive = <<>>

\* What merging two functions means: the first one takes precedence.
LEMMA MergeDomain ==
    ASSUME NEW f, NEW g
    PROVE  DOMAIN (f ++ g) = DOMAIN f \cup DOMAIN g
  BY ZenonT(40) DEF ++

LEMMA MergeFirst ==
    ASSUME NEW f, NEW g, NEW x \in DOMAIN f
    PROVE  (f ++ g)[x] = f[x]
  BY ZenonT(40) DEF ++

LEMMA MergeSecond ==
    ASSUME NEW f, NEW g, NEW x \in DOMAIN g, x \notin DOMAIN f
    PROVE  (f ++ g)[x] = g[x]
  BY Zenon DEF ++

\* Two tables that agree on every command.
Agree(f, g) ==
    /\ DOMAIN f = DOMAIN g
    /\ \A cmd \in DOMAIN f :
          SentAsRead(cmd, f[cmd], g[cmd]) /\ AnsweredAsReceived(cmd, f[cmd], g[cmd])

LEMMA AgreeMerged ==
    ASSUME NEW f, NEW g, NEW p, NEW q, Agree(f, p), Agree(g, q)
    PROVE  Agree(f ++ g, p ++ q)
  <1>1. DOMAIN f = DOMAIN p /\ DOMAIN g = DOMAIN q
    BY Zenon DEF Agree
  <1>2. DOMAIN (f ++ g) = DOMAIN f \cup DOMAIN g
        /\ DOMAIN (p ++ q) = DOMAIN p \cup DOMAIN q
    BY Zenon, MergeDomain
  <1>3. ASSUME NEW cmd \in DOMAIN (f ++ g)
        PROVE  SentAsRead(cmd, (f ++ g)[cmd], (p ++ q)[cmd])
               /\ AnsweredAsReceived(cmd, (f ++ g)[cmd], (p ++ q)[cmd])
    <2>1. CASE cmd \in DOMAIN f
      <3>1. (f ++ g)[cmd] = f[cmd] /\ (p ++ q)[cmd] = p[cmd]
        BY Zenon, <1>1, <2>1, MergeFirst
      <3> QED
        BY Zenon, <2>1, <3>1 DEF Agree
    <2>2. CASE cmd \in DOMAIN g \ DOMAIN f
      <3>1. (f ++ g)[cmd] = g[cmd]
        BY Zenon, <2>2, MergeSecond
      <3>2. cmd \in DOMAIN q /\ cmd \notin DOMAIN p
        BY Zenon, <1>1, <2>2
      <3>3. (p ++ q)[cmd] = q[cmd]
        BY Zenon, <3>2, MergeSecond
      <3> QED
        BY Zenon, <2>2, <3>1, <3>3 DEF Agree
    <2> QED
      BY Zenon, <1>2, <2>1, <2>2
  <1> QED
    BY Zenon, <1>1, <1>2, <1>3 DEF Agree

\* Commands whose tables need no more than that both have the same lists.
Regular(cmd) ==
    cmd \notin Draws \cup {"glShaderSource", "glBufferData"} \cup Queries \cup Logs \cup Names

\* Tables f and g have the same lists for cmd.
Same(f, g, cmd) ==
    /\ Regular(cmd)
    /\ \/ /\ cmd # "glBindBuffer"
          /\ \E s, r \in Seq(Ordinary) : f[cmd] = Call(s, r) /\ g[cmd] = Answer(s, r)
       \/ \E s \in Seq(Ordinary) : f[cmd] = Post(s) /\ g[cmd] = Silent(s)

LEMMA SameAgrees ==
    ASSUME NEW f, NEW g, NEW cmd, Same(f, g, cmd)
    PROVE  SentAsRead(cmd, f[cmd], g[cmd]) /\ AnsweredAsReceived(cmd, f[cmd], g[cmd])
  <1>1. CASE cmd # "glBindBuffer" /\
             \E s, r \in Seq(Ordinary) : f[cmd] = Call(s, r) /\ g[cmd] = Answer(s, r)
    <2>1. PICK s \in Seq(Ordinary), r \in Seq(Ordinary) :
             f[cmd] = Call(s, r) /\ g[cmd] = Answer(s, r)
      BY Zenon, <1>1
    <2>2. SentAsRead(cmd, Call(s, r), Answer(s, r))
      BY Zenon DEF Same, Regular, SentAsRead, Call, Answer, Draws
    <2>3. AnsweredAsReceived(cmd, Call(s, r), Answer(s, r))
      BY <1>1 DEF Same, Regular, AnsweredAsReceived, Call, Answer, Draws
    <2> QED
      BY <2>1, <2>2, <2>3
  <1>2. CASE \E s \in Seq(Ordinary) : f[cmd] = Post(s) /\ g[cmd] = Silent(s)
    <2>1. PICK s \in Seq(Ordinary) : f[cmd] = Post(s) /\ g[cmd] = Silent(s)
      BY <1>2
    <2>2. SentAsRead(cmd, Post(s), Silent(s))
      BY DEF Same, Regular, SentAsRead, Post, Silent, Draws
    <2>3. AnsweredAsReceived(cmd, Post(s), Silent(s))
      BY DEF Same, Regular, AnsweredAsReceived, Post, Silent, Draws
    <2> QED
      BY Zenon, <2>1, <2>2, <2>3
  <1> QED
    BY <1>1, <1>2 DEF Same

LEMMA DisplayAgree == Agree(DisplayCalls, DisplayHandlers)
  <1>1. {<<>>, <<"error">>, <<"displayId">>, <<"display">>,
         <<"status", "major", "minor">>, <<"status">>,
         <<"display", "stringName">>, <<"queryString">>} \subseteq Seq(Ordinary)
    BY EmptySeq DEF Ordinary, Plain, Items, VarSize, Arrays
  <1>2. DOMAIN DisplayCalls = {"eglGetError", "eglGetDisplay", "eglInitialize",
           "eglTerminate", "eglQueryString"}
        /\ DOMAIN DisplayHandlers = DOMAIN DisplayCalls
    BY Zenon DEF DisplayCalls, DisplayHandlers
  <1>3. /\ Same(DisplayCalls, DisplayHandlers, "eglGetError")
        /\ Same(DisplayCalls, DisplayHandlers, "eglGetDisplay")
        /\ Same(DisplayCalls, DisplayHandlers, "eglInitialize")
        /\ Same(DisplayCalls, DisplayHandlers, "eglTerminate")
        /\ Same(DisplayCalls, DisplayHandlers, "eglQueryString")
    BY <1>1 DEF Same, Regular, Queries, Logs, Names, Draws, DisplayCalls, DisplayHandlers
  <1> QED
    BY Zenon, <1>2, <1>3, SameAgrees DEF Agree

LEMMA ConfigAgree == Agree(ConfigCalls, ConfigHandlers)
  <1>1. {<<"display", "configSize">>, <<"display", "attribList", "configSize">>,
         <<"display", "config", "attribute">>,
         <<"status", "value">>} \subseteq Seq(Ordinary)
    BY EmptySeq DEF Ordinary, Plain, Items, VarSize, Arrays
  <1>2. DOMAIN ConfigCalls = {"eglGetConfigs", "eglChooseConfig",
           "eglGetConfigAttrib"}
        /\ DOMAIN ConfigHandlers = DOMAIN ConfigCalls
    BY DEF ConfigCalls, ConfigHandlers
  <1>3. /\ Same(ConfigCalls, ConfigHandlers, "eglGetConfigAttrib")
    BY <1>1 DEF Same, Regular, Queries, Logs, Names, Draws, ConfigCalls, ConfigHandlers
  <1>4. SentAsRead("eglGetConfigs", ConfigCalls.eglGetConfigs, ConfigHandlers.eglGetConfigs)
    BY <1>1 DEF ConfigCalls, ConfigHandlers, SentAsRead, Queries, Logs, Names, Draws,
       Call, Answer, Post, Silent, VertexAttribHeader
  <1>5. AnsweredAsReceived("eglGetConfigs", ConfigCalls.eglGetConfigs, ConfigHandlers.eglGetConfigs)
    BY DEF ConfigCalls, ConfigHandlers, AnsweredAsReceived, Queries, Logs, Names, Draws,
       Call, Answer, Post, Silent
  <1>6. SentAsRead("eglChooseConfig", ConfigCalls.eglChooseConfig, ConfigHandlers.eglChooseConfig)
    BY <1>1 DEF ConfigCalls, ConfigHandlers, SentAsRead, Queries, Logs, Names, Draws,
       Call, Answer, Post, Silent, VertexAttribHeader
  <1>7. AnsweredAsReceived("eglChooseConfig", ConfigCalls.eglChooseConfig, ConfigHandlers.eglChooseConfig)
    BY DEF ConfigCalls, ConfigHandlers, AnsweredAsReceived, Queries, Logs, Names, Draws,
       Call, Answer, Post, Silent
  <1> QED
    BY Zenon, <1>2, <1>3, SameAgrees, <1>4, <1>5, <1>6, <1>7 DEF Agree

LEMMA SurfaceAgree == Agree(SurfaceCalls, SurfaceHandlers)
  <1>1. {<<"display", "config", "window", "attribList">>, <<"surface">>,
         <<"api">>, <<"status">>} \subseteq Seq(Ordinary)
    BY EmptySeq DEF Ordinary, Plain, Items, VarSize, Arrays
  <1>2. DOMAIN SurfaceCalls = {"eglCreateWindowSurface", "eglBindAPI"}
        /\ DOMAIN SurfaceHandlers = DOMAIN SurfaceCalls
    BY Zenon DEF SurfaceCalls, SurfaceHandlers
  <1>3. /\ Same(SurfaceCalls, SurfaceHandlers, "eglCreateWindowSurface")
        /\ Same(SurfaceCalls, SurfaceHandlers, "eglBindAPI")
    BY <1>1 DEF Same, Regular, Queries, Logs, Names, Draws, SurfaceCalls, SurfaceHandlers
  <1> QED
    BY <1>2, <1>3, SameAgrees DEF Agree

LEMMA ContextAgree == Agree(ContextCalls, ContextHandlers)
  <1>1. {<<"display", "config", "shareContext", "attribList">>, <<"context">>,
         <<"display", "drawSurface", "readSurface", "context">>, <<"status">>,
         <<"display", "surface">>} \subseteq Seq(Ordinary)
    BY SMTT(30), EmptySeq DEF Ordinary, Plain, Items, VarSize, Arrays
  <1>2. DOMAIN ContextCalls = {"eglCreateContext", "eglMakeCurrent",
           "eglSwapBuffers"}
        /\ DOMAIN ContextHandlers = DOMAIN ContextCalls
    BY DEF ContextCalls, ContextHandlers
  <1>3. /\ Same(ContextCalls, ContextHandlers, "eglCreateContext")
        /\ Same(ContextCalls, ContextHandlers, "eglMakeCurrent")
        /\ Same(ContextCalls, ContextHandlers, "eglSwapBuffers")
    BY <1>1 DEF Same, Regular, Queries, Logs, Names, Draws, ContextCalls, ContextHandlers
  <1> QED
    BY <1>2, <1>3, SameAgrees DEF Agree

LEMMA ShaderAgree == Agree(ShaderCalls, ShaderHandlers)
  <1>1. {<<"type">>, <<"shader">>, <<"shader", "pname">>, <<"params">>,
         <<"shader", "bufsize">>} \subseteq Seq(Ordinary)
    BY EmptySeq DEF Ordinary, Plain, Items, VarSize, Arrays
  <1>2. DOMAIN ShaderCalls = {"glCreateShader", "glShaderSource",
           "glCompileShader", "glGetShaderiv", "glGetShaderInfoLog",
           "glDeleteShader"}
        /\ DOMAIN ShaderHandlers = DOMAIN ShaderCalls
    BY Zenon DEF ShaderCalls, ShaderHandlers
  <1>3. /\ Same(ShaderCalls, ShaderHandlers, "glCreateShader")
        /\ Same(ShaderCalls, ShaderHandlers, "glCompileShader")
        /\ Same(ShaderCalls, ShaderHandlers, "glGetShaderiv")
        /\ Same(ShaderCalls, ShaderHandlers, "glDeleteShader")
    BY <1>1 DEF Same, Regular, Queries, Logs, Names, Draws, ShaderCalls, ShaderHandlers
  <1>4. SentAsRead("glShaderSource", ShaderCalls.glShaderSource, ShaderHandlers.glShaderSource)
    BY <1>1 DEF ShaderCalls, ShaderHandlers, SentAsRead, Queries, Logs, Names, Draws,
       Call, Answer, Post, Silent, VertexAttribHeader
  <1>5. AnsweredAsReceived("glShaderSource", ShaderCalls.glShaderSource, ShaderHandlers.glShaderSource)
    BY DEF ShaderCalls, ShaderHandlers, AnsweredAsReceived, Queries, Logs, Names, Draws,
       Call, Answer, Post, Silent
  <1>6. SentAsRead("glGetShaderInfoLog", ShaderCalls.glGetShaderInfoLog, ShaderHandlers.glGetShaderInfoLog)
    BY <1>1 DEF ShaderCalls, ShaderHandlers, SentAsRead, Queries, Logs, Names, Draws,
       Call, Answer, Post, Silent, VertexAttribHeader
  <1>7. AnsweredAsReceived("glGetShaderInfoLog", ShaderCalls.glGetShaderInfoLog, ShaderHandlers.glGetShaderInfoLog)
    BY DEF ShaderCalls, ShaderHandlers, AnsweredAsReceived, Queries, Logs, Names, Draws,
       Call, Answer, Post, Silent
  <1> QED
    BY <1>2, <1>3, SameAgrees, <1>4, <1>5, <1>6, <1>7 DEF Agree

LEMMA ProgramAgree == Agree(ProgramCalls, ProgramHandlers)
  <1>1. {<<>>, <<"program">>, <<"program", "shader">>,
         <<"program", "attribIndex", "name">>, <<"program", "pname">>,
         <<"params">>, <<"program", "bufsize">>} \subseteq Seq(Ordinary)
    BY EmptySeq DEF Ordinary, Plain, Items, VarSize, Arrays
  <1>2. DOMAIN ProgramCalls = {"glCreateProgram", "glAttachShader",
           "glBindAttribLocation", "glLinkProgram", "glGetProgramiv",
           "glGetProgramInfoLog", "glDeleteProgram"}
        /\ DOMAIN ProgramHandlers = DOMAIN ProgramCalls
    BY Zenon DEF ProgramCalls, ProgramHandlers
  <1>3. /\ Same(ProgramCalls, ProgramHandlers, "glCreateProgram")
        /\ Same(ProgramCalls, ProgramHandlers, "glAttachShader")
        /\ Same(ProgramCalls, ProgramHandlers, "glBindAttribLocation")
        /\ Same(ProgramCalls, ProgramHandlers, "glLinkProgram")
        /\ Same(ProgramCalls, ProgramHandlers, "glGetProgramiv")
        /\ Same(ProgramCalls, ProgramHandlers, "glDeleteProgram")
    BY <1>1 DEF Same, Regular, Queries, Logs, Names, Draws, ProgramCalls, ProgramHandlers
  <1>4. SentAsRead("glGetProgramInfoLog", ProgramCalls.glGetProgramInfoLog, ProgramHandlers.glGetProgramInfoLog)
    BY <1>1 DEF ProgramCalls, ProgramHandlers, SentAsRead, Queries, Logs, Names, Draws,
       Call, Answer, Post, Silent, VertexAttribHeader
  <1>5. AnsweredAsReceived("glGetProgramInfoLog", ProgramCalls.glGetProgramInfoLog, ProgramHandlers.glGetProgramInfoLog)
    BY DEF ProgramCalls, ProgramHandlers, AnsweredAsReceived, Queries, Logs, Names, Draws,
       Call, Answer, Post, Silent
  <1> QED
    BY <1>2, <1>3, SameAgrees, <1>4, <1>5 DEF Agree

LEMMA StateAgree == Agree(StateCalls, StateHandlers)
  <1>1. {<<"red", "green", "blue", "alpha">>, <<"x", "y", "width", "height">>,
         <<"mask">>, <<"program">>} \subseteq Seq(Ordinary)
    BY EmptySeq DEF Ordinary, Plain, Items, VarSize, Arrays
  <1>2. DOMAIN StateCalls = {"glClearColor", "glViewport", "glClear",
           "glUseProgram"}
        /\ DOMAIN StateHandlers = DOMAIN StateCalls
    BY Zenon DEF StateCalls, StateHandlers
  <1>3. /\ Same(StateCalls, StateHandlers, "glClearColor")
        /\ Same(StateCalls, StateHandlers, "glViewport")
        /\ Same(StateCalls, StateHandlers, "glClear")
        /\ Same(StateCalls, StateHandlers, "glUseProgram")
    BY <1>1 DEF Same, Regular, Queries, Logs, Names, Draws, StateCalls, StateHandlers
  <1> QED
    BY <1>2, <1>3, SameAgrees DEF Agree

LEMMA DrawAgree == Agree(DrawCalls, DrawHandlers)
  <1>1. {<<>>, <<"error">>, <<"pname", "param">>} \subseteq Seq(Ordinary)
    BY EmptySeq DEF Ordinary, Plain, Items, VarSize, Arrays
  <1>2. DOMAIN DrawCalls = {"glDrawArrays", "glGetError", "glFinish",
           "glPixelStorei"}
        /\ DOMAIN DrawHandlers = DOMAIN DrawCalls
    BY DEF DrawCalls, DrawHandlers
  <1>3. /\ Same(DrawCalls, DrawHandlers, "glGetError")
        /\ Same(DrawCalls, DrawHandlers, "glFinish")
        /\ Same(DrawCalls, DrawHandlers, "glPixelStorei")
    BY <1>1 DEF Same, Regular, Queries, Logs, Names, Draws, DrawCalls, DrawHandlers
  <1>4. SentAsRead("glDrawArrays", DrawCalls.glDrawArrays, DrawHandlers.glDrawArrays)
    BY <1>1 DEF DrawCalls, DrawHandlers, SentAsRead, Queries, Logs, Names, Draws,
       Call, Answer, Post, Silent, VertexAttribHeader
  <1>5. AnsweredAsReceived("glDrawArrays", DrawCalls.glDrawArrays, DrawHandlers.glDrawArrays)
    BY DEF DrawCalls, DrawHandlers, AnsweredAsReceived, Queries, Logs, Names, Draws,
       Call, Answer, Post, Silent
  <1> QED
    BY <1>2, <1>3, SameAgrees, <1>4, <1>5 DEF Agree

LEMMA TextureAgree == Agree(TextureCalls, TextureHandlers)
  <1>1. {<<"n">>, <<"target", "texture">>,
         <<"target", "level", "internalFormat", "width", "height", "border", "format", "type", "texels">>,
         <<"target", "pname", "param">>, <<"texture">>} \subseteq Seq(Ordinary)
    BY EmptySeq DEF Ordinary, Plain, Items, VarSize, Arrays
  <1>2. DOMAIN TextureCalls = {"glGenTextures", "glBindTexture", "glTexImage2D",
           "glTexParameteri", "glActiveTexture"}
        /\ DOMAIN TextureHandlers = DOMAIN TextureCalls
    BY Zenon DEF TextureCalls, TextureHandlers
  <1>3. /\ Same(TextureCalls, TextureHandlers, "glBindTexture")
        /\ Same(TextureCalls, TextureHandlers, "glTexImage2D")
        /\ Same(TextureCalls, TextureHandlers, "glTexParameteri")
        /\ Same(TextureCalls, TextureHandlers, "glActiveTexture")
    BY <1>1 DEF Same, Regular, Queries, Logs, Names, Draws, TextureCalls, TextureHandlers
  <1>4. SentAsRead("glGenTextures", TextureCalls.glGenTextures, TextureHandlers.glGenTextures)
    BY <1>1 DEF TextureCalls, TextureHandlers, SentAsRead, Queries, Logs, Names, Draws,
       Call, Answer, Post, Silent, VertexAttribHeader
  <1>5. AnsweredAsReceived("glGenTextures", TextureCalls.glGenTextures, TextureHandlers.glGenTextures)
    BY DEF TextureCalls, TextureHandlers, AnsweredAsReceived, Queries, Logs, Names, Draws,
       Call, Answer, Post, Silent
  <1> QED
    BY <1>2, <1>3, SameAgrees, <1>4, <1>5 DEF Agree

LEMMA UniformAgree == Agree(UniformCalls, UniformHandlers)
  <1>1. {<<"location", "v0">>, <<"program", "name">>,
         <<"location">>} \subseteq Seq(Ordinary)
    BY EmptySeq DEF Ordinary, Plain, Items, VarSize, Arrays
  <1>2. DOMAIN UniformCalls = {"glUniform1i", "glDrawElements",
           "glGetAttribLocation", "glGetUniformLocation"}
        /\ DOMAIN UniformHandlers = DOMAIN UniformCalls
    BY Zenon DEF UniformCalls, UniformHandlers
  <1>3. /\ Same(UniformCalls, UniformHandlers, "glUniform1i")
        /\ Same(UniformCalls, UniformHandlers, "glGetAttribLocation")
        /\ Same(UniformCalls, UniformHandlers, "glGetUniformLocation")
    BY <1>1 DEF Same, Regular, Queries, Logs, Names, Draws, UniformCalls, UniformHandlers
  <1>4. SentAsRead("glDrawElements", UniformCalls.glDrawElements, UniformHandlers.glDrawElements)
    BY <1>1 DEF UniformCalls, UniformHandlers, SentAsRead, Queries, Logs, Names, Draws,
       Call, Answer, Post, Silent, VertexAttribHeader
  <1>5. AnsweredAsReceived("glDrawElements", UniformCalls.glDrawElements, UniformHandlers.glDrawElements)
    BY DEF UniformCalls, UniformHandlers, AnsweredAsReceived, Queries, Logs, Names, Draws,
       Call, Answer, Post, Silent
  <1> QED
    BY <1>2, <1>3, SameAgrees, <1>4, <1>5 DEF Agree

LEMMA BufferAgree == Agree(BufferCalls, BufferHandlers)
  <1>1. {<<"n", "names">>, <<"n">>,
         <<"target", "buffer">>} \subseteq Seq(Ordinary)
    BY EmptySeq DEF Ordinary, Plain, Items, VarSize, Arrays
  <1>2. DOMAIN BufferCalls = {"glDeleteTextures", "glGenBuffers",
           "glBindBuffer", "glBufferData", "glDeleteBuffers"}
        /\ DOMAIN BufferHandlers = DOMAIN BufferCalls
    BY Zenon DEF BufferCalls, BufferHandlers
  <1>3. /\ Same(BufferCalls, BufferHandlers, "glDeleteTextures")
        /\ Same(BufferCalls, BufferHandlers, "glBindBuffer")
        /\ Same(BufferCalls, BufferHandlers, "glDeleteBuffers")
    BY <1>1 DEF Same, Regular, Queries, Logs, Names, Draws, BufferCalls, BufferHandlers
  <1>4. SentAsRead("glGenBuffers", BufferCalls.glGenBuffers, BufferHandlers.glGenBuffers)
    BY <1>1 DEF BufferCalls, BufferHandlers, SentAsRead, Queries, Logs, Names, Draws,
       Call, Answer, Post, Silent, VertexAttribHeader
  <1>5. AnsweredAsReceived("glGenBuffers", BufferCalls.glGenBuffers, BufferHandlers.glGenBuffers)
    BY DEF BufferCalls, BufferHandlers, AnsweredAsReceived, Queries, Logs, Names, Draws,
       Call, Answer, Post, Silent
  <1>6. SentAsRead("glBufferData", BufferCalls.glBufferData, BufferHandlers.glBufferData)
    BY <1>1 DEF BufferCalls, BufferHandlers, SentAsRead, Queries, Logs, Names, Draws,
       Call, Answer, Post, Silent, VertexAttribHeader
  <1>7. AnsweredAsReceived("glBufferData", BufferCalls.glBufferData, BufferHandlers.glBufferData)
    BY DEF BufferCalls, BufferHandlers, AnsweredAsReceived, Queries, Logs, Names, Draws,
       Call, Answer, Post, Silent
  <1> QED
    BY <1>2, <1>3, SameAgrees, <1>4, <1>5, <1>6, <1>7 DEF Agree

\* The client and the server have the same commands and agree on each.
LEMMA TablesAgree == Agree(Calls, eglGlesJumpTable)
  BY ZenonT(40), DisplayAgree, ConfigAgree, SurfaceAgree, ContextAgree, ShaderAgree, ProgramAgree,
     StateAgree, DrawAgree, TextureAgree, UniformAgree, BufferAgree, AgreeMerged
     DEF Calls, eglGlesJumpTable


LEMMA ConcatOne ==
    ASSUME NEW S, NEW x \in S, NEW t \in Seq(S), NEW u \in Seq(S), Len(u) = Len(t) + 1,
           u[1] = x, \A i \in 1..Len(t) : u[i + 1] = t[i]
    PROVE  <<x>> \o t = u
  <1>1. u # <<>> /\ Len(t) \in Nat
    BY LenProperties, EmptySeq
  <1>2. Head(u) = x /\ Tail(u) \in Seq(S) /\ Len(Tail(u)) = Len(t)
        /\ \A i \in 1..Len(t) : Tail(u)[i] = u[i + 1]
    BY <1>1, HeadTailProperties
  <1>3. Tail(u) = t
    BY Zenon, <1>2, SeqEqual
  <1>4. \A q \in Seq(S) : q # <<>> => q = <<Head(q)>> \o Tail(q)
    OBVIOUS
  <1> QED
    BY Zenon, <1>1, <1>2, <1>3, <1>4

LEMMA Cons1 ==
    ASSUME NEW x, NEW y
    PROVE  <<x>> \o <<y>> = <<x, y>>
  <1> DEFINE S == {x, y}
             t == <<y>>
             r == <<x, y>>
  <1>1. x \in S /\ t \in Seq(S) /\ r \in Seq(S) /\ Len(t) = 1
        /\ Len(r) = 2 /\ r[1] = x
    OBVIOUS
  <1>2. \A i \in 1..1 : r[i + 1] = t[i]
    OBVIOUS
  <1> HIDE DEF S, t, r
  <1>3. Len(r) = Len(t) + 1 /\ \A i \in 1..Len(t) : r[i + 1] = t[i]
    BY <1>1, <1>2
  <1>4. <<x>> \o t = r
    BY <1>1, <1>3, ConcatOne
  <1> QED
    BY <1>4 DEF t, r

LEMMA Cons2 ==
    ASSUME NEW x, NEW y, NEW z
    PROVE  <<x>> \o <<y, z>> = <<x, y, z>>
  <1> DEFINE S == {x, y, z}
             t == <<y, z>>
             r == <<x, y, z>>
  <1>1. x \in S /\ t \in Seq(S) /\ r \in Seq(S) /\ Len(t) = 2
        /\ Len(r) = 3 /\ r[1] = x
    OBVIOUS
  <1>2. \A i \in 1..2 : r[i + 1] = t[i]
    OBVIOUS
  <1> HIDE DEF S, t, r
  <1>3. Len(r) = Len(t) + 1 /\ \A i \in 1..Len(t) : r[i + 1] = t[i]
    BY <1>1, <1>2
  <1>4. <<x>> \o t = r
    BY <1>1, <1>3, ConcatOne
  <1> QED
    BY <1>4 DEF t, r

LEMMA Cons3 ==
    ASSUME NEW x, NEW y, NEW z, NEW u
    PROVE  <<x>> \o <<y, z, u>> = <<x, y, z, u>>
  <1> DEFINE S == {x, y, z, u}
             t == <<y, z, u>>
             r == <<x, y, z, u>>
  <1>1. x \in S /\ t \in Seq(S) /\ r \in Seq(S) /\ Len(t) = 3
        /\ Len(r) = 4 /\ r[1] = x
    OBVIOUS
  <1>2. \A i \in 1..3 : r[i + 1] = t[i]
    OBVIOUS
  <1> HIDE DEF S, t, r
  <1>3. Len(r) = Len(t) + 1 /\ \A i \in 1..Len(t) : r[i + 1] = t[i]
    BY <1>1, <1>2
  <1>4. <<x>> \o t = r
    BY <1>1, <1>3, ConcatOne
  <1> QED
    BY <1>4 DEF t, r

LEMMA Triple ==
    ASSUME NEW x, NEW y, NEW z
    PROVE  <<x, y>> \o <<z>> = <<x, y, z>>
  <1> DEFINE S == {x, y, z}
             s == <<x, y>> \o <<z>>
  <1>1. <<x, y>> \in Seq(S) /\ <<z>> \in Seq(S) /\ Len(<<x, y>>) = 2 /\ Len(<<z>>) = 1
    OBVIOUS
  <1>2. <<x, y, z>> \in Seq(S) /\ Len(<<x, y, z>>) = 3
    OBVIOUS
  <1> HIDE DEF S
  <1>3. /\ s \in Seq(S) /\ Len(s) = 3
        /\ \A i \in 1..3 : s[i] = IF i <= 2 THEN <<x, y>>[i] ELSE <<z>>[i - 2]
    BY <1>1, ConcatProperties
  <1>4. ASSUME NEW i \in 1..3 PROVE s[i] = <<x, y, z>>[i]
    BY <1>3
  <1> HIDE DEF s
  <1>5. s = <<x, y, z>>
    BY Zenon, <1>2, <1>3, <1>4, SeqEqual
  <1> QED
    BY <1>5 DEF s

\* Words that are one plain datum each.
LEMMA ReadsPlains ==
    ASSUME NEW c, NEW a \in Words, NEW t \in Seq(Plain), NEW w \in Seq(Word),
           Len(t) = Len(w),
           \A k \in 1..Len(t) : w[k].item = t[k] /\ w[k].val \in Int
    PROVE  Reads(c, a, t, w) /\ t \in Lists /\ w \in Words
  <1> DEFINE n == Len(t)
             s == [k \in 1..n |-> <<t[k]>>]
             u == [k \in 1..n |-> <<w[k]>>]
  <1>1. n \in Nat /\ t \in [1..n -> Plain] /\ w \in [1..n -> Word]
    BY LenProperties
  <1>2. Plain \subseteq Items
    BY DEF Plain
  <1>3. t \in Lists /\ w \in Words
    BY Zenon, <1>2, SeqMonotonic DEF Lists, Words
  <1>4. FlattenSeq(s) = t /\ s \in Seq(Lists)
    BY <1>3, Singles DEF Lists
  <1>5. FlattenSeq(u) = w /\ u \in Seq(Words)
    BY Zenon, <1>3, Singles DEF Words
  <1>6. Len(s) = n /\ Len(u) = n
    BY <1>1
  <1>7. ASSUME NEW k \in 1..n, NEW b \in Words PROVE Reads(c, b, s[k], u[k])
    <2>1. w[k] = W(t[k], w[k].val) /\ t[k] \in Plain /\ w[k].val \in Int
      BY Zenon, <1>1 DEF W, Word
    <2>2. s[k] = <<t[k]>> /\ u[k] = <<w[k]>>
      OBVIOUS
    <2> HIDE DEF s, u
    <2> QED
      BY <2>1, <2>2, ReadsPlain
  <1> HIDE DEF s, u
  <1>8. Reads(c, a, FlattenSeq(s), FlattenSeq(u))
    BY <1>4, <1>5, <1>6, <1>7, ReadsFlat
  <1> QED
    BY Zenon, <1>3, <1>4, <1>5, <1>8

-----------------------------------------------------------------------------
(* The first datum of a name.                                              *)

FirstAt(a, item, p) ==
    p \in 1..Len(a) /\ a[p].item = item /\ \A q \in 1..(p - 1) : a[q].item # item
HasNo(a, item) == \A q \in 1..Len(a) : a[q].item # item

LEMMA ValAt ==
    ASSUME NEW a \in Words, NEW item, NEW p, FirstAt(a, item, p)
    PROVE  Place(a, item) = p /\ Val(a, item) = a[p].val
  <1> DEFINE Is(q) == /\ a[q].item = item
                      /\ \A r \in DOMAIN a : a[r].item = item => q <= r
  <1>1. DOMAIN a = 1..Len(a) /\ Len(a) \in Nat
    BY Zenon, LenProperties DEF Words
  <1>2. p \in DOMAIN a /\ Is(p)
    BY <1>1 DEF FirstAt
  <1>3. ASSUME NEW q \in DOMAIN a, Is(q) PROVE q = p
    <2>1. q <= p
      BY <1>2, <1>3
    <2>2. p <= q
      BY <1>2, <1>3
    <2> QED
      BY <1>1, <1>2, <2>1, <2>2
  <1>4. Place(a, item) = CHOOSE q \in DOMAIN a : Is(q)
    BY DEF Place
  <1> HIDE DEF Is
  <1>5. Place(a, item) = p
    BY <1>2, <1>3, <1>4
  <1> QED
    BY <1>1, <1>5 DEF Val, FirstAt

LEMMA FirstExists ==
    ASSUME NEW a \in Words, NEW item
    PROVE  HasNo(a, item) \/ \E p \in 1..Len(a) : FirstAt(a, item, p)
  <1> DEFINE T == {p \in 1..Len(a) : a[p].item = item}
  <1>1. Len(a) \in Nat
    BY LenProperties DEF Words
  <1>2. CASE T = {}
    BY <1>2 DEF HasNo
  <1>3. CASE T # {}
    <2>1. T \subseteq Nat
      OBVIOUS
    <2>2. PICK p \in T : \A q \in T : p <= q
      <3> HIDE DEF T
      <3> QED
        BY <1>3, <2>1, Least
    <2>3. p \in 1..Len(a) /\ a[p].item = item
      OBVIOUS
    <2>4. ASSUME NEW q \in 1..(p - 1) PROVE a[q].item # item
      BY <1>1, <2>2, <2>3
    <2> QED
      BY <2>3, <2>4 DEF FirstAt
  <1> QED
    BY <1>2, <1>3

\* Of two parts.
LEMMA FirstJoin ==
    ASSUME NEW a \in Words, NEW b \in Words, NEW item
    PROVE  /\ \A p : FirstAt(a, item, p) =>
                       FirstAt(a \o b, item, p) /\ (a \o b)[p] = a[p]
           /\ \A p : HasNo(a, item) /\ FirstAt(b, item, p) =>
                       FirstAt(a \o b, item, Len(a) + p) /\ (a \o b)[Len(a) + p] = b[p]
           /\ HasNo(a, item) /\ HasNo(b, item) => HasNo(a \o b, item)
  <1> DEFINE x == a \o b
  <1>1. Len(a) \in Nat /\ Len(b) \in Nat
    BY LenProperties DEF Words
  <1>2. x \in Words /\ Len(x) = Len(a) + Len(b)
        /\ \A q \in 1..(Len(a) + Len(b)) : x[q] = IF q <= Len(a) THEN a[q] ELSE b[q - Len(a)]
    BY <1>1, ConcatProperties DEF Words
  <1> HIDE DEF x
  <1>3. ASSUME NEW p, FirstAt(a, item, p) PROVE FirstAt(x, item, p) /\ x[p] = a[p]
    <2>1. p \in 1..Len(x) /\ x[p] = a[p]
      BY <1>1, <1>2, <1>3 DEF FirstAt
    <2>2. ASSUME NEW q \in 1..(p - 1) PROVE x[q] = a[q]
      BY <1>1, <1>2, <1>3 DEF FirstAt
    <2> QED
      BY <1>3, <2>1, <2>2 DEF FirstAt
  <1>4. ASSUME NEW p, HasNo(a, item), FirstAt(b, item, p)
        PROVE  FirstAt(x, item, Len(a) + p) /\ x[Len(a) + p] = b[p]
    <2>1. p \in 1..Len(b)
      BY Zenon, <1>4 DEF FirstAt
    <2>2. Len(a) + p \in 1..Len(x) /\ ~ (Len(a) + p <= Len(a)) /\ (Len(a) + p) - Len(a) = p
      BY <1>1, <1>2, <2>1
    <2>3. x[Len(a) + p] = b[p]
      BY <1>2, <2>2
    <2>4. ASSUME NEW q \in 1..(Len(a) + p - 1) PROVE x[q].item # item
      <3>1. CASE q <= Len(a)
        <4>1. q \in 1..Len(a) /\ x[q] = a[q]
          BY <1>1, <1>2, <2>1, <3>1
        <4> QED
          BY <1>4, <4>1 DEF HasNo
      <3>2. CASE ~ (q <= Len(a))
        <4>1. q - Len(a) \in 1..(p - 1) /\ x[q] = b[q - Len(a)]
          BY <1>1, <1>2, <2>1, <3>2
        <4> QED
          BY Zenon, <1>4, <4>1 DEF FirstAt
      <3> QED
        BY Zenon, <3>1, <3>2
    <2>5. x[Len(a) + p].item = item
      BY <1>4, <2>3 DEF FirstAt
    <2> QED
      BY <2>2, <2>3, <2>4, <2>5 DEF FirstAt
  <1>5. ASSUME HasNo(a, item), HasNo(b, item) PROVE HasNo(x, item)
    <2> SUFFICES ASSUME NEW q \in 1..Len(x) PROVE x[q].item # item
      BY DEF HasNo
    <2>1. q \in 1..Len(a) \/ (q - Len(a) \in 1..Len(b) /\ ~ (q <= Len(a)))
      BY <1>1, <1>2
    <2> QED
      BY <1>1, <1>2, <1>5, <2>1 DEF HasNo
  <1> QED
    BY <1>3, <1>4, <1>5 DEF x

LEMMA ValJoin ==
    ASSUME NEW a \in Words, NEW b \in Words, NEW item
    PROVE  /\ ~ HasNo(a, item) => Val(a \o b, item) = Val(a, item)
           /\ HasNo(a, item) => Val(a \o b, item) = Val(b, item)
  <1>0. a \o b \in Words
    BY WordsJoin
  <1>1. ASSUME ~ HasNo(a, item) PROVE Val(a \o b, item) = Val(a, item)
    <2>1. PICK p : FirstAt(a, item, p)
      BY <1>1, FirstExists
    <2>2. FirstAt(a \o b, item, p) /\ (a \o b)[p] = a[p]
      <3>1. \A r : FirstAt(a, item, r) => FirstAt(a \o b, item, r) /\ (a \o b)[r] = a[r]
        BY FirstJoin
      <3> QED
        BY <2>1, <3>1
    <2>3. Val(a, item) = a[p].val
      BY <2>1, ValAt
    <2>4. Val(a \o b, item) = (a \o b)[p].val
      BY <1>0, <2>2, ValAt
    <2> QED
      BY <2>2, <2>3, <2>4
  <1>2. ASSUME HasNo(a, item), HasNo(b, item) PROVE Val(a \o b, item) = Val(b, item)
    <2>1. HasNo(a \o b, item)
      BY <1>2, FirstJoin
    <2>2. ASSUME NEW w \in Words, HasNo(w, item) PROVE Val(w, item) = 0
      <3>1. DOMAIN w = 1..Len(w)
        BY LenProperties DEF Words
      <3> QED
        BY <2>2, <3>1 DEF HasNo, Val
    <2>3. Val(a \o b, item) = 0
      BY <1>0, <2>1, <2>2
    <2>4. Val(b, item) = 0
      BY <1>2, <2>2
    <2> QED
      BY <2>3, <2>4
  <1>3. ASSUME HasNo(a, item), ~ HasNo(b, item) PROVE Val(a \o b, item) = Val(b, item)
    <2>1. PICK p : FirstAt(b, item, p)
      BY <1>3, FirstExists
    <2>2. FirstAt(a \o b, item, Len(a) + p) /\ (a \o b)[Len(a) + p] = b[p]
      <3>1. \A r : HasNo(a, item) /\ FirstAt(b, item, r) =>
                     FirstAt(a \o b, item, Len(a) + r) /\ (a \o b)[Len(a) + r] = b[r]
        BY FirstJoin
      <3> QED
        BY <1>3, <2>1, <3>1
    <2>3. Val(b, item) = b[p].val
      BY <2>1, ValAt
    <2>4. Val(a \o b, item) = (a \o b)[Len(a) + p].val
      BY <1>0, <2>2, ValAt
    <2> QED
      BY <2>2, <2>3, <2>4
  <1> QED
    BY Zenon, <1>1, <1>2, <1>3

\* Of one word.
LEMMA ValOne ==
    ASSUME NEW w \in Word, NEW item
    PROVE  /\ w.item # item => HasNo(<<w>>, item)
           /\ w.item = item => ~ HasNo(<<w>>, item) /\ Val(<<w>>, item) = w.val
                               /\ FirstAt(<<w>>, item, 1)
  <1> DEFINE a == <<w>>
  <1>1. a \in Words /\ Len(a) = 1 /\ a[1] = w
    BY One
  <1> HIDE DEF a
  <1>2. w.item # item => HasNo(a, item)
    BY <1>1 DEF HasNo
  <1>3. ASSUME w.item = item PROVE ~ HasNo(a, item) /\ Val(a, item) = w.val /\ FirstAt(a, item, 1)
    <2>1. FirstAt(a, item, 1)
      BY <1>1, <1>3 DEF FirstAt
    <2>2. ~ HasNo(a, item)
      BY <1>1, <1>3 DEF HasNo
    <2> QED
      BY <1>1, <2>1, <2>2, ValAt
  <1> QED
    BY <1>2, <1>3 DEF a

-----------------------------------------------------------------------------
(* The arguments of a call, as the server reads them.                      *)

\* What the client keeps of vertex arrays.
AttribsOK ==
    /\ attribs \in [0..(NumAttribs - 1) ->
                      [enabled : BOOLEAN, index : Nat, ptr : {0, 1}, buffer : Nat]]
    /\ buffers \subseteq Nat

LEMMA ArgumentsTyped ==
    ASSUME NEW c \in AppCalls
    PROVE  \A item \in Ordinary : Typed(c, item)
  <1>1. WellFormed(c)
    BY Zenon, EglGlesAssumption
  <1>2. \A item \in DOMAIN c \cap VarSize : c[item] \in Seq(Int)
    BY <1>1 DEF WellFormed
  <1>3. \A item \in DOMAIN c \ (VarSize \cup {"cmd", "configs", "data", "lengths", "strings"}) :
           c[item] \in Int
    BY <1>1 DEF WellFormed
  <1>4. \A item \in Ordinary \ VarSize : item \notin {"cmd", "configs", "data", "lengths", "strings"}
                                        /\ item \notin Arrays
    BY DEF Ordinary, Plain, Items, Arrays
  <1>5. ASSUME NEW item \in Ordinary \ VarSize PROVE Typed(c, item)
    BY <1>3, <1>4 DEF Typed
  <1>6. ASSUME NEW item \in VarSize PROVE Typed(c, item)
    BY <1>2 DEF Typed
  <1> QED
    BY <1>5, <1>6

\* What the client passes has the same types, and differs in configSize only.
LEMMA PassedTyped ==
    ASSUME NEW c \in AppCalls
    PROVE  /\ \A item \in Ordinary : Typed(Passed(c), item)
           /\ Passed(c).cmd = c.cmd /\ DOMAIN Passed(c) = DOMAIN c
           /\ \A x \in DOMAIN c \ {"configSize"} : Passed(c)[x] = c[x]
  <1>1. CASE Passed(c) = c
    BY Zenon, <1>1, ArgumentsTyped
  <1>2. CASE Passed(c) = [c EXCEPT !.configSize = 0]
    <2>1. /\ DOMAIN Passed(c) = DOMAIN c
          /\ \A x \in DOMAIN c \ {"configSize"} : Passed(c)[x] = c[x]
      BY <1>2
    <2>2. "configSize" \in DOMAIN c => Passed(c).configSize = 0
      BY <1>2
    <2>3. "configSize" \notin VarSize /\ 0 \in Int
      BY DEF VarSize
    <2>4. ASSUME NEW item \in Ordinary PROVE Typed(Passed(c), item)
      <3>1. Typed(c, item)
        BY ArgumentsTyped
      <3>2. CASE item = "configSize"
        <4>1. item \in DOMAIN Passed(c) => Passed(c)[item] = 0
          BY <2>1, <2>2, <3>2
        <4>2. item \notin VarSize \cup Arrays
          BY <3>2 DEF VarSize, Arrays
        <4> HIDE DEF Passed
        <4> QED
          BY <4>1, <4>2 DEF Typed
      <3>3. CASE item # "configSize"
        <4>1. item \in DOMAIN Passed(c) <=> item \in DOMAIN c
          BY <2>1
        <4>2. item \in DOMAIN c => Passed(c)[item] = c[item]
          BY <2>1, <3>3
        <4> HIDE DEF Passed
        <4> QED
          BY Zenon, <3>1, <4>1, <4>2 DEF Typed
      <3> QED
        BY Zenon, <3>2, <3>3
    <2>5. Passed(c).cmd = c.cmd
      BY <1>2
    <2> QED
      BY <2>1, <2>4, <2>5
  <1> QED
    BY Zenon, <1>1, <1>2 DEF Passed

LEMMA NumEnabled ==
    numEnabled \in Nat /\ numEnabled <= NumAttribs
  <1>1. 0..(NumAttribs - 1) \in SUBSET Int /\ NumAttribs \in Nat \ {0}
    BY EglGlesAssumption
  <1>2. IsFiniteSet(0..(NumAttribs - 1)) /\ Cardinality(0..(NumAttribs - 1)) = NumAttribs
    BY <1>1, FS_Interval
  <1>3. Enabled \subseteq 0..(NumAttribs - 1)
    BY DEF Enabled
  <1>4. IsFiniteSet(Enabled) /\ Cardinality(Enabled) <= Cardinality(0..(NumAttribs - 1))
    BY <1>2, <1>3, FS_Subset
  <1> QED
    BY <1>2, <1>4, FS_CardinalityType DEF numEnabled

\* Sequences of naturals have a largest element.
LEMMA Largest ==
    ASSUME NEW s \in Seq(Nat), s # <<>>
    PROVE  \E m \in ToSet(s) : \A i \in ToSet(s) : i <= m
  <1> DEFINE n == Len(s)
             T == {k \in 0..(n - 1) : \E m \in 1..(k + 1) : \A i \in 1..(k + 1) : s[i] <= s[m]}
  <1>1. n \in Nat \ {0} /\ s \in [1..n -> Nat] /\ DOMAIN s = 1..n
    BY LenProperties, EmptySeq
  <1>2. 0 \in T
    <2>1. 1 \in 1..(0 + 1) /\ \A i \in 1..(0 + 1) : s[i] <= s[1]
      BY <1>1
    <2> QED
      BY <1>1, <2>1
  <1>3. ASSUME NEW k \in 0..((n - 1) - 1), k \in T PROVE k + 1 \in T
    <2>1. PICK m \in 1..(k + 1) : \A i \in 1..(k + 1) : s[i] <= s[m]
      BY Zenon, <1>3
    <2>2. k \in Nat /\ k + 2 \in 1..n /\ m \in 1..n /\ s[m] \in Nat /\ s[k + 2] \in Nat
      BY <1>1
    <2>3. \E l \in 1..(k + 2) : \A i \in 1..(k + 2) : s[i] <= s[l]
      <3>1. CASE s[k + 2] <= s[m]
        <4>1. \A i \in 1..(k + 2) : i = k + 2 \/ i \in 1..(k + 1)
          BY <2>2
        <4>2. m \in 1..(k + 2)
          BY <2>2
        <4> QED
          BY <2>1, <3>1, <4>1, <4>2
      <3>2. CASE s[m] <= s[k + 2]
        <4>1. ASSUME NEW i \in 1..(k + 2) PROVE s[i] <= s[k + 2]
          <5>1. i \in 1..n /\ s[i] \in Nat
            BY <1>1, <2>2
          <5>2. CASE i = k + 2
            BY <2>2, <5>2
          <5>3. CASE i \in 1..(k + 1)
            <6>1. s[i] <= s[m]
              BY Zenon, <2>1, <5>3
            <6>2. s[m] \in Nat /\ s[k + 2] \in Nat
              BY <1>1, <2>1, <2>2
            <6> QED
              BY <3>2, <5>1, <6>1, <6>2
          <5> QED
            BY <2>2, <5>2, <5>3
        <4>2. k + 2 \in 1..(k + 2)
          BY <2>2
        <4> QED
          BY <4>1, <4>2
      <3>3. \A x, y \in Nat : x <= y \/ y <= x
        OBVIOUS
      <3> QED
        BY <2>2, <3>1, <3>2, <3>3
    <2>4. (k + 1) + 1 = k + 2 /\ k + 1 \in 0..(n - 1)
      BY <1>1
    <2> QED
      BY Zenon, <2>3, <2>4
  <1>4. 0..(n - 1) \subseteq T
    <2> DEFINE N == n - 1
    <2>1. N \in Nat /\ \A k \in 0..(N - 1) : k \in T => k + 1 \in T
      BY <1>1, <1>3
    <2> HIDE DEF T, N
    <2>2. 0..N \subseteq T
      BY <1>2, <2>1, BoundedInduction
    <2> QED
      BY <2>2 DEF N
  <1>5. n - 1 \in T /\ (n - 1) + 1 = n
    <2>1. n - 1 \in 0..(n - 1) /\ (n - 1) + 1 = n
      BY <1>1
    <2> HIDE DEF T
    <2> QED
      BY <1>4, <2>1
  <1>6. PICK m \in 1..n : \A i \in 1..n : s[i] <= s[m]
    BY <1>5
  <1>7. ToSet(s) = {s[i] : i \in 1..n}
    BY <1>1 DEF ToSet
  <1> HIDE DEF n
  <1> QED
    BY Zenon, <1>6, <1>7

LEMMA NumVerticesType ==
    ASSUME NEW s \in Seq(Nat)
    PROVE  /\ NumVertices(s) \in Nat
           /\ \A k \in 1..Len(s) : s[k] < NumVertices(s)
  <1>0. Len(s) \in Nat /\ DOMAIN s = 1..Len(s) /\ \A k \in 1..Len(s) : s[k] \in Nat
    BY LenProperties
  <1>1. CASE s = <<>>
    BY <1>1 DEF NumVertices
  <1>2. CASE s # <<>>
    <2> DEFINE m == CHOOSE m \in ToSet(s) : \A i \in ToSet(s) : i <= m
    <2>1. m \in ToSet(s) /\ \A i \in ToSet(s) : i <= m
      BY <1>2, Largest
    <2>2. NumVertices(s) = 1 + m
      BY <1>2 DEF NumVertices
    <2> HIDE DEF m
    <2>3. ToSet(s) = {s[k] : k \in 1..Len(s)}
      BY Zenon, <1>0 DEF ToSet
    <2>4. m \in Nat /\ \A k \in 1..Len(s) : s[k] <= m
      BY <1>0, <2>1, <2>3
    <2> QED
      BY <1>0, <2>2, <2>4
  <1> QED
    BY Zenon, <1>1, <1>2

\* What sendVertexAttribArrays sends before the attributes, of attribute i, and
\* of its array.
HeadWords(count) ==
    <<W("numAttribs", numEnabled), W("numVertices", count),
      W("anyBufferBound", gvIsAnyBufferBound)>>
AttribWords(i) ==
    <<W("index", attribs[i - 1].index), W("size", 0), W("type", 0),
      W("normalized", 0), W("stride", 0), W("ptr", attribs[i - 1].ptr)>>
ArrayWords(first, count) ==
    IF buffers # {} THEN <<>> ELSE [k \in 1..count |-> W("vertex", first + k - 1)]
BlockWords(first, count) ==
    [i \in 1..numEnabled |-> AttribWords(i) \o ArrayWords(first, count)]

\* How the server lists an attribute and its array.
BlockList(count) ==
    VertexAttrib \o (IF gvIsAnyBufferBound = 1 THEN <<>> ELSE Block(count, "vertex"))

LEMMA HeadWordsRead ==
    ASSUME NEW count \in Nat
    PROVE  /\ HeadWords(count) \in Words
           /\ \A c : \A a \in Words :
                Reads(c, a, <<"numAttribs", "numVertices">>,
                      <<W("numAttribs", numEnabled), W("numVertices", count)>>)
  <1>1. numEnabled \in Nat
    BY NumEnabled
  <1>2. gvIsAnyBufferBound \in {0, 1}
    BY DEF gvIsAnyBufferBound
  <1>3. {W("numAttribs", numEnabled), W("numVertices", count),
         W("anyBufferBound", gvIsAnyBufferBound)} \subseteq Word
    BY <1>1, <1>2 DEF W, Word, Items
  <1>4. HeadWords(count) \in Words
    BY <1>3 DEF HeadWords, Words
  <1> DEFINE t == <<"numAttribs", "numVertices">>
             w == <<W("numAttribs", numEnabled), W("numVertices", count)>>
  <1>5. t \in Seq(Plain) /\ Len(t) = 2 /\ t[1] = "numAttribs" /\ t[2] = "numVertices"
    BY DEF Plain, Items, VarSize
  <1>6. w \in Seq(Word) /\ Len(w) = 2 /\ w[1].item = "numAttribs" /\ w[2].item = "numVertices"
        /\ w[1].val \in Int /\ w[2].val \in Int
    BY <1>1, <1>3 DEF W
  <1> HIDE DEF t, w
  <1>7. \A k \in 1..Len(t) : w[k].item = t[k] /\ w[k].val \in Int
    BY <1>5, <1>6
  <1>8. ASSUME NEW c, NEW a \in Words PROVE Reads(c, a, t, w)
    BY Zenon, <1>5, <1>6, <1>7, ReadsPlains
  <1> QED
    BY <1>4, <1>8 DEF t, w

LEMMA AttribWordsRead ==
    ASSUME AttribsOK, NEW i \in 1..numEnabled
    PROVE  /\ AttribWords(i) \in Words /\ Len(AttribWords(i)) = 6 /\ VertexAttrib \in Lists
           /\ \A c : \A a \in Words : Reads(c, a, VertexAttrib, AttribWords(i))
  <1>1. i - 1 \in 0..(NumAttribs - 1)
    BY NumEnabled, EglGlesAssumption
  <1>2. attribs[i - 1].index \in Int /\ attribs[i - 1].ptr \in Int
    BY <1>1 DEF AttribsOK
  <1>3. {W("index", attribs[i - 1].index), W("size", 0), W("type", 0),
         W("normalized", 0), W("stride", 0), W("ptr", attribs[i - 1].ptr)} \subseteq Word
    BY <1>2 DEF W, Word, Items
  <1> DEFINE t == VertexAttrib
             w == AttribWords(i)
  <1>4. w \in Seq(Word) /\ Len(w) = 6
    BY <1>3 DEF AttribWords
  <1>5. t \in Seq(Plain) /\ Len(t) = 6
    BY DEF VertexAttrib, Plain, Items, VarSize
  <1>6. \A k \in 1..6 : w[k].item = t[k] /\ w[k].val \in Int
    <2>1. w[1].item = t[1] /\ w[1].val \in Int
      BY <1>2 DEF AttribWords, VertexAttrib, W
    <2>2. w[2].item = t[2] /\ w[2].val \in Int
      BY DEF AttribWords, VertexAttrib, W
    <2>3. w[3].item = t[3] /\ w[3].val \in Int
      BY DEF AttribWords, VertexAttrib, W
    <2>4. w[4].item = t[4] /\ w[4].val \in Int
      BY DEF AttribWords, VertexAttrib, W
    <2>5. w[5].item = t[5] /\ w[5].val \in Int
      BY DEF AttribWords, VertexAttrib, W
    <2>6. w[6].item = t[6] /\ w[6].val \in Int
      BY <1>2 DEF AttribWords, VertexAttrib, W
    <2> HIDE DEF t, w
    <2>7. \A k \in 1..6 : k = 1 \/ k = 2 \/ k = 3 \/ k = 4 \/ k = 5 \/ k = 6
      OBVIOUS
    <2> QED
      BY Zenon, <2>1, <2>2, <2>3, <2>4, <2>5, <2>6, <2>7
  <1> HIDE DEF t, w
  <1>7. ASSUME NEW c, NEW a \in Words PROVE Reads(c, a, t, w) /\ t \in Lists /\ w \in Words
    BY <1>4, <1>5, <1>6, ReadsPlains
  <1>8. t \in Lists /\ w \in Words
    BY <1>7, Empty
  <1> QED
    BY Zenon, <1>4, <1>7, <1>8 DEF t, w

\* An array, as words of the values of its elements.
LEMMA ArrayWordsRead ==
    ASSUME NEW first \in Nat, NEW count \in Nat, NEW c, NEW a \in Words
    PROVE  LET list == IF gvIsAnyBufferBound = 1 THEN <<>> ELSE Block(count, "vertex")
           IN  /\ list \in Lists /\ ArrayWords(first, count) \in Words
               /\ Reads(c, a, list, ArrayWords(first, count))
               /\ Len(ArrayWords(first, count)) = IF buffers # {} THEN 0 ELSE count
  <1>1. CASE buffers # {}
    BY <1>1, Empty, ReadsEmpty DEF gvIsAnyBufferBound, ArrayWords
  <1>2. CASE buffers = {}
    <2> DEFINE v == [k \in 1..count |-> first + k - 1]
    <2>1. v \in Seq(Int) /\ Len(v) = count
      <3>1. \A k \in 1..count : first + k - 1 \in Int
        OBVIOUS
      <3> QED
        BY <3>1
    <2>2. ArrayWords(first, count) = Run("vertex", v)
      BY Zenon, <1>2, <2>1 DEF ArrayWords, Run
    <2>3. "vertex" \in Plain /\ "vertex" \in Items
      BY DEF Plain, Items, VarSize
    <2> HIDE DEF v
    <2> QED
      BY <1>2, <2>1, <2>2, <2>3, ReadsBlock, RunType DEF gvIsAnyBufferBound
  <1> QED
    BY <1>1, <1>2

LEMMA BlockWordsRead ==
    ASSUME AttribsOK, NEW first \in Nat, NEW count \in Nat
    PROVE  /\ BlockWords(first, count) \in Seq(Words)
           /\ \A c : \A a \in Words :
                /\ Reads(c, a, Repeat(numEnabled, BlockList(count)),
                         FlattenSeq(BlockWords(first, count)))
                /\ Repeat(numEnabled, BlockList(count)) \in Lists
                /\ FlattenSeq(BlockWords(first, count)) \in Words
  <1> DEFINE n == numEnabled
             s == [k \in 1..n |-> BlockList(count)]
             w == BlockWords(first, count)
  <1>1. n \in Nat
    BY Zenon, NumEnabled
  <1>2. ASSUME NEW k \in 1..n, NEW c, NEW b \in Words
        PROVE  /\ BlockList(count) \in Lists
               /\ AttribWords(k) \o ArrayWords(first, count) \in Words
               /\ Reads(c, b, BlockList(count), AttribWords(k) \o ArrayWords(first, count))
    <2>1. AttribWords(k) \in Words /\ VertexAttrib \in Lists
          /\ Reads(c, b, VertexAttrib, AttribWords(k))
      BY Zenon, AttribWordsRead
    <2>2. b \o AttribWords(k) \in Words
      BY <2>1, WordsJoin
    <2> DEFINE list == IF gvIsAnyBufferBound = 1 THEN <<>> ELSE Block(count, "vertex")
    <2>3. /\ list \in Lists /\ ArrayWords(first, count) \in Words
          /\ Reads(c, b \o AttribWords(k), list, ArrayWords(first, count))
      BY <2>2, ArrayWordsRead
    <2>4. BlockList(count) = VertexAttrib \o list
      BY DEF BlockList
    <2> HIDE DEF list
    <2> QED
      BY <2>1, <2>3, <2>4, WordsJoin, ListsJoin, ReadsJoin
  <1>3. \A k \in 1..n : BlockList(count) \in Lists
                       /\ AttribWords(k) \o ArrayWords(first, count) \in Words
    BY <1>2, Empty
  <1>4. s \in Seq(Lists) /\ Len(s) = n
    <2>1. s \in [1..n -> Lists]
      BY Zenon, <1>3
    <2> QED
      BY <1>1, <2>1
  <1>5. w \in Seq(Words) /\ Len(w) = n
    <2>1. w \in [1..n -> Words]
      BY <1>3 DEF BlockWords
    <2> QED
      BY <1>1, <2>1
  <1>6. ASSUME NEW c, NEW k \in 1..n, NEW b \in Words PROVE Reads(c, b, s[k], w[k])
    <2>1. s[k] = BlockList(count) /\ w[k] = AttribWords(k) \o ArrayWords(first, count)
      BY DEF BlockWords
    <2> QED
      BY <1>2, <2>1
  <1>7. Repeat(n, BlockList(count)) = FlattenSeq(s)
    BY DEF Repeat
  <1> HIDE DEF s, w, n
  <1>8. ASSUME NEW c, NEW a \in Words
        PROVE  /\ Reads(c, a, FlattenSeq(s), FlattenSeq(w))
               /\ FlattenSeq(s) \in Lists /\ FlattenSeq(w) \in Words
    BY Zenon, <1>4, <1>5, <1>6, ReadsFlat
  <1> QED
    BY <1>5, <1>7, <1>8 DEF w, n

\* The datum h of x.
Datum(x, h) == IF h \in DOMAIN x THEN x[h] ELSE 0

LEMMA EncodeNo ==
    ASSUME NEW x, NEW g \in Ordinary, Typed(x, g), NEW h, h # g, h # "varSize", h # "element"
    PROVE  HasNo(Encode(x, g), h)
  <1>1. CASE g \in VarSize
    <2>1. PICK v \in Seq(Int) : Encode(x, g) = <<W("varSize", Len(v))>> \o Run("element", v)
      BY <1>1, EncodeVarSize
    <2>2. Len(v) \in Nat /\ W("varSize", Len(v)) \in Word /\ "element" \in Items
      BY LenProperties DEF W, Word, Items
    <2>3. Run("element", v) \in Words /\ Len(Run("element", v)) = Len(v)
      BY <2>2, RunType
    <2>4. HasNo(Run("element", v), h)
      BY <2>3 DEF HasNo, Run, W
    <2>5. HasNo(<<W("varSize", Len(v))>>, h)
      BY Zenon, <2>2, ValOne DEF W
    <2>6. <<W("varSize", Len(v))>> \in Words
      BY <2>2, One
    <2> QED
      BY Zenon, <2>1, <2>3, <2>4, <2>5, <2>6, FirstJoin
  <1>2. CASE g \notin VarSize
    <2>1. g \in Items \ (VarSize \cup Arrays)
      BY Zenon, <1>2 DEF Ordinary, Plain
    <2>2. PICK v \in Int : Encode(x, g) = <<W(g, v)>>
      BY <2>1, EncodeDatum
    <2>3. W(g, v) \in Word
      BY <2>1 DEF W, Word
    <2> QED
      BY <2>2, <2>3, ValOne DEF W
  <1> QED
    BY <1>1, <1>2

LEMMA EncodeVal ==
    ASSUME NEW x, NEW h \in Plain \ Arrays, Typed(x, h)
    PROVE  /\ Encode(x, h) = <<W(h, Datum(x, h))>> /\ Datum(x, h) \in Int
           /\ W(h, Datum(x, h)) \in Word
           /\ ~ HasNo(Encode(x, h), h) /\ Val(Encode(x, h), h) = Datum(x, h)
  <1>1. h \in Items \ (VarSize \cup Arrays)
    BY DEF Plain
  <1>2. Encode(x, h) = <<W(h, Datum(x, h))>> /\ Datum(x, h) \in Int
    BY <1>1, EncodeDatum DEF Datum
  <1>3. W(h, Datum(x, h)) \in Word /\ W(h, Datum(x, h)).item = h
        /\ W(h, Datum(x, h)).val = Datum(x, h)
    BY Zenon, <1>1, <1>2 DEF W, Word
  <1> QED
    BY Zenon, <1>2, <1>3, ValOne

\* The datum h of a message whose list has it.
LEMMA MessageVal ==
    ASSUME NEW x, NEW t \in Seq(Ordinary), \A k \in 1..Len(t) : Typed(x, t[k]),
           NEW h, h # "varSize", h # "element",
           (\E k \in 1..Len(t) : t[k] = h) => h \in Plain \ Arrays
    PROVE  IF \E k \in 1..Len(t) : t[k] = h
           THEN ~ HasNo(Message(x, t), h) /\ Val(Message(x, t), h) = Datum(x, h)
           ELSE HasNo(Message(x, t), h)
  <1> DEFINE n == Len(t)
             w == [k \in 1..n |-> Encode(x, t[k])]
  <1>1. n \in Nat /\ t \in [1..n -> Ordinary] /\ DOMAIN t = 1..n
    BY LenProperties
  <1>2. \A k \in 1..n : Encode(x, t[k]) \in Words
    BY <1>1, Empty, ReadsDatum
  <1>3. w \in Seq(Words) /\ Len(w) = n /\ \A k \in 1..n : w[k] = Encode(x, t[k])
    <2>1. w \in [1..n -> Words]
      BY <1>2
    <2> QED
      BY <1>1, <2>1
  <1>4. Message(x, t) = FlattenSeq(w)
    BY <1>1 DEF Message
  <1> HIDE DEF w
  <1>5. PICK f \in [0..n -> Words] : PartialJoins(f, w) /\ f[n] = FlattenSeq(w)
    BY Zenon, <1>3, Flatten DEF Words
  <1> DEFINE Has(i) == IF \E k \in 1..i : t[k] = h
                       THEN ~ HasNo(f[i], h) /\ Val(f[i], h) = Datum(x, h)
                       ELSE HasNo(f[i], h)
             T == {i \in 0..n : Has(i)}
  <1>6. 0 \in T
    <2>1. f[0] = <<>>
      BY Zenon, <1>5 DEF PartialJoins
    <2>2. HasNo(f[0], h)
      BY <2>1 DEF HasNo
    <2> QED
      BY <1>1, <2>2
  <1>7. ASSUME NEW i \in 0..(n - 1), i \in T PROVE i + 1 \in T
    <2>1. i + 1 \in 1..n /\ i + 1 \in 0..n /\ i \in 0..n /\ i \in Nat
      BY <1>1
    <2>2. f[i + 1] = f[i] \o Encode(x, t[i + 1])
      BY <1>3, <1>5, <2>1 DEF PartialJoins
    <2>3. f[i] \in Words /\ Encode(x, t[i + 1]) \in Words /\ f[i + 1] \in Words
          /\ t[i + 1] \in Ordinary /\ Typed(x, t[i + 1])
      BY <1>1, <1>2, <1>5, <2>1
    <2>4. Has(i)
      BY <1>7
    <2>5. CASE \E k \in 1..i : t[k] = h
      <3>1. \E k \in 1..(i + 1) : t[k] = h
        BY <2>1, <2>5
      <3>2. ~ HasNo(f[i], h) /\ Val(f[i], h) = Datum(x, h)
        BY Zenon, <2>4, <2>5
      <3>3. Val(f[i + 1], h) = Datum(x, h)
        BY <2>2, <2>3, <3>2, ValJoin
      <3>4. ~ HasNo(f[i + 1], h)
        <4>1. PICK p : FirstAt(f[i], h, p)
          BY <2>3, <3>2, FirstExists
        <4>2. \A r : FirstAt(f[i], h, r) => FirstAt(f[i] \o Encode(x, t[i + 1]), h, r)
          BY Zenon, <2>3, FirstJoin
        <4>3. FirstAt(f[i + 1], h, p)
          BY <2>2, <4>1, <4>2
        <4> QED
          BY Zenon, <4>3 DEF FirstAt, HasNo
      <3> QED
        BY <2>1, <3>1, <3>3, <3>4
    <2>6. CASE ~ (\E k \in 1..i : t[k] = h) /\ t[i + 1] = h
      <3>1. \E k \in 1..(i + 1) : t[k] = h
        BY <2>1, <2>6
      <3>2. HasNo(f[i], h)
        BY Zenon, <2>4, <2>6
      <3>3. ~ HasNo(Encode(x, h), h) /\ Val(Encode(x, h), h) = Datum(x, h)
        <4>1. h \in Plain \ Arrays
          BY Zenon, <2>1, <2>6
        <4> QED
          BY Zenon, <2>3, <2>6, <4>1, EncodeVal
      <3>4. Val(f[i + 1], h) = Datum(x, h)
        BY <2>2, <2>3, <2>6, <3>2, <3>3, ValJoin
      <3>5. ~ HasNo(f[i + 1], h)
        <4>1. PICK p : FirstAt(Encode(x, h), h, p)
          BY <2>3, <2>6, <3>3, FirstExists
        <4>2. \A r : HasNo(f[i], h) /\ FirstAt(Encode(x, h), h, r) =>
                       FirstAt(f[i + 1], h, Len(f[i]) + r)
          BY <2>2, <2>3, <2>6, FirstJoin
        <4>3. FirstAt(f[i + 1], h, Len(f[i]) + p)
          BY Zenon, <3>2, <4>1, <4>2
        <4> QED
          BY Zenon, <4>3 DEF FirstAt, HasNo
      <3> QED
        BY <2>1, <3>1, <3>4, <3>5
    <2>7. CASE ~ (\E k \in 1..i : t[k] = h) /\ t[i + 1] # h
      <3>1. ~ \E k \in 1..(i + 1) : t[k] = h
        BY <2>1, <2>7
      <3>2. HasNo(f[i], h)
        BY Zenon, <2>4, <2>7
      <3>3. HasNo(Encode(x, t[i + 1]), h)
        BY <2>3, <2>7, EncodeNo
      <3>4. HasNo(f[i + 1], h)
        BY <2>2, <2>3, <3>2, <3>3, FirstJoin
      <3> QED
        BY Zenon, <2>1, <3>1, <3>4
    <2> QED
      BY Zenon, <2>5, <2>6, <2>7
  <1>8. 0..n \subseteq T
    <2> HIDE DEF T, n
    <2> QED
      BY Zenon, <1>1, <1>6, <1>7, BoundedInduction
  <1>9. Has(n)
    BY <1>1, <1>8
  <1> QED
    BY <1>4, <1>5, <1>9

-----------------------------------------------------------------------------
(* Lists of the client that a proof looks at.                              *)

\* The lists of calls whose arguments tell how the answer is read, and of
\* glBindBuffer.
SentListed(cmd, k) ==
    /\ cmd \notin {"none", "answering"}
    /\ cmd = "eglGetConfigs" => k.send = <<"display", "configSize">>
    /\ cmd = "eglChooseConfig" => k.send = <<"display", "attribList", "configSize">>
    /\ cmd = "glGetShaderInfoLog" => k.send = <<"shader", "bufsize">>
    /\ cmd = "glGetProgramInfoLog" => k.send = <<"program", "bufsize">>
    /\ cmd \in Names => k.send = <<"n">>
    /\ cmd = "glBindBuffer" => k.send = <<"target", "buffer">>

Listed(f) == \A cmd \in DOMAIN f : SentListed(cmd, f[cmd])

LEMMA ListedMerged ==
    ASSUME NEW f, NEW g, Listed(f), Listed(g)
    PROVE  Listed(f ++ g)
  <1> SUFFICES ASSUME NEW cmd \in DOMAIN (f ++ g) PROVE SentListed(cmd, (f ++ g)[cmd])
    BY Zenon DEF Listed
  <1>1. CASE cmd \in DOMAIN f
    BY Zenon, <1>1, MergeFirst DEF Listed
  <1>2. CASE cmd \in DOMAIN g \ DOMAIN f
    <2>1. (f ++ g)[cmd] = g[cmd]
      BY Zenon, <1>2, MergeSecond
    <2> QED
      BY Zenon, <1>2, <2>1 DEF Listed
  <1> QED
    BY Zenon, <1>1, <1>2, MergeDomain

LEMMA CallsListed == Listed(Calls)
  <1>1. Listed(DisplayCalls)
    BY Zenon DEF Listed, SentListed, Names, DisplayCalls, Call, Post
  <1>2. Listed(ConfigCalls)
    BY DEF Listed, SentListed, Names, ConfigCalls, Call, Post
  <1>3. Listed(SurfaceCalls)
    BY Zenon DEF Listed, SentListed, Names, SurfaceCalls, Call, Post
  <1>4. Listed(ContextCalls)
    BY Zenon DEF Listed, SentListed, Names, ContextCalls, Call, Post
  <1>5. Listed(ShaderCalls)
    BY DEF Listed, SentListed, Names, ShaderCalls, Call, Post
  <1>6. Listed(ProgramCalls)
    BY DEF Listed, SentListed, Names, ProgramCalls, Call, Post
  <1>7. Listed(StateCalls)
    BY Zenon DEF Listed, SentListed, Names, StateCalls, Call, Post
  <1>8. Listed(DrawCalls)
    BY DEF Listed, SentListed, Names, DrawCalls, Call, Post
  <1>9. Listed(TextureCalls)
    BY DEF Listed, SentListed, Names, TextureCalls, Call, Post
  <1>10. Listed(UniformCalls)
    BY DEF Listed, SentListed, Names, UniformCalls, Call, Post
  <1>11. Listed(BufferCalls)
    BY DEF Listed, SentListed, Names, BufferCalls, Call, Post
  <1> QED
    BY Zenon, <1>1, <1>2, <1>3, <1>4, <1>5, <1>6, <1>7, <1>8, <1>9, <1>10, <1>11, ListedMerged
       DEF Calls

\* A message of data that may be anywhere, then vertex arrays.
LEMMA VertexAttribWordsRead ==
    ASSUME AttribsOK, NEW first \in Nat, NEW count \in Nat, NEW b \in Words,
           HasNo(b, "numAttribs"), HasNo(b, "numVertices")
    PROVE  /\ VertexAttribWords(first, count) \in Words
           /\ Reads(NoCall, b, <<"numAttribs", "numVertices", "anyBufferBound">>,
                    VertexAttribWords(first, count))
  <1> DEFINE w1 == W("numAttribs", numEnabled)
             w2 == W("numVertices", count)
             w3 == W("anyBufferBound", gvIsAnyBufferBound)
             F == FlattenSeq(BlockWords(first, count))
             h == "anyBufferBound"
  <1>1. numEnabled \in Nat /\ gvIsAnyBufferBound \in {0, 1}
    BY NumEnabled DEF gvIsAnyBufferBound
  <1>2. w1 \in Word /\ w2 \in Word /\ w3 \in Word /\ h \in Items
    BY <1>1 DEF W, Word, Items
  <1>3. w1.item = "numAttribs" /\ w2.item = "numVertices" /\ w3.item = h
        /\ w1.val = numEnabled /\ w2.val = count /\ w3.val = gvIsAnyBufferBound
    BY DEF W
  <1>4. VertexAttribWords(first, count) = <<w1, w2, w3>> \o F
    BY Zenon DEF VertexAttribWords, BlockWords, AttribWords, ArrayWords
  <1> DEFINE two == <<w1, w2>>
  <1>5. two \in Words /\ two = <<w1>> \o <<w2>> /\ <<w1>> \in Words /\ <<w2>> \in Words
        /\ <<w3>> \in Words /\ <<w1, w2, w3>> = two \o <<w3>>
    BY <1>2 DEF Words
  <1>6. \A c : \A a \in Words : Reads(c, a, <<"numAttribs", "numVertices">>, two)
    BY HeadWordsRead
  <1>7. \A c : \A a \in Words :
          /\ Reads(c, a, Repeat(numEnabled, BlockList(count)), F)
          /\ Repeat(numEnabled, BlockList(count)) \in Lists
          /\ F \in Words
    BY BlockWordsRead
  <1>8. <<"numAttribs", "numVertices">> \in Lists /\ <<h>> \in Lists
        /\ <<"numAttribs", "numVertices">> \o <<h>> = <<"numAttribs", "numVertices", h>>
    <2>1. "numAttribs" \in Items /\ "numVertices" \in Items
      BY DEF Items
    <2> HIDE DEF h
    <2>2. <<"numAttribs", "numVertices">> \in Lists
      BY <2>1 DEF Lists
    <2>3. <<h>> \in Lists
      BY <1>2, One
    <2> QED
      BY <2>2, <2>3, Triple
  <1> HIDE DEF w1, w2, w3, F, h
  <1> DEFINE a == b \o two
  <1>9. a \in Words /\ a = b \o (<<w1>> \o <<w2>>)
    BY <1>5, WordsJoin
  <1>10. Val(a, "numAttribs") = numEnabled /\ Val(a, "numVertices") = count
    <2>1. ~ HasNo(<<w1>>, "numAttribs") /\ Val(<<w1>>, "numAttribs") = numEnabled
          /\ HasNo(<<w1>>, "numVertices") /\ Val(<<w2>>, "numVertices") = count
      BY <1>2, <1>3, ValOne
    <2>2. Val(<<w1>> \o <<w2>>, "numAttribs") = numEnabled
          /\ Val(<<w1>> \o <<w2>>, "numVertices") = count
      BY <1>5, <2>1, ValJoin
    <2>3. <<w1>> \o <<w2>> \in Words
      BY Zenon, <1>5, WordsJoin
    <2> HIDE DEF a
    <2> QED
      BY <1>9, <2>2, <2>3, ValJoin
  <1>11. More(NoCall, h, w3.val, a) = Repeat(numEnabled, BlockList(count))
    <2>1. h \notin VarSize /\ h # "passingType" /\ h # "dataSize" /\ h = "anyBufferBound"
      BY Zenon DEF VarSize, h
    <2>2. NoCall.cmd = "none"
      BY Zenon DEF NoCall
    <2> HIDE DEF a
    <2> QED
      BY <1>3, <1>10, <2>1, <2>2 DEF More, ServerReadsMore, BlockList
  <1>12. a \o <<w3>> \in Words
    BY <1>2, <1>5, <1>9, WordsJoin
  <1>13. h # "nothing" /\ h # "callId" /\ w3.item = Expected(h)
    BY Zenon, <1>3 DEF Expected, VarSize, h
  <1> DEFINE m == Repeat(numEnabled, BlockList(count))
  <1>14. Reads(NoCall, a \o <<w3>>, m, F) /\ m \in Lists /\ F \in Words
    BY Zenon, <1>7, <1>12
  <1> HIDE DEF a, m, two
  <1>15. Reads(NoCall, a, <<h>>, <<w3>> \o F)
    BY <1>2, <1>9, <1>11, <1>13, <1>14, ReadsWord DEF m
  <1>16. Reads(NoCall, b, <<"numAttribs", "numVertices">> \o <<h>>, two \o (<<w3>> \o F))
    <2>1. Reads(NoCall, b, <<"numAttribs", "numVertices">>, two)
      BY <1>6
    <2>2. <<w3>> \o F \in Words
      BY <1>5, <1>14, WordsJoin
    <2> QED
      BY <1>5, <1>8, <1>15, <2>1, <2>2, ReadsJoin DEF a
  <1>17. two \o (<<w3>> \o F) = VertexAttribWords(first, count)
         /\ VertexAttribWords(first, count) \in Words
    <2>1. (two \o <<w3>>) \o F = two \o (<<w3>> \o F)
      BY <1>5, <1>14, WordsJoin
    <2>2. <<w3>> \o F \in Words
      BY <1>5, <1>14, WordsJoin
    <2>3. two \o (<<w3>> \o F) \in Words
      BY <1>5, <2>2, WordsJoin
    <2> QED
      BY <1>4, <1>5, <2>1, <2>3
  <1> QED
    BY <1>8, <1>16, <1>17 DEF h

\* The arrays of client_egl_gles.c's two draws.
LEMMA DrawRead ==
    ASSUME AttribsOK, NEW x, NEW t \in Seq(Ordinary), \A k \in 1..Len(t) : Typed(x, t[k]),
           \A k \in 1..Len(t) : t[k] \notin {"numAttribs", "numVertices"},
           NEW first \in Nat, NEW count \in Nat
    PROVE  LET list == t \o <<"numAttribs", "numVertices", "anyBufferBound">>
               w    == Message(x, t) \o VertexAttribWords(first, count)
           IN  list \in Lists /\ w \in Words /\ Parses(NoCall, w, list, <<>>)
  <1> DEFINE b == Message(x, t)
             u == <<"numAttribs", "numVertices", "anyBufferBound">>
             v == VertexAttribWords(first, count)
  <1>1. b \in Words /\ t \in Lists /\ <<>> \in Words /\ Reads(NoCall, <<>>, t, b)
    BY Empty, ReadsMessage
  <1>2. HasNo(b, "numAttribs") /\ HasNo(b, "numVertices")
    <2>1. "numAttribs" \in Plain \ Arrays /\ "numVertices" \in Plain \ Arrays
      BY DEF Plain, Items, VarSize, Arrays
    <2> QED
      BY <2>1, MessageVal
  <1>3. v \in Words /\ Reads(NoCall, b, u, v)
    BY <1>1, <1>2, VertexAttribWordsRead
  <1>4. u \in Lists
    BY DEF Lists, Items
  <1> HIDE DEF b, u, v
  <1>5. <<>> \o b = b
    BY Zenon, <1>1, Empty
  <1>6. Reads(NoCall, <<>>, t \o u, b \o v)
    BY <1>1, <1>3, <1>4, <1>5, ReadsJoin
  <1>7. t \o u \in Lists /\ b \o v \in Words
    BY <1>1, <1>3, <1>4, WordsJoin, ListsJoin
  <1>8. Parses(NoCall, b \o v, t \o u, <<>>)
    BY <1>1, <1>6, <1>7, ReadsAll
  <1> QED
    BY Zenon, <1>7, <1>8 DEF b, u, v

\* The strings of a glShaderSource, and their lengths, if it has them.
LEMMA ShaderSourceRead ==
    ASSUME NEW c \in AppCalls, c.cmd = "glShaderSource", NEW source,
           \A i \in DOMAIN c.strings : source[i] \in Seq(Int),
           NEW b \in Words, ~ HasNo(b, "count"), Val(b, "count") = c.count
    PROVE  /\ ShaderSourceWords(c, source) \in Words
           /\ Reads(NoCall, b, <<"passingType">>, ShaderSourceWords(c, source))
  <1>1. /\ {"strings", "count", "lengths"} \subseteq DOMAIN c
        /\ c.strings \in Seq(Seq(Int)) /\ c.count = Len(c.strings)
        /\ c.lengths = <<>> \/ c.lengths \in [1..c.count -> Int]
    <2>1. WellFormed(c)
      BY EglGlesAssumption
    <2> QED
      BY <2>1 DEF WellFormed
  <1> DEFINE n == Len(c.strings)
             size(i) == IF c.lengths = <<>> \/ c.lengths[i] < 0
                        THEN Len(c.strings[i]) + 1 ELSE c.lengths[i] + 1
             chars(i) == [k \in 1..size(i) |-> IF k <= Len(source[i]) THEN source[i][k] ELSE 0]
             strings == [i \in 1..n |-> Encode([string |-> chars(i)], "string")]
             s == [i \in 1..n |-> <<"string">>]
             lens == IF c.lengths = <<>> THEN <<>> ELSE Encode([length |-> c.lengths], "length")
             lenList == IF c.lengths = <<>> THEN <<>> ELSE <<"length">>
             w == W("passingType", IF c.lengths = <<>> THEN 0 ELSE 1)
  <1>2. n \in Nat /\ DOMAIN c.strings = 1..n /\ \A i \in 1..n : c.strings[i] \in Seq(Int)
    BY <1>1, LenProperties
  <1>3. ASSUME NEW i \in 1..n PROVE chars(i) \in Seq(Int)
    <2>1. Len(c.strings[i]) \in Nat
      BY <1>2, LenProperties
    <2>3. size(i) \in Nat
      <3>1. CASE c.lengths = <<>> \/ c.lengths[i] < 0
        BY <2>1, <3>1
      <3>2. CASE ~ (c.lengths = <<>> \/ c.lengths[i] < 0)
        BY <1>1, <1>2, <3>2
      <3> QED
        BY <3>1, <3>2
    <2> HIDE DEF size
    <2>4. source[i] \in Seq(Int)
      BY <1>2
    <2>5. \A k \in 1..size(i) : (IF k <= Len(source[i]) THEN source[i][k] ELSE 0) \in Int
      BY <2>3, <2>4, LenProperties
    <2>6. chars(i) \in [1..size(i) -> Int]
      BY Zenon, <2>5
    <2> QED
      BY <2>3, <2>6
  <1>4. ASSUME NEW i \in 1..n
        PROVE  /\ Encode([string |-> chars(i)], "string") \in Words
               /\ \A a \in Words : Reads(NoCall, a, <<"string">>,
                                         Encode([string |-> chars(i)], "string"))
    <2> DEFINE x == [string |-> chars(i)]
    <2>1. "string" \in Ordinary
      BY DEF Ordinary, VarSize
    <2>2. Typed(x, "string")
      BY Zenon, <1>3 DEF Typed, VarSize
    <2> HIDE DEF x
    <2>3. ASSUME NEW a \in Words
          PROVE  Reads(NoCall, a, <<"string">>, Encode(x, "string")) /\ Encode(x, "string") \in Words
      BY <2>1, <2>2, ReadsDatum
    <2>4. Encode(x, "string") \in Words
      BY <2>3, Empty
    <2> QED
      BY <2>3, <2>4 DEF x
  <1> HIDE DEF chars
  <1>5. strings \in Seq(Words) /\ Len(strings) = n
        /\ \A i \in 1..n : strings[i] = Encode([string |-> chars(i)], "string")
    <2>1. strings \in [1..n -> Words]
      BY <1>4
    <2> QED
      BY <1>2, <2>1
  <1>6. s \in Seq(Lists) /\ Len(s) = n /\ \A i \in 1..n : s[i] = <<"string">>
    <2>1. "string" \in Items
      BY DEF Items
    <2>2. s \in [1..n -> Lists]
      BY <2>1, One
    <2>3. \A g \in [1..n -> Lists] : g \in Seq(Lists) /\ Len(g) = n
      <3>1. n \in Nat
        BY Zenon, <1>2
      <3> HIDE DEF n, s
      <3> QED
        BY <3>1
    <2>4. \A i \in 1..n : s[i] = <<"string">>
      BY Zenon
    <2> QED
      BY Zenon, <2>2, <2>3, <2>4
  <1>7. FlattenSeq(s) = Copies(n, "string") /\ Copies(n, "string") \in Lists
    <2> DEFINE u == Copies(n, "string")
    <2>1. "string" \in Items
      BY DEF Items
    <2>2. u \in [1..n -> Items]
      BY <2>1 DEF Copies
    <2>3. u \in Seq(Items) /\ Len(u) = n /\ \A k \in 1..n : u[k] = "string"
      BY <1>2, <2>2 DEF Copies
    <2> HIDE DEF u
    <2>4. [k \in 1..n |-> <<u[k]>>] = s
      BY <2>3
    <2>5. FlattenSeq([k \in 1..Len(u) |-> <<u[k]>>]) = u
      BY Zenon, <2>3, Singles
    <2> QED
      BY <2>3, <2>4, <2>5 DEF u, Lists
  <1> HIDE DEF strings, s
  <1>8. ASSUME NEW a \in Words
        PROVE  Reads(NoCall, a, Copies(n, "string"), FlattenSeq(strings))
               /\ FlattenSeq(strings) \in Words
    <2>1. \A k \in 1..Len(s) : \A e \in Words : Reads(NoCall, e, s[k], strings[k])
      BY <1>4, <1>5, <1>6
    <2> QED
      BY <1>5, <1>6, <1>7, <2>1, ReadsFlat
  <1>9. FlattenSeq(strings) \in Words
    BY <1>8, Empty
  <1>10. ASSUME NEW a \in Words
         PROVE  Reads(NoCall, a, lenList, lens) /\ lens \in Words /\ lenList \in Lists
    <2>1. CASE c.lengths = <<>>
      BY <2>1, Empty, ReadsEmpty
    <2>2. CASE c.lengths # <<>>
      <3> DEFINE x == [length |-> c.lengths]
      <3>1. "length" \in Ordinary /\ "length" \in Items
        BY DEF Ordinary, VarSize, Items
      <3>2. c.lengths \in Seq(Int)
        <4>1. c.lengths \in [1..n -> Int]
          BY Zenon, <1>1, <2>2
        <4> HIDE DEF n
        <4> QED
          BY <1>2, <4>1
      <3>3. Typed(x, "length")
        BY Zenon, <3>2 DEF Typed, VarSize
      <3> HIDE DEF x
      <3>4. Reads(NoCall, a, <<"length">>, Encode(x, "length")) /\ Encode(x, "length") \in Words
        BY <3>1, <3>3, ReadsDatum
      <3> QED
        BY Zenon, <2>2, <3>1, <3>4, One DEF x
    <2> QED
      BY <2>1, <2>2
  <1>11. lens \in Words /\ lenList \in Lists
    BY Zenon, <1>10, Empty
  <1>12. w \in Word /\ w.item = "passingType"
         /\ w.val = (IF c.lengths = <<>> THEN 0 ELSE 1)
    BY DEF W, Word, Items
  <1>13. ShaderSourceWords(c, source) = <<w>> \o lens \o FlattenSeq(strings)
    BY <1>2 DEF ShaderSourceWords, strings, chars
  <1>14. (IF w.val = 1 THEN <<"length">> ELSE <<>>) = lenList
    BY <1>12
  <1> HIDE DEF w, lens, lenList
  <1>15. b \o <<w>> \in Words /\ <<w>> \in Words
    BY Zenon, <1>12, One, WordsJoin
  <1>16. Val(b \o <<w>>, "count") = n /\ Val(b, "count") = n
    BY <1>1, <1>15, ValJoin
  <1>17. More(NoCall, "passingType", w.val, b) = lenList \o Copies(n, "string")
    <2>1. "passingType" \notin VarSize /\ NoCall.cmd = "none"
      BY DEF VarSize, NoCall
    <2> QED
      BY <1>14, <1>16, <2>1 DEF More, ServerReadsMore
  <1> DEFINE v == lens \o FlattenSeq(strings)
             m == lenList \o Copies(n, "string")
  <1>18. (b \o <<w>>) \o lens \in Words
    BY <1>11, <1>15, WordsJoin
  <1>19. Reads(NoCall, b \o <<w>>, m, v) /\ m \in Lists /\ v \in Words
    <2>1. Reads(NoCall, b \o <<w>>, lenList, lens)
      BY Zenon, <1>10, <1>15
    <2>2. Reads(NoCall, (b \o <<w>>) \o lens, Copies(n, "string"), FlattenSeq(strings))
      BY Zenon, <1>8, <1>18
    <2> HIDE DEF n
    <2> QED
      BY Zenon, <1>7, <1>9, <1>11, <1>15, <2>1, <2>2, ReadsJoin, WordsJoin, ListsJoin
  <1>20. "passingType" \in Items /\ Expected("passingType") = "passingType"
    BY DEF Items, Expected, VarSize
  <1> HIDE DEF v, m
  <1>21. Reads(NoCall, b, <<"passingType">>, <<w>> \o v)
    BY <1>12, <1>17, <1>19, <1>20, ReadsWord DEF m
  <1>22. <<w>> \o v = ShaderSourceWords(c, source) /\ <<w>> \o v \in Words
    BY SMTT(30), <1>9, <1>11, <1>13, <1>15, <1>19, WordsJoin DEF v
  <1> QED
    BY <1>21, <1>22

\* The words w after a command's call id are what its handler reads.
Understood(cmd, w) ==
    /\ w \in Words
    /\ \E list \in Lists : /\ eglGlesJumpTable[cmd].receive = <<"callId">> \o list
                           /\ Parses(NoCall, w, list, <<>>)

LEMMA RegularRead ==
    ASSUME NEW c \in AppCalls, c.cmd \in DOMAIN Calls,
           c.cmd \notin Draws \cup {"glShaderSource", "glBufferData"}
    PROVE  Understood(c.cmd, Arguments(c))
  <1> DEFINE t == Calls[c.cmd].send
  <1>1. t \in Seq(Ordinary) /\ eglGlesJumpTable[c.cmd].receive = <<"callId">> \o t
    BY TablesAgree DEF Agree, SentAsRead
  <1>2. Arguments(c) = Message(Passed(c), t) \o <<>>
    BY DEF Arguments, Draws
  <1> HIDE DEF t
  <1>3. \A k \in 1..Len(t) : Typed(Passed(c), t[k])
    BY Zenon, <1>1, PassedTyped, LenProperties
  <1>4. Message(Passed(c), t) \in Words /\ t \in Lists /\ Reads(NoCall, <<>>, t, Message(Passed(c), t))
    BY <1>1, <1>3, Empty, ReadsMessage
  <1>5. Arguments(c) = Message(Passed(c), t)
    BY Zenon, <1>2, <1>4, Empty
  <1>6. Parses(NoCall, Message(Passed(c), t), t, <<>>)
    BY Zenon, <1>4, Empty, ReadsAll
  <1> QED
    BY Zenon, <1>1, <1>4, <1>5, <1>6 DEF Understood

LEMMA SourceRead ==
    ASSUME NEW c \in AppCalls, c.cmd = "glShaderSource", c.cmd \in DOMAIN Calls
    PROVE  Understood(c.cmd, Arguments(c))
  <1> DEFINE t == <<"shader", "count">>
             source == [i \in DOMAIN c.strings |-> c.strings[1]]
             b == Message(c, t)
             v == ShaderSourceWords(c, source)
  <1>1. Calls[c.cmd].send = t
        /\ eglGlesJumpTable[c.cmd].receive = <<"callId", "shader", "count", "passingType">>
    BY TablesAgree DEF Agree, SentAsRead
  <1>2. Arguments(c) = b \o v
    BY <1>1 DEF Arguments, Passed
  <1>3. t \in Seq(Ordinary) /\ Len(t) = 2 /\ t[2] = "count"
    BY DEF Ordinary, Plain, Items, VarSize, Arrays
  <1>4. {"strings", "count"} \subseteq DOMAIN c /\ c.strings \in Seq(Seq(Int))
    <2>1. WellFormed(c)
      BY Zenon, EglGlesAssumption
    <2> QED
      BY <2>1 DEF WellFormed
  <1>5. \A i \in DOMAIN c.strings : source[i] \in Seq(Int)
    <2>1. ASSUME NEW i \in DOMAIN c.strings PROVE c.strings[1] \in Seq(Int)
      BY <1>4, LenProperties
    <2> QED
      BY Zenon, <2>1
  <1>6. \A k \in 1..Len(t) : Typed(c, t[k])
    BY Zenon, <1>3, ArgumentsTyped, LenProperties
  <1> HIDE DEF t, source
  <1>7. b \in Words /\ t \in Lists /\ <<>> \in Words /\ Reads(NoCall, <<>>, t, b)
    BY Zenon, <1>3, <1>6, Empty, ReadsMessage
  <1>8. ~ HasNo(b, "count") /\ Val(b, "count") = c.count
    <2>1. "count" \in Plain \ Arrays
      BY DEF Plain, Items, VarSize, Arrays
    <2>2. 2 \in 1..Len(t)
      BY <1>3
    <2> QED
      BY Zenon, <1>3, <1>4, <1>6, <2>1, <2>2, MessageVal DEF Datum
  <1> HIDE DEF b
  <1>9. v \in Words /\ Reads(NoCall, b, <<"passingType">>, v)
    BY <1>5, <1>7, <1>8, ShaderSourceRead
  <1> HIDE DEF v
  <1>10. <<"passingType">> \in Lists
    BY One DEF Items
  <1>11. <<>> \o b = b
    BY <1>7, Empty
  <1> DEFINE list == t \o <<"passingType">>
  <1>12. Reads(NoCall, <<>>, list, b \o v)
    BY <1>7, <1>9, <1>10, <1>11, ReadsJoin
  <1>13. list \in Lists /\ b \o v \in Words
    BY <1>7, <1>9, <1>10, WordsJoin, ListsJoin
  <1>14. <<"callId">> \o list = <<"callId", "shader", "count", "passingType">>
    <2>1. list = <<"shader", "count", "passingType">>
      BY Triple DEF t
    <2>2. <<"callId">> \o <<"shader", "count", "passingType">>
            = <<"callId", "shader", "count", "passingType">>
      BY Cons3
    <2> QED
      BY <2>1, <2>2
  <1> HIDE DEF list
  <1>15. Parses(NoCall, b \o v, list, <<>>)
    BY <1>7, <1>12, <1>13, ReadsAll
  <1> QED
    BY <1>1, <1>2, <1>13, <1>14, <1>15 DEF Understood

LEMMA DataRead ==
    ASSUME NEW c \in AppCalls, c.cmd = "glBufferData", c.cmd \in DOMAIN Calls
    PROVE  Understood(c.cmd, Arguments(c))
  <1> DEFINE S == Ordinary \cup {"data"}
             e(h) == Encode(c, h)
  <1>1. Calls[c.cmd].send = <<"target", "dataSize", "data", "usage">>
        /\ eglGlesJumpTable[c.cmd].receive = <<"callId", "target", "dataSize", "usage">>
    BY TablesAgree DEF Agree, SentAsRead
  <1>2. {"dataSize", "data"} \subseteq DOMAIN c /\ c.data \in Seq(Int) /\ c.dataSize = Len(c.data)
    <2>1. WellFormed(c)
      BY EglGlesAssumption
    <2> QED
      BY <2>1 DEF WellFormed
  <1>3. {"target", "usage"} \subseteq Ordinary /\ "data" \in Plain /\ "dataSize" \in Items
        /\ {"target", "usage"} \subseteq Plain \ Arrays /\ "data" \in Items
    BY DEF Ordinary, Plain, Items, VarSize, Arrays
  <1>4. Typed(c, "target") /\ Typed(c, "usage")
    BY Zenon, <1>3, ArgumentsTyped
  <1>5. e("data") = Run("data", c.data) /\ e("data") \in Words
    <2>1. "data" \in Arrays \ VarSize
      BY Zenon DEF Arrays, VarSize
    <2> QED
      BY <1>2, <1>3, <2>1, EncodeArray, RunType
  <1> DEFINE w == W("dataSize", Len(c.data))
  <1>6. e("dataSize") = <<w>> /\ w \in Word /\ w.val = Len(c.data) /\ w.item = "dataSize"
    <2>1. Len(c.data) \in Nat /\ "dataSize" \notin VarSize /\ "dataSize" \notin Arrays
      BY Zenon, <1>2, LenProperties DEF VarSize, Arrays
    <2> QED
      BY <1>2, <1>3, <2>1 DEF Encode, W, Word
  <1>7. e("target") \in Words /\ e("usage") \in Words
        /\ \A a \in Words : Reads(NoCall, a, <<"target">>, e("target"))
                            /\ Reads(NoCall, a, <<"usage">>, e("usage"))
    <2>1. ASSUME NEW a \in Words
          PROVE  e("target") \in Words /\ e("usage") \in Words
                 /\ Reads(NoCall, a, <<"target">>, e("target"))
                 /\ Reads(NoCall, a, <<"usage">>, e("usage"))
      BY Zenon, <1>3, <1>4, ReadsDatum
    <2> QED
      BY Zenon, <2>1, Empty
  <1> HIDE DEF w
  <1>8. <<w>> \in Words
    BY Zenon, <1>6, One
  <1> HIDE DEF e
  <1>9. Message(c, <<"target", "dataSize", "data", "usage">>)
          = e("target") \o (<<w>> \o (e("data") \o e("usage")))
    <2> DEFINE T == {"target", "dataSize", "data", "usage"}
    <2>1. \A h \in T : Encode(c, h) \in Words
      BY <1>5, <1>6, <1>7, <1>8 DEF e
    <2>2. ASSUME NEW h \in T, NEW t \in Seq(T)
          PROVE  Message(c, <<h>> \o t) = Encode(c, h) \o Message(c, t)
      <3>1. \A k \in 1..Len(t) : Encode(c, t[k]) \in Words
        BY <2>1, LenProperties
      <3> QED
        BY <2>1, <3>1, MessageFirst
    <2> DEFINE t1 == <<"usage">>
               t2 == <<"data", "usage">>
               t3 == <<"dataSize", "data", "usage">>
               t4 == <<"target", "dataSize", "data", "usage">>
    <2>3. t1 \in Seq(T) /\ t2 \in Seq(T) /\ t3 \in Seq(T) /\ <<>> \in Seq(T)
      OBVIOUS
    <2>4. t1 = <<"usage">> \o <<>> /\ t2 = <<"data">> \o t1 /\ t3 = <<"dataSize">> \o t2
          /\ t4 = <<"target">> \o t3
      OBVIOUS
    <2>5. "usage" \in T /\ "data" \in T /\ "dataSize" \in T /\ "target" \in T
      OBVIOUS
    <2> HIDE DEF t1, t2, t3, t4, T
    <2>6. Message(c, t1) = Encode(c, "usage") \o Message(c, <<>>)
      BY <2>2, <2>3, <2>4, <2>5
    <2>7. Message(c, t1) = e("usage")
      BY <1>7, <2>6, MessageNone, Empty DEF e
    <2>8. Message(c, t2) = e("data") \o Message(c, t1)
      BY <2>2, <2>3, <2>4, <2>5 DEF e
    <2>9. Message(c, t3) = e("dataSize") \o Message(c, t2)
      BY <2>2, <2>3, <2>4, <2>5 DEF e
    <2>10. Message(c, t4) = e("target") \o Message(c, t3)
      BY <2>2, <2>3, <2>4, <2>5 DEF e
    <2> QED
      BY <1>6, <2>7, <2>8, <2>9, <2>10 DEF t4
  <1>10. Arguments(c) = Message(c, <<"target", "dataSize", "data", "usage">>) \o <<>>
    BY <1>1 DEF Arguments, Passed
  <1>11. ASSUME NEW a \in Words
         PROVE  Reads(NoCall, a, <<"dataSize">>, <<w>> \o e("data"))
    <2>1. a \o <<w>> \in Words
      BY <1>8, WordsJoin
    <2>2. "dataSize" # "nothing" /\ "dataSize" # "callId" /\ w.item = Expected("dataSize")
          /\ "dataSize" \notin VarSize
      BY <1>6 DEF Expected, VarSize
    <2>3. More(NoCall, "dataSize", w.val, a) = Block(Len(c.data), "data")
      BY Zenon, <1>6, <2>2 DEF More, ServerReadsMore, NoCall
    <2>4. Reads(NoCall, a \o <<w>>, Block(Len(c.data), "data"), e("data"))
          /\ Block(Len(c.data), "data") \in Lists
      BY Zenon, <1>2, <1>3, <1>5, <2>1, ReadsBlock
    <2> QED
      BY <1>3, <1>5, <1>6, <2>2, <2>3, <2>4, ReadsWord
  <1> DEFINE d == <<w>> \o e("data")
             v1 == d \o e("usage")
             v == e("target") \o v1
  <1>12. d \in Words /\ v1 \in Words /\ v \in Words
         /\ d \o e("usage") = <<w>> \o (e("data") \o e("usage"))
    <2>1. d \in Words /\ d \o e("usage") = <<w>> \o (e("data") \o e("usage"))
      BY <1>5, <1>7, <1>8, WordsJoin
    <2> HIDE DEF d
    <2>2. v1 \in Words
      BY Zenon, <1>7, <2>1, WordsJoin
    <2> HIDE DEF v1
    <2> QED
      BY Zenon, <1>7, <2>1, <2>2, WordsJoin
  <1>13. Arguments(c) = v
    <2>1. Arguments(c) = v \o <<>>
      BY <1>9, <1>10, <1>12
    <2> HIDE DEF v
    <2> QED
      BY Zenon, <1>12, <2>1, Empty
  <1>14. <<"target">> \in Lists /\ <<"dataSize">> \in Lists /\ <<"usage">> \in Lists
         /\ <<"dataSize">> \o <<"usage">> \in Lists
         /\ <<"target">> \o (<<"dataSize">> \o <<"usage">>) \in Lists
    <2>1. "target" \in Items /\ "dataSize" \in Items /\ "usage" \in Items
      BY DEF Items
    <2>2. <<"target">> \in Lists /\ <<"dataSize">> \in Lists /\ <<"usage">> \in Lists
      BY Zenon, <2>1, One
    <2> QED
      BY <2>2, WordsJoin, ListsJoin
  <1> HIDE DEF d
  <1>15. <<>> \in Words /\ <<>> \o e("target") = e("target") /\ e("target") \o d \in Words
    BY <1>7, <1>12, Empty, WordsJoin
  <1>16. Reads(NoCall, e("target"), <<"dataSize">>, d)
    BY Zenon, <1>7, <1>11 DEF d
  <1>17. Reads(NoCall, e("target"), <<"dataSize">> \o <<"usage">>, v1)
    BY Zenon, <1>7, <1>12, <1>14, <1>15, <1>16, ReadsJoin
  <1> HIDE DEF v1
  <1>18. Reads(NoCall, <<>>, <<"target">> \o (<<"dataSize">> \o <<"usage">>), v)
    BY <1>7, <1>12, <1>14, <1>15, <1>17, ReadsJoin
  <1> HIDE DEF v
  <1>19. Parses(NoCall, v, <<"target">> \o (<<"dataSize">> \o <<"usage">>), <<>>)
    BY <1>12, <1>14, <1>15, <1>18, ReadsAll
  <1>20. <<"callId">> \o (<<"target">> \o (<<"dataSize">> \o <<"usage">>))
           = <<"callId", "target", "dataSize", "usage">>
    <2>1. <<"dataSize">> \o <<"usage">> = <<"dataSize", "usage">>
      BY Cons1
    <2>2. <<"target">> \o <<"dataSize", "usage">> = <<"target", "dataSize", "usage">>
      BY Zenon, Cons2
    <2>3. <<"callId">> \o <<"target", "dataSize", "usage">>
            = <<"callId", "target", "dataSize", "usage">>
      BY Cons3
    <2> QED
      BY <2>1, <2>2, <2>3
  <1> QED
    BY <1>1, <1>12, <1>13, <1>14, <1>19, <1>20 DEF Understood

LEMMA DrawsRead ==
    ASSUME AttribsOK, NEW c \in AppCalls, c.cmd \in Draws, c.cmd \in DOMAIN Calls, Agreed(c)
    PROVE  Understood(c.cmd, Arguments(c))
  <1> DEFINE t == Calls[c.cmd].send
             u == <<"numAttribs", "numVertices", "anyBufferBound">>
  <1>1. /\ t = <<"mode", "first", "count">> \/ t = <<"mode", "count", "type", "indices">>
        /\ eglGlesJumpTable[c.cmd].receive = <<"callId">> \o (t \o u)
    BY TablesAgree DEF Agree, SentAsRead, Draws, VertexAttribHeader
  <1>2. \E first, count \in Nat : Arguments(c) = Message(c, t) \o VertexAttribWords(first, count)
    <2>1. WellFormed(c)
      BY EglGlesAssumption
    <2>2. CASE c.cmd = "glDrawArrays"
      <3>1. c.first \in Nat /\ c.count \in Nat
        BY <2>1, <2>2 DEF WellFormed
      <3>2. Arguments(c) = Message(c, t) \o VertexAttribWords(c.first, c.count)
        BY <2>2 DEF Arguments, Passed
      <3> HIDE DEF t
      <3> QED
        BY <3>1, <3>2
    <2>3. CASE c.cmd = "glDrawElements"
      <3>1. c.indices \in Seq(Nat)
        BY Zenon, <2>1, <2>3 DEF WellFormed
      <3>2. NumVertices(c.indices) \in Nat
        BY <3>1, NumVerticesType
      <3>3. Arguments(c) = Message(c, t) \o VertexAttribWords(0, NumVertices(c.indices))
        BY <2>3 DEF Arguments, Agreed, Passed
      <3> HIDE DEF t
      <3> QED
        BY <3>2, <3>3
    <2> QED
      BY <2>2, <2>3 DEF Draws
  <1> HIDE DEF t
  <1>3. t \in Seq(Ordinary) /\ \A k \in 1..Len(t) : t[k] \notin {"numAttribs", "numVertices"}
    <2>1. CASE t = <<"mode", "first", "count">>
      BY <2>1 DEF Ordinary, Plain, Items, VarSize, Arrays
    <2>2. CASE t = <<"mode", "count", "type", "indices">>
      BY <2>2 DEF Ordinary, Plain, Items, VarSize, Arrays
    <2> QED
      BY <1>1, <2>1, <2>2
  <1>4. \A k \in 1..Len(t) : Typed(c, t[k])
    BY Zenon, <1>3, ArgumentsTyped, LenProperties
  <1>5. PICK first \in Nat, count \in Nat :
           Arguments(c) = Message(c, t) \o VertexAttribWords(first, count)
    BY <1>2
  <1>6. /\ t \o u \in Lists /\ Message(c, t) \o VertexAttribWords(first, count) \in Words
        /\ Parses(NoCall, Message(c, t) \o VertexAttribWords(first, count), t \o u, <<>>)
    BY <1>3, <1>4, DrawRead
  <1> QED
    BY <1>1, <1>5, <1>6 DEF Understood

\* A handler reads the arguments of its command for what they were sent as, and
\* reads all of them.
LEMMA ArgumentsRead ==
    ASSUME AttribsOK, NEW c \in AppCalls, c.cmd \in DOMAIN Calls, Agreed(c)
    PROVE  Understood(c.cmd, Arguments(c))
  BY RegularRead, SourceRead, DataRead, DrawsRead

-----------------------------------------------------------------------------
(* Arguments that tell how the answer is read.                             *)

\* The arguments a are what the server has to know of c.
Says(c, a) ==
    /\ c.cmd \in Queries => Val(a, "configSize") = Passed(c).configSize
    /\ c.cmd \in Logs => Val(a, "bufsize") = c.bufsize
    /\ c.cmd \in Names => Val(a, "n") = c.n
    /\ c.cmd = "glBindBuffer" => Val(a, "buffer") = c.buffer

LEMMA ArgumentsSay ==
    ASSUME NEW c \in AppCalls, c.cmd \in DOMAIN Calls
    PROVE  Says(c, Arguments(c))
  <1>1. ASSUME NEW t \in Seq(Ordinary), NEW k \in 1..Len(t),
               c.cmd \notin Draws \cup {"glShaderSource", "glBufferData"},
               Calls[c.cmd].send = t, t[k] \in DOMAIN c, t[k] \in Plain \ Arrays,
               t[k] # "varSize", t[k] # "element"
        PROVE  Val(Arguments(c), t[k]) = Passed(c)[t[k]]
    <2>1. Arguments(c) = Message(Passed(c), t) \o <<>>
      BY <1>1 DEF Arguments, Draws
    <2>2. \A i \in 1..Len(t) : Typed(Passed(c), t[i])
      BY Zenon, PassedTyped, LenProperties
    <2>3. Message(Passed(c), t) \in Words
      BY <2>2, Empty, ReadsMessage
    <2>4. Val(Message(Passed(c), t), t[k]) = Datum(Passed(c), t[k])
      BY <1>1, <2>2, MessageVal
    <2> QED
      BY Zenon, <1>1, <2>1, <2>3, <2>4, Empty, PassedTyped DEF Datum
  <1>2. WellFormed(c)
    BY EglGlesAssumption
  <1>3. SentListed(c.cmd, Calls[c.cmd])
    BY Zenon, CallsListed DEF Listed
  <1>4. ASSUME c.cmd \in Queries PROVE Val(Arguments(c), "configSize") = Passed(c).configSize
    <2>1. "configSize" \in DOMAIN c
      BY Zenon, <1>2, <1>4 DEF WellFormed, Queries
    <2>2. CASE c.cmd = "eglGetConfigs"
      <3> DEFINE t == <<"display", "configSize">>
      <3>1. t \in Seq(Ordinary) /\ 2 \in 1..Len(t) /\ t[2] = "configSize"
            /\ t[2] \in Plain \ Arrays
        BY DEF Ordinary, Plain, Items, VarSize, Arrays
      <3>2. Calls[c.cmd].send = t
        BY Zenon, <1>3, <2>2 DEF SentListed
      <3> HIDE DEF t
      <3> QED
        BY <1>1, <2>1, <2>2, <3>1, <3>2 DEF Draws
    <2>3. CASE c.cmd = "eglChooseConfig"
      <3> DEFINE t == <<"display", "attribList", "configSize">>
      <3>1. t \in Seq(Ordinary) /\ 3 \in 1..Len(t) /\ t[3] = "configSize"
            /\ t[3] \in Plain \ Arrays
        BY DEF Ordinary, Plain, Items, VarSize, Arrays
      <3>2. Calls[c.cmd].send = t
        BY Zenon, <1>3, <2>3 DEF SentListed
      <3> HIDE DEF t
      <3> QED
        BY <1>1, <2>1, <2>3, <3>1, <3>2 DEF Draws
    <2> QED
      BY Zenon, <1>4, <2>2, <2>3 DEF Queries
  <1>5. ASSUME c.cmd \in Logs PROVE Val(Arguments(c), "bufsize") = c.bufsize
    <2>0. Passed(c) = c
      BY <1>5 DEF Passed, Logs
    <2> DEFINE t == Calls[c.cmd].send
    <2>1. "bufsize" \in DOMAIN c
      BY Zenon, <1>2, <1>5 DEF WellFormed, Logs
    <2>2. t = <<"shader", "bufsize">> \/ t = <<"program", "bufsize">>
      BY Zenon, <1>3, <1>5 DEF SentListed, Logs
    <2> HIDE DEF t
    <2>3. t \in Seq(Ordinary) /\ 2 \in 1..Len(t) /\ t[2] = "bufsize" /\ t[2] \in Plain \ Arrays
      <3>1. CASE t = <<"shader", "bufsize">>
        BY <3>1 DEF Ordinary, Plain, Items, VarSize, Arrays
      <3>2. CASE t = <<"program", "bufsize">>
        BY <3>2 DEF Ordinary, Plain, Items, VarSize, Arrays
      <3> QED
        BY <2>2, <3>1, <3>2
    <2> QED
      BY Zenon, <1>1, <1>5, <2>0, <2>1, <2>3 DEF Draws, Logs, t
  <1>6. ASSUME c.cmd \in Names PROVE Val(Arguments(c), "n") = c.n
    <2>0. Passed(c) = c
      BY <1>6 DEF Passed, Names
    <2> DEFINE t == <<"n">>
    <2>1. "n" \in DOMAIN c
      BY Zenon, <1>2, <1>6 DEF WellFormed, Names
    <2>2. Calls[c.cmd].send = t
      BY Zenon, <1>3, <1>6 DEF SentListed
    <2>3. t \in Seq(Ordinary) /\ 1 \in 1..Len(t) /\ t[1] = "n" /\ t[1] \in Plain \ Arrays
      BY DEF Ordinary, Plain, Items, VarSize, Arrays
    <2> HIDE DEF t
    <2> QED
      BY <1>1, <1>6, <2>0, <2>1, <2>2, <2>3 DEF Draws, Names
  <1>7. ASSUME c.cmd = "glBindBuffer" PROVE Val(Arguments(c), "buffer") = c.buffer
    <2>0. Passed(c) = c
      BY <1>7 DEF Passed
    <2> DEFINE t == <<"target", "buffer">>
    <2>1. "buffer" \in DOMAIN c
      BY <1>2, <1>7 DEF WellFormed
    <2>2. Calls[c.cmd].send = t
      BY <1>3, <1>7 DEF SentListed
    <2>3. t \in Seq(Ordinary) /\ 2 \in 1..Len(t) /\ t[2] = "buffer" /\ t[2] \in Plain \ Arrays
      BY DEF Ordinary, Plain, Items, VarSize, Arrays
    <2> HIDE DEF t
    <2> QED
      BY <1>1, <1>7, <2>0, <2>1, <2>2, <2>3 DEF Draws
  <1> QED
    BY <1>4, <1>5, <1>6, <1>7 DEF Says

-----------------------------------------------------------------------------
(* Answers, as the client reads them.                                      *)

\* What a handler answers with results r, and what EGL or GLES answered.
Reply(cmd, a, r) == Message([callId |-> CallId] ++ Locals(cmd, r), AnswerItems(cmd, a, r))
GlReply(cmd, a, r) == Message([callId |-> CallId] ++ r, AnswerItems(cmd, a, r))

\* An answer as a client reads it, from the call id on.
LEMMA ReplyRead ==
    ASSUME NEW c, c.cmd # "none", NEW x, NEW more \in Lists, NEW v \in Words,
           NEW t, NEW rest \in Lists,
           Encode(x, "callId") = <<W("callId", CallId)>>,
           ClientReadsMore(c, "callId", CallId) = more,
           Reads(c, <<W("callId", CallId)>>, more \o rest, v),
           Message(x, t) = <<W("callId", CallId)>> \o v
    PROVE  Message(x, t) \in Words /\ Message(x, t) # <<>>
           /\ Parses(c, Message(x, t), <<"callId">> \o rest, <<>>)
  <1> DEFINE w == W("callId", CallId)
  <1>1. w \in Word /\ w.item = "callId" /\ w.val = CallId
    BY DEF W, Word, Items, CallId
  <1>2. "callId" \in Items /\ "callId" # "nothing" /\ Expected("callId") = "callId"
        /\ "callId" \notin VarSize
    BY DEF Items, Expected, VarSize
  <1> HIDE DEF w
  <1>3. <<w>> \in Words /\ <<>> \in Words /\ <<>> \o <<w>> = <<w>> /\ Append(<<>>, w) = <<w>>
    <2>1. <<w>> \in Words /\ <<>> \in Words
      BY Zenon, <1>1, One, Empty
    <2> QED
      BY Zenon, <1>1, <2>1, One, Empty
  <1>4. more \o rest \in Lists /\ More(c, "callId", w.val, <<>>) = more
    BY Zenon, <1>1, <1>2, WordsJoin, ListsJoin DEF More
  <1>5. Parses(c, v, more \o rest, <<w>>)
    BY Zenon, <1>3, <1>4, ReadsAll DEF w
  <1>6. Parses(c, <<w>> \o v, <<"callId">> \o rest, <<>>)
    BY <1>1, <1>2, <1>3, <1>4, <1>5, ParsesRead
  <1>7. <<w>> \o v \in Words /\ <<w>> \o v # <<>>
    BY SMTT(30), <1>1, HeadOfList DEF Words
  <1> QED
    BY Zenon, <1>6, <1>7 DEF w

LEMMA EncodeCallId ==
    ASSUME NEW v
    PROVE  /\ Encode([callId |-> CallId] ++ v, "callId") = <<W("callId", CallId)>>
           /\ \A h : h # "callId" =>
                /\ h \in DOMAIN v => h \in DOMAIN ([callId |-> CallId] ++ v)
                                     /\ ([callId |-> CallId] ++ v)[h] = v[h]
                /\ h \notin DOMAIN v => h \notin DOMAIN ([callId |-> CallId] ++ v)
  <1> DEFINE x == [callId |-> CallId] ++ v
  <1>1. DOMAIN x = {"callId"} \cup DOMAIN v /\ x["callId"] = CallId
        /\ \A h \in DOMAIN v : h # "callId" => x[h] = v[h]
    BY Zenon DEF ++
  <1> HIDE DEF x
  <1>2. Encode(x, "callId") = <<W("callId", CallId)>>
    BY Zenon, <1>1 DEF Encode, VarSize, Arrays
  <1> QED
    BY ZenonT(40), <1>1, <1>2 DEF x

\* Results of the commands that answer with a fixed list of data.
LEMMA ResultsTyped ==
    ASSUME NEW cmd, cmd \notin Queries \cup Logs \cup Names, NEW a, NEW r \in GlResults(cmd, a)
    PROVE  \A item \in Ordinary : Typed([callId |-> CallId] ++ Locals(cmd, r), item)
  <1> DEFINE v == Locals(cmd, r)
  <1>1. EglVersion[1] \in Int /\ EglVersion[2] \in Int
    BY EglGlesAssumption
  <1>2. \A item \in Ordinary \cap DOMAIN v :
           IF item \in VarSize THEN v[item] \in Seq(Int) ELSE v[item] \in Int
    <2>1. CASE cmd = "eglQueryString"
      <3>1. v = [queryString |-> <<0, 0>>]
        BY <2>1 DEF GlResults, Locals
      <3>2. <<0, 0>> \in Seq(Int)
        OBVIOUS
      <3>3. DOMAIN v = {"queryString"} /\ v["queryString"] = <<0, 0>>
        BY <3>1
      <3>4. "queryString" \in VarSize
        BY Zenon DEF VarSize
      <3> HIDE DEF v
      <3> QED
        BY <3>2, <3>3, <3>4
    <2>2. CASE cmd = "eglInitialize"
      <3>1. v = [major |-> EglVersion[2], minor |-> EglVersion[1]]
        BY <2>2 DEF GlResults, Locals
      <3> HIDE DEF v
      <3> QED
        BY <1>1, <3>1 DEF VarSize
    <2>3. CASE cmd \notin {"eglQueryString", "eglInitialize"}
      <3>1. v = [cmd |-> cmd]
        BY <2>3 DEF GlResults, Locals, Queries, Logs, Names
      <3>2. "cmd" \notin Ordinary
        BY DEF Ordinary, Plain, VarSize
      <3> HIDE DEF v
      <3> QED
        BY <3>1, <3>2
    <2> QED
      BY Zenon, <2>1, <2>2, <2>3
  <1>3. \A item \in Ordinary : item # "callId" /\ (item \in Arrays => item \in VarSize)
    BY DEF Ordinary, Plain, VarSize
  <1> HIDE DEF v
  <1> SUFFICES ASSUME NEW item \in Ordinary PROVE Typed([callId |-> CallId] ++ v, item)
    BY DEF v
  <1>4. \A h : h # "callId" =>
                /\ h \in DOMAIN v => h \in DOMAIN ([callId |-> CallId] ++ v)
                                     /\ ([callId |-> CallId] ++ v)[h] = v[h]
                /\ h \notin DOMAIN v => h \notin DOMAIN ([callId |-> CallId] ++ v)
    BY Zenon, EncodeCallId
  <1>5. CASE item \in DOMAIN v
    BY Zenon, <1>2, <1>3, <1>4, <1>5 DEF Typed
  <1>6. CASE item \notin DOMAIN v
    BY <1>3, <1>4, <1>6 DEF Typed
  <1> QED
    BY <1>5, <1>6

\* A function reads exactly the answer of its call.
AnswerRead(c, a, r) ==
    IF Calls[c.cmd].receive = <<>> THEN Reply(c.cmd, a, r) = <<>>
    ELSE Reply(c.cmd, a, r) # <<>> /\ Reply(c.cmd, a, r) \in Words
         /\ Parses(c, Reply(c.cmd, a, r), Calls[c.cmd].receive, <<>>)

LEMMA FixedAnswerRead ==
    ASSUME NEW c \in AppCalls, c.cmd \in DOMAIN Calls,
           c.cmd \notin Queries \cup Logs \cup Names, NEW a, NEW r \in GlResults(c.cmd, a)
    PROVE  AnswerRead(c, a, r)
  <1> DEFINE x == [callId |-> CallId] ++ Locals(c.cmd, r)
             k == Calls[c.cmd].receive
             h == eglGlesJumpTable[c.cmd].send
             y == Reply(c.cmd, a, r)
  <1>1. y = Message(x, h \o <<>>)
    BY DEF Reply, AnswerItems, Queries
  <1>2. \/ k = <<>> /\ h = <<>>
        \/ \E s \in Seq(Ordinary) : k = <<"callId">> \o s /\ h = <<"callId">> \o s
    BY TablesAgree DEF Agree, AnsweredAsReceived
  <1>3. \A item \in Ordinary : Typed(x, item)
    BY ResultsTyped
  <1>4. Encode(x, "callId") = <<W("callId", CallId)>>
    BY EncodeCallId
  <1>5. c.cmd # "none"
    BY Zenon, CallsListed DEF Listed, SentListed
  <1> HIDE DEF x, k, h, y
  <1>6. CASE k = <<>> /\ h = <<>>
    <2>1. y = Message(x, <<>>)
      BY Zenon, <1>1, <1>6, Empty
    <2> QED
      BY Zenon, <1>6, <2>1, MessageNone DEF AnswerRead, k, y
  <1>7. ASSUME NEW s \in Seq(Ordinary), k = <<"callId">> \o s, h = <<"callId">> \o s
        PROVE  AnswerRead(c, a, r)
    <2>1. \A i \in 1..Len(s) : Typed(x, s[i])
      BY Zenon, <1>3, LenProperties
    <2>2. \A w \in Words : Reads(c, w, s, Message(x, s)) /\ Message(x, s) \in Words /\ s \in Lists
      BY Zenon, <2>1, ReadsMessage
    <2>3. Message(x, s) \in Words /\ s \in Lists /\ <<>> \in Lists /\ <<>> \o s = s
      BY Zenon, <2>2, Empty
    <2>4. Message(x, h) = <<W("callId", CallId)>> \o Message(x, s)
      <3> DEFINE S == Ordinary \cup {"callId"}
      <3>1. s \in Seq(S) /\ "callId" \in S
        BY SeqMonotonic
      <3>2. Encode(x, "callId") \in Words
        BY <1>4, One DEF W, Word, Items, CallId
      <3>3. \A i \in 1..Len(s) : Encode(x, s[i]) \in Words
        <4>1. ASSUME NEW i \in 1..Len(s) PROVE s[i] \in Ordinary /\ Typed(x, s[i])
          BY <2>1, LenProperties
        <4> QED
          BY Zenon, <4>1, DatumWords
      <3> HIDE DEF S
      <3>4. Message(x, <<"callId">> \o s) = Encode(x, "callId") \o Message(x, s)
        BY ZenonT(40), <3>1, <3>2, <3>3, MessageFirst
      <3> QED
        BY <1>4, <1>7, <3>4
    <2>5. h \in Lists
      BY <1>7, <2>3, HeadOfList DEF Lists, Items
    <2>6. y = Message(x, h)
      BY <1>1, <2>5, Empty
    <2>7. ClientReadsMore(c, "callId", CallId) = <<>>
      BY DEF ClientReadsMore, Names
    <2>8. <<W("callId", CallId)>> \in Words
      BY One DEF W, Word, Items, CallId
    <2>9. Reads(c, <<W("callId", CallId)>>, <<>> \o s, Message(x, s))
      BY <2>2, <2>3, <2>8
    <2>10. y \in Words /\ y # <<>> /\ Parses(c, y, k, <<>>)
      BY <1>4, <1>5, <1>7, <2>3, <2>4, <2>6, <2>7, <2>9, ReplyRead
    <2>11. k # <<>>
      BY <1>7, <2>3, HeadOfList DEF Lists, Items
    <2> QED
      BY Zenon, <2>10, <2>11 DEF AnswerRead, k, y
  <1> QED
    BY <1>2, <1>6, <1>7

\* Messages of one to four data.
LEMMA Message1 ==
    ASSUME NEW x, NEW h, Encode(x, h) \in Words
    PROVE  Message(x, <<h>>) = Encode(x, h)
  <1> DEFINE S == {h}
             t == <<>>
  <1>1. h \in S /\ t \in Seq(S) /\ Len(t) = 0 /\ <<h>> \o t = <<h>>
    OBVIOUS
  <1>2. Message(x, t) = <<>>
    BY MessageNone
  <1> HIDE DEF S, t
  <1>3. \A k \in 1..Len(t) : Encode(x, t[k]) \in Words
    BY <1>1
  <1>4. Message(x, <<h>> \o t) = Encode(x, h) \o Message(x, t)
    BY <1>1, <1>3, MessageFirst
  <1> QED
    BY <1>1, <1>2, <1>4, Empty

LEMMA Message2 ==
    ASSUME NEW x, NEW h, NEW g, Encode(x, h) \in Words, Encode(x, g) \in Words
    PROVE  Message(x, <<h, g>>) = Encode(x, h) \o Encode(x, g)
  <1> DEFINE S == {h, g}
             t == <<g>>
  <1>1. h \in S /\ t \in Seq(S) /\ \A k \in 1..Len(t) : Encode(x, t[k]) \in Words
    OBVIOUS
  <1>2. <<h>> \o t = <<h, g>>
    BY Cons1
  <1>3. Message(x, t) = Encode(x, g)
    BY Message1
  <1> HIDE DEF S, t
  <1>4. Message(x, <<h>> \o t) = Encode(x, h) \o Message(x, t)
    BY ZenonT(40), <1>1, MessageFirst
  <1> QED
    BY <1>2, <1>3, <1>4

LEMMA Message3 ==
    ASSUME NEW x, NEW h, NEW g, NEW f,
           Encode(x, h) \in Words, Encode(x, g) \in Words, Encode(x, f) \in Words
    PROVE  Message(x, <<h, g, f>>) = Encode(x, h) \o (Encode(x, g) \o Encode(x, f))
  <1> DEFINE S == {h, g, f}
             t == <<g, f>>
  <1>1. h \in S /\ t \in Seq(S) /\ \A k \in 1..Len(t) : Encode(x, t[k]) \in Words
    OBVIOUS
  <1>2. <<h>> \o t = <<h, g, f>>
    BY Cons2
  <1>3. Message(x, t) = Encode(x, g) \o Encode(x, f)
    BY Message2
  <1> HIDE DEF S, t
  <1>4. Message(x, <<h>> \o t) = Encode(x, h) \o Message(x, t)
    BY <1>1, MessageFirst
  <1> QED
    BY <1>2, <1>3, <1>4

LEMMA Message4 ==
    ASSUME NEW x, NEW h, NEW g, NEW f, NEW e, Encode(x, h) \in Words, Encode(x, g) \in Words,
           Encode(x, f) \in Words, Encode(x, e) \in Words
    PROVE  Message(x, <<h, g, f, e>>)
             = Encode(x, h) \o (Encode(x, g) \o (Encode(x, f) \o Encode(x, e)))
  <1> DEFINE S == {h, g, f, e}
             t == <<g, f, e>>
  <1>1. h \in S /\ t \in Seq(S) /\ \A k \in 1..Len(t) : Encode(x, t[k]) \in Words
    OBVIOUS
  <1>2. <<h>> \o t = <<h, g, f, e>>
    BY Cons3
  <1>3. Message(x, t) = Encode(x, g) \o (Encode(x, f) \o Encode(x, e))
    BY Message3
  <1> HIDE DEF S, t
  <1>4. Message(x, <<h>> \o t) = Encode(x, h) \o Message(x, t)
    BY <1>1, MessageFirst
  <1> QED
    BY <1>2, <1>3, <1>4

-----------------------------------------------------------------------------

LEMMA Zeroes ==
    ASSUME NEW m \in Nat
    PROVE  Copies(m, 0) \in Seq(Int) /\ Len(Copies(m, 0)) = m
  <1>1. Copies(m, 0) \in [1..m -> Int]
    BY DEF Copies
  <1> QED
    BY <1>1

LEMMA AtMostType ==
    ASSUME NEW m \in Nat, NEW n \in Nat
    PROVE  AtMost(m, n) \in Nat
  BY DEF AtMost

LEMMA NamesRead ==
    ASSUME NEW c \in AppCalls, c.cmd \in DOMAIN Calls, c.cmd \in Names,
           NEW a, Says(c, a), NEW r \in GlResults(c.cmd, a)
    PROVE  AnswerRead(c, a, r)
  <1> DEFINE x == [callId |-> CallId] ++ Locals(c.cmd, r)
             v == Copies(c.n, 0)
             y == Reply(c.cmd, a, r)
             h == <<"callId", "genNames">>
  <1>1. y = Message(x, h \o <<>>)
    <2>1. eglGlesJumpTable[c.cmd].send = h
      BY TablesAgree DEF Agree, AnsweredAsReceived
    <2>2. c.cmd \notin {"eglGetConfigs", "eglChooseConfig"}
      BY DEF Names
    <2>3. AnswerItems(c.cmd, a, r) = h \o <<>>
      BY <2>1, <2>2 DEF AnswerItems
    <2> HIDE DEF h
    <2> QED
      BY <2>3 DEF Reply
  <1>2. c.n \in Nat
    <2>1. WellFormed(c)
      BY EglGlesAssumption
    <2> QED
      BY <2>1 DEF WellFormed, Names
  <1>3. v \in Seq(Int) /\ Len(v) = c.n
    BY Zenon, <1>2, Zeroes
  <1>4. Locals(c.cmd, r) = [genNames |-> v]
    BY Zenon DEF GlResults, Locals, Names, Says
  <1>5. Calls[c.cmd].receive = <<"callId">>
    BY TablesAgree DEF Agree, AnsweredAsReceived
  <1>6. Encode(x, "callId") = <<W("callId", CallId)>> /\ "genNames" \in DOMAIN x /\ x["genNames"] = v
    <2>1. /\ Encode(x, "callId") = <<W("callId", CallId)>>
          /\ \A g : g # "callId" =>
               (g \in DOMAIN Locals(c.cmd, r) => g \in DOMAIN x /\ x[g] = Locals(c.cmd, r)[g])
      BY Zenon, EncodeCallId
    <2> HIDE DEF x
    <2> QED
      BY <1>4, <2>1
  <1>7. "genNames" \in Plain /\ "genNames" \in Arrays \ VarSize /\ "genNames" \in Items
    BY DEF Plain, Items, VarSize, Arrays
  <1>8. Encode(x, "genNames") = Run("genNames", v) /\ Run("genNames", v) \in Words
    <2> HIDE DEF x, v
    <2> QED
      BY Zenon, <1>3, <1>6, <1>7, EncodeArray, RunType
  <1>9. <<W("callId", CallId)>> \in Words
    BY One DEF W, Word, Items, CallId
  <1>10. Message(x, h) = <<W("callId", CallId)>> \o Run("genNames", v)
    <2> HIDE DEF x
    <2> QED
      BY <1>6, <1>8, <1>9, Message2
  <1>11. y = Message(x, h)
    <2>1. h \in Lists
      BY DEF Lists, Items
    <2> HIDE DEF h
    <2> QED
      BY <1>1, <2>1, Empty
  <1>12. Reads(c, <<W("callId", CallId)>>, Block(c.n, "genNames"), Run("genNames", v))
         /\ Block(c.n, "genNames") \in Lists
    <2> HIDE DEF v
    <2> QED
      BY <1>3, <1>7, <1>9, ReadsBlock
  <1>13. Block(c.n, "genNames") \o <<>> = Block(c.n, "genNames") /\ <<>> \in Lists
    BY Zenon, <1>12, Empty
  <1>14. ClientReadsMore(c, "callId", CallId) = Block(c.n, "genNames")
    BY Zenon DEF ClientReadsMore, Names
  <1>15. c.cmd # "none"
    BY Zenon, CallsListed DEF Listed, SentListed
  <1>16. <<"callId">> \o <<>> = <<"callId">>
    BY One, Empty DEF Items
  <1> HIDE DEF x, y, h, v
  <1>17. y \in Words /\ y # <<>> /\ Parses(c, y, <<"callId">> \o <<>>, <<>>)
    BY <1>6, <1>8, <1>10, <1>11, <1>12, <1>13, <1>14, <1>15, ReplyRead
  <1> QED
    BY <1>5, <1>16, <1>17 DEF AnswerRead, y

LEMMA LogsRead ==
    ASSUME NEW c \in AppCalls, c.cmd \in DOMAIN Calls, c.cmd \in Logs,
           NEW a, Says(c, a), NEW r \in GlResults(c.cmd, a)
    PROVE  AnswerRead(c, a, r)
  <1> DEFINE x == [callId |-> CallId] ++ Locals(c.cmd, r)
             y == Reply(c.cmd, a, r)
             h == <<"callId", "logLength", "infoLog">>
  <1>1. y = Message(x, h \o <<>>)
    <2>1. eglGlesJumpTable[c.cmd].send = h
      BY TablesAgree DEF Agree, AnsweredAsReceived
    <2>2. c.cmd \notin {"eglGetConfigs", "eglChooseConfig"}
      BY Zenon DEF Logs
    <2>3. AnswerItems(c.cmd, a, r) = h \o <<>>
      BY Zenon, <2>1, <2>2 DEF AnswerItems
    <2> HIDE DEF h
    <2> QED
      BY <2>3 DEF Reply
  <1>2. c.bufsize \in Nat
    <2>1. WellFormed(c)
      BY EglGlesAssumption
    <2> QED
      BY <2>1 DEF WellFormed, Logs
  <1>3. PICK m \in Nat : Locals(c.cmd, r) = [logLength |-> m, infoLog |-> Copies(m, 0)]
    <2>1. PICK n \in LogLengths : r = [logLength |-> AtMost(n, c.bufsize),
                                       infoLog |-> Copies(AtMost(n, c.bufsize), 0)]
      BY DEF GlResults, Logs, Says
    <2>2. AtMost(n, c.bufsize) \in Nat
      BY <1>2, EglGlesAssumption, AtMostType
    <2>3. Locals(c.cmd, r) = r
      BY DEF Locals, Logs
    <2> QED
      BY Zenon, <2>1, <2>2, <2>3
  <1> DEFINE v == Copies(m, 0)
             w == W("logLength", m)
  <1>4. v \in Seq(Int) /\ Len(v) = m
    BY Zeroes
  <1>5. Calls[c.cmd].receive = <<"callId", "logLength">>
    BY TablesAgree DEF Agree, AnsweredAsReceived
  <1>6. /\ Encode(x, "callId") = <<W("callId", CallId)>>
        /\ "infoLog" \in DOMAIN x /\ x["infoLog"] = v
        /\ "logLength" \in DOMAIN x /\ x["logLength"] = m
    <2>1. /\ Encode(x, "callId") = <<W("callId", CallId)>>
          /\ \A g : g # "callId" =>
               (g \in DOMAIN Locals(c.cmd, r) => g \in DOMAIN x /\ x[g] = Locals(c.cmd, r)[g])
      BY Zenon, EncodeCallId
    <2> HIDE DEF x
    <2> QED
      BY <1>3, <2>1
  <1>7. "infoLog" \in Plain /\ "infoLog" \in Arrays \ VarSize /\ "infoLog" \in Items
        /\ "logLength" \in Items /\ "logLength" \notin VarSize \cup Arrays
    BY DEF Plain, Items, VarSize, Arrays
  <1>8. Encode(x, "infoLog") = Run("infoLog", v) /\ Run("infoLog", v) \in Words
    <2> HIDE DEF x, v
    <2> QED
      BY Zenon, <1>4, <1>6, <1>7, EncodeArray, RunType
  <1>9. <<W("callId", CallId)>> \in Words
    BY One DEF W, Word, Items, CallId
  <1>10. Encode(x, "logLength") = <<w>> /\ w \in Word /\ w.item = "logLength" /\ w.val = m
    <2>1. Encode(x, "logLength") = <<w>>
      <3> HIDE DEF x
      <3> QED
        BY <1>6, <1>7 DEF Encode
    <2> QED
      BY <1>7, <2>1 DEF W, Word
  <1> HIDE DEF w
  <1>11. <<w>> \in Words
    BY Zenon, <1>10, One
  <1>12. Message(x, h) = <<W("callId", CallId)>> \o (<<w>> \o Run("infoLog", v))
    <2>1. Encode(x, "logLength") \in Words /\ Encode(x, "infoLog") \in Words
          /\ Encode(x, "callId") \in Words
      BY <1>6, <1>8, <1>9, <1>10, <1>11
    <2>2. Message(x, <<"callId", "logLength", "infoLog">>)
            = Encode(x, "callId") \o (Encode(x, "logLength") \o Encode(x, "infoLog"))
      <3> HIDE DEF x
      <3> QED
        BY <2>1, Message3
    <2> HIDE DEF x, v
    <2> QED
      BY <1>6, <1>8, <1>10, <2>2
  <1>13. y = Message(x, h)
    <2>1. h \in Lists
      BY DEF Lists, Items
    <2> HIDE DEF h
    <2> QED
      BY <1>1, <2>1, Empty
  <1> DEFINE p == <<W("callId", CallId)>>
  <1>14. Reads(c, p, <<"logLength">>, <<w>> \o Run("infoLog", v))
    <2> HIDE DEF v, p
    <2>1. p \o <<w>> \in Words /\ p \in Words
      BY Zenon, <1>9, <1>11, WordsJoin DEF p
    <2>2. "logLength" # "nothing" /\ "logLength" # "callId"
          /\ Expected("logLength") = "logLength"
      BY DEF Expected, VarSize
    <2>3. c.cmd # "none"
      BY CallsListed DEF Listed, SentListed
    <2>4. More(c, "logLength", w.val, p) = Block(m, "infoLog")
      BY Zenon, <1>7, <1>10, <2>3 DEF More, ClientReadsMore
    <2>5. Reads(c, p \o <<w>>, Block(m, "infoLog"), Run("infoLog", v))
          /\ Block(m, "infoLog") \in Lists
      BY <1>4, <1>7, <2>1, ReadsBlock
    <2> QED
      BY <1>7, <1>8, <1>10, <2>1, <2>2, <2>4, <2>5, ReadsWord
  <1>15. <<"logLength">> \in Lists /\ <<>> \in Lists
         /\ <<>> \o <<"logLength">> = <<"logLength">>
    BY Zenon, <1>7, One, Empty
  <1>16. <<w>> \o Run("infoLog", v) \in Words
    BY Zenon, <1>8, <1>11, WordsJoin
  <1>17. ClientReadsMore(c, "callId", CallId) = <<>>
    BY DEF ClientReadsMore, Logs
  <1>18. c.cmd # "none"
    BY CallsListed DEF Listed, SentListed
  <1>19. <<"callId">> \o <<"logLength">> = <<"callId", "logLength">>
    BY Zenon, Cons1
  <1> HIDE DEF x, y, h, v
  <1>20. y \in Words /\ y # <<>> /\ Parses(c, y, <<"callId">> \o <<"logLength">>, <<>>)
    BY <1>6, <1>12, <1>13, <1>14, <1>15, <1>16, <1>17, <1>18, ReplyRead
  <1> QED
    <2>1. Parses(c, y, Calls[c.cmd].receive, <<>>) /\ Calls[c.cmd].receive # <<>>
      <3>1. <<"callId", "logLength">> # <<>>
        OBVIOUS
      <3> QED
        BY <1>5, <1>19, <1>20, <3>1
    <2> QED
      BY <1>20, <2>1 DEF AnswerRead, y

LEMMA QueriesRead ==
    ASSUME NEW c \in AppCalls, c.cmd \in DOMAIN Calls, c.cmd \in Queries, Agreed(c),
           NEW a, Says(c, a), NEW r \in GlResults(c.cmd, a)
    PROVE  AnswerRead(c, a, r)
  <1> DEFINE x == [callId |-> CallId] ++ Locals(c.cmd, r)
             y == Reply(c.cmd, a, r)
             h == <<"callId", "status", "numConfig">>
             last == IF c.configs THEN <<"configs">> ELSE <<>>
  <1>0. Passed(c).configSize \in Nat /\ c.configs = (Passed(c).configSize > 0)
    <2>1. WellFormed(c)
      BY Zenon, EglGlesAssumption
    <2>2. c.configs \in BOOLEAN /\ c.configSize \in Nat /\ "configSize" \in DOMAIN c
      BY <2>1 DEF WellFormed, Queries
    <2>3. CASE c.configs
      BY <2>2, <2>3 DEF Passed, Queries, Agreed
    <2>4. CASE ~ c.configs
      <3>1. Passed(c) = [c EXCEPT !.configSize = 0]
        BY <2>4 DEF Passed, Queries
      <3>2. Passed(c).configSize = 0
        BY <2>2, <3>1
      <3> QED
        BY <2>2, <2>4, <3>2
    <2> QED
      BY <2>2, <2>3, <2>4
  <1>1. y = Message(x, h \o last)
    <2>1. eglGlesJumpTable[c.cmd].send = h
      BY Zenon, TablesAgree DEF Agree, AnsweredAsReceived
    <2>2. Val(a, "configSize") = Passed(c).configSize
      BY Zenon DEF Says
    <2>3. AnswerItems(c.cmd, a, r) = h \o last
      <3> HIDE DEF h
      <3> QED
        BY <1>0, <2>1, <2>2 DEF AnswerItems, Queries
    <2> HIDE DEF h, last
    <2> QED
      BY Zenon, <2>3 DEF Reply
  <1>2. PICK m \in Nat : Locals(c.cmd, r) = [numConfig |-> m, configs |-> Copies(m, 0)]
    <2> DEFINE size == Val(a, "configSize")
               found(n) == IF size = 0 THEN n ELSE AtMost(n, size)
    <2>1. size \in Nat /\ NumConfigs \in Nat
      BY <1>0, EglGlesAssumption DEF Says
    <2>2. \A n \in Nat : found(n) \in Nat
      BY <2>1, AtMostType
    <2>3. \E n \in Nat : r = [numConfig |-> found(n), configs |-> Copies(found(n), 0)]
      <3>1. CASE c.cmd = "eglGetConfigs"
        BY <2>1, <3>1 DEF GlResults
      <3>2. CASE c.cmd = "eglChooseConfig"
        BY <2>1, <3>2 DEF GlResults
      <3> QED
        BY <3>1, <3>2 DEF Queries
    <2>4. Locals(c.cmd, r) = r
      BY Zenon DEF Locals, Queries
    <2> HIDE DEF found
    <2> QED
      BY <2>2, <2>3, <2>4
  <1> DEFINE v == Copies(m, 0)
             w == W("numConfig", m)
             s == W("status", 0)
  <1>4. v \in Seq(Int) /\ Len(v) = m
    BY Zenon, Zeroes
  <1>5. Calls[c.cmd].receive = <<"callId", "status", "numConfig">>
    BY TablesAgree DEF Agree, AnsweredAsReceived
  <1>6. /\ Encode(x, "callId") = <<W("callId", CallId)>>
        /\ "configs" \in DOMAIN x /\ x["configs"] = v
        /\ "numConfig" \in DOMAIN x /\ x["numConfig"] = m
        /\ "status" \notin DOMAIN x
    <2>1. /\ Encode(x, "callId") = <<W("callId", CallId)>>
          /\ \A g : g # "callId" =>
               /\ g \in DOMAIN Locals(c.cmd, r) => g \in DOMAIN x /\ x[g] = Locals(c.cmd, r)[g]
               /\ g \notin DOMAIN Locals(c.cmd, r) => g \notin DOMAIN x
      BY EncodeCallId
    <2> HIDE DEF x
    <2> QED
      BY <1>2, <2>1
  <1>7. "configs" \in Plain /\ "configs" \in Arrays \ VarSize /\ "configs" \in Items
        /\ "numConfig" \in Items /\ "numConfig" \notin VarSize \cup Arrays
        /\ "status" \in Plain /\ "status" \in Items /\ "status" \notin VarSize \cup Arrays
    BY DEF Plain, Items, VarSize, Arrays
  <1>8. Encode(x, "configs") = Run("configs", v) /\ Run("configs", v) \in Words
    <2> HIDE DEF x, v
    <2> QED
      BY Zenon, <1>4, <1>6, <1>7, EncodeArray, RunType
  <1>9. <<W("callId", CallId)>> \in Words
    BY One DEF W, Word, Items, CallId
  <1>10. /\ Encode(x, "numConfig") = <<w>> /\ w \in Word /\ w.item = "numConfig" /\ w.val = m
         /\ Encode(x, "status") = <<s>> /\ s \in Word
    <2>1. Encode(x, "numConfig") = <<w>> /\ Encode(x, "status") = <<s>>
      <3> HIDE DEF x
      <3> QED
        BY Zenon, <1>6, <1>7 DEF Encode
    <2> QED
      BY <1>7, <2>1 DEF W, Word
  <1>11. <<w>> \in Words /\ <<s>> \in Words
    BY Zenon, <1>10, One
  <1> DEFINE p == <<W("callId", CallId)>>
             tail == IF c.configs THEN Run("configs", v) ELSE <<>>
  <1>12. tail \in Words /\ <<w>> \o tail \in Words /\ <<s>> \o (<<w>> \o tail) \in Words
    <2>1. tail \in Words
      BY Zenon, <1>8, Empty
    <2> HIDE DEF tail, w, s
    <2> QED
      BY Zenon, <1>11, <2>1, WordsJoin
  <1>13. y = p \o (<<s>> \o (<<w>> \o tail))
    <2>1. CASE c.configs
      <3>1. h \o <<"configs">> = <<"callId", "status", "numConfig", "configs">>
        <4>1. h = <<"callId">> \o <<"status", "numConfig">>
          BY Cons2
        <4>2. {<<"callId">>, <<"status", "numConfig">>, <<"configs">>} \subseteq Lists
          BY DEF Lists, Items
        <4>3. (<<"callId">> \o <<"status", "numConfig">>) \o <<"configs">>
                = <<"callId">> \o (<<"status", "numConfig">> \o <<"configs">>)
          BY <4>2, WordsJoin
        <4>4. <<"status", "numConfig">> \o <<"configs">> = <<"status", "numConfig", "configs">>
          BY Zenon, Triple
        <4>5. <<"callId">> \o <<"status", "numConfig", "configs">>
                = <<"callId", "status", "numConfig", "configs">>
          BY Zenon, Cons3
        <4> QED
          BY <4>1, <4>3, <4>4, <4>5
      <3>2. y = Message(x, <<"callId", "status", "numConfig", "configs">>)
        BY <1>1, <2>1, <3>1
      <3>3. Encode(x, "numConfig") \in Words /\ Encode(x, "status") \in Words
            /\ Encode(x, "callId") \in Words /\ Encode(x, "configs") \in Words
        <4> HIDE DEF w, s
        <4> QED
          BY <1>6, <1>8, <1>9, <1>10, <1>11
      <3>4. Message(x, <<"callId", "status", "numConfig", "configs">>)
              = Encode(x, "callId") \o (Encode(x, "status") \o
                  (Encode(x, "numConfig") \o Encode(x, "configs")))
        <4> HIDE DEF x
        <4> QED
          BY <3>3, Message4
      <3>5. tail = Run("configs", v)
        BY <2>1
      <3> HIDE DEF x, y, w, s, v, tail
      <3> QED
        BY <1>6, <1>8, <1>10, <3>2, <3>4, <3>5
    <2>2. CASE ~ c.configs
      <3>1. h \in Lists
        BY DEF Lists, Items
      <3>2. h \o last = h
        <4>1. last = <<>>
          BY <2>2
        <4> HIDE DEF h, last
        <4> QED
          BY <3>1, <4>1, Empty
      <3>3. y = Message(x, h)
        BY <1>1, <3>2
      <3>4. tail = <<>> /\ <<w>> \o <<>> = <<w>>
        BY <1>11, <2>2, Empty
      <3> HIDE DEF x, y, w, s, tail
      <3> QED
        BY ZenonT(40), <1>6, <1>9, <1>10, <1>11, <3>3, <3>4, Message3
    <2> QED
      BY Zenon, <2>1, <2>2
  <1>14. c.cmd # "none"
    BY CallsListed DEF Listed, SentListed
  <1> HIDE DEF x, y, h, last
  <1>15. ASSUME NEW q \in Words
         PROVE  Reads(c, q, <<"numConfig">>, <<w>> \o tail)
    <2> DEFINE more == IF c.configs /\ m > 0 THEN Copies(m, "configs") ELSE <<>>
    <2>1. q \o <<w>> \in Words
      BY <1>11, WordsJoin
    <2>2. "numConfig" # "nothing" /\ "numConfig" # "callId"
          /\ Expected("numConfig") = "numConfig"
      BY DEF Expected, VarSize
    <2>3. More(c, "numConfig", w.val, q) = more
      <3> HIDE DEF w
      <3> QED
        BY <1>7, <1>10, <1>14 DEF More, ClientReadsMore
    <2>4. Reads(c, q \o <<w>>, more, tail) /\ more \in Lists
      <3>1. CASE c.configs /\ m > 0
        <4> HIDE DEF v, w
        <4> QED
          BY <1>4, <1>7, <2>1, <3>1, ReadsRun, RunType
      <3>2. CASE ~ (c.configs /\ m > 0)
        <4>1. more = <<>>
          BY <3>2
        <4>2. tail = <<>>
          <5>1. CASE m = 0
            <6>1. Run("configs", v) = <<>>
              <7> HIDE DEF v
              <7> QED
                BY <1>4, <5>1 DEF Run
            <6> QED
              BY <6>1
          <5>2. CASE ~ c.configs
            BY Zenon, <5>2
          <5> QED
            BY <3>2, <5>1, <5>2
        <4> HIDE DEF more, tail, w
        <4> QED
          BY <2>1, <4>1, <4>2, ReadsEmpty, Empty
      <3> QED
        BY <3>1, <3>2
    <2> HIDE DEF more, tail, w
    <2> QED
      BY <1>7, <1>10, <1>12, <2>2, <2>3, <2>4, ReadsWord
  <1> HIDE DEF tail, w
  <1>16. Reads(c, p, <<"status">> \o <<"numConfig">>, <<s>> \o (<<w>> \o tail))
         /\ <<"status">> \o <<"numConfig">> \in Lists
    <2>1. Reads(c, p, <<"status">>, <<s>>)
      BY <1>7, <1>9, ReadsPlain
    <2>2. p \o <<s>> \in Words
      BY Zenon, <1>9, <1>11, WordsJoin
    <2>3. <<"status">> \in Lists /\ <<"numConfig">> \in Lists
      BY <1>7, One
    <2> HIDE DEF s, p
    <2> QED
      BY Zenon, <1>9, <1>11, <1>12, <1>15, <2>1, <2>2, <2>3, WordsJoin, ListsJoin, ReadsJoin DEF p
  <1>17. <<"status">> \o <<"numConfig">> = <<"status", "numConfig">>
         /\ <<"callId">> \o <<"status", "numConfig">> = <<"callId", "status", "numConfig">>
    BY Cons1, Cons2
  <1>18. ClientReadsMore(c, "callId", CallId) = <<>>
    BY Zenon DEF ClientReadsMore, Queries
  <1> DEFINE rest == <<"status">> \o <<"numConfig">>
  <1>19. <<>> \in Lists /\ <<>> \o rest = rest
    <2> HIDE DEF rest
    <2> QED
      BY Zenon, <1>16, Empty DEF rest
  <1> HIDE DEF s, rest
  <1>20. Message(x, h \o last) \in Words /\ Message(x, h \o last) # <<>>
         /\ Parses(c, Message(x, h \o last), <<"callId">> \o rest, <<>>)
    BY <1>1, <1>6, <1>12, <1>13, <1>14, <1>16, <1>18, <1>19, ReplyRead DEF rest
  <1> QED
    <2>1. y \in Words /\ y # <<>> /\ Parses(c, y, <<"callId">> \o rest, <<>>)
      BY <1>1, <1>20
    <2>2. <<"callId">> \o rest = <<"callId", "status", "numConfig">>
      BY <1>17 DEF rest
    <2>3. <<"callId", "status", "numConfig">> # <<>>
      OBVIOUS
    <2>4. Parses(c, y, Calls[c.cmd].receive, <<>>) /\ Calls[c.cmd].receive # <<>>
      BY <1>5, <2>1, <2>2, <2>3
    <2> QED
      BY <2>1, <2>4 DEF AnswerRead, y

LEMMA AnswersRead ==
    ASSUME NEW c \in AppCalls, c.cmd \in DOMAIN Calls, Agreed(c),
           NEW a, Says(c, a), NEW r \in GlResults(c.cmd, a)
    PROVE  AnswerRead(c, a, r)
  BY FixedAnswerRead, NamesRead, LogsRead, QueriesRead

\* Handlers of functions that do not wait send nothing.
LEMMA SilentReply ==
    ASSUME NEW cmd \in DOMAIN Calls, Calls[cmd].receive = <<>>, NEW a, NEW r
    PROVE  Reply(cmd, a, r) = <<>> /\ GlReply(cmd, a, r) = <<>>
  <1> DEFINE k == Calls[cmd].receive
             h == eglGlesJumpTable[cmd].send
  <1>1. AnsweredAsReceived(cmd, Calls[cmd], eglGlesJumpTable[cmd])
    BY Zenon, TablesAgree DEF Agree
  <1>2. cmd \notin Queries \cup Logs \cup Names
    <2>1. <<"callId", "status", "numConfig">> # <<>> /\ <<"callId", "logLength">> # <<>>
          /\ <<"callId">> # <<>>
      OBVIOUS
    <2> QED
      BY Zenon, <1>1, <2>1 DEF AnsweredAsReceived
  <1>3. h = <<>>
    <2>1. ASSUME NEW s \in Seq(Ordinary) PROVE <<"callId">> \o s # <<>>
      <3>1. s \in Seq(Ordinary \cup {"callId"}) /\ "callId" \in Ordinary \cup {"callId"}
        BY Zenon, SeqMonotonic
      <3> QED
        BY <3>1, HeadOfList
    <2> QED
      BY Zenon, <1>1, <1>2, <2>1 DEF AnsweredAsReceived
  <1> HIDE DEF h
  <1>4. AnswerItems(cmd, a, r) = <<>>
    BY Zenon, <1>2, <1>3, Empty DEF AnswerItems, Queries, h
  <1> QED
    BY <1>4, MessageNone DEF Reply, GlReply

-----------------------------------------------------------------------------
(* The commands that are queued for the server.                            *)

\* A command: its arguments, and GL_ARRAY_BUFFER when its turn has come.
Command == [cmd : DOMAIN Calls, args : Words, gl : Nat]
Commands == Seq(Command)

Sent(e) == <<W("cmd", e.cmd), W("callId", CallId)>> \o e.args
Stream(Q) == FlattenSeq([k \in 1..Len(Q) |-> Sent(Q[k])])

LEMMA SentWords ==
    ASSUME NEW e \in Command
    PROVE  /\ Sent(e) \in Words /\ Sent(e) # <<>>
           /\ <<W("callId", CallId)>> \o e.args \in Words
           /\ Sent(e) = <<W("cmd", e.cmd)>> \o (<<W("callId", CallId)>> \o e.args)
           /\ W("cmd", e.cmd) \in Word
  <1>1. W("cmd", e.cmd) \in Word /\ W("callId", CallId) \in Word /\ e.args \in Words
    BY DEF Command, W, Word, Items, CallId
  <1> DEFINE x == W("cmd", e.cmd)
             y == W("callId", CallId)
  <1> HIDE DEF x, y
  <1>2. <<x>> \in Words /\ <<y>> \in Words /\ <<x>> \o <<y>> = <<x, y>>
    BY <1>1, One, Cons1 DEF x, y
  <1>3. <<y>> \o e.args \in Words
    BY <1>1, <1>2, WordsJoin
  <1>4. <<x, y>> \o e.args = <<x>> \o (<<y>> \o e.args)
    <2>1. (<<x>> \o <<y>>) \o e.args = <<x>> \o (<<y>> \o e.args)
      BY <1>1, <1>2, WordsJoin
    <2> QED
      BY <1>2, <2>1
  <1>5. <<x>> \o (<<y>> \o e.args) \in Words /\ <<x>> \o (<<y>> \o e.args) # <<>>
    BY <1>1, <1>3, HeadOfList DEF x, Words
  <1> QED
    BY <1>1, <1>3, <1>4, <1>5 DEF Sent, x, y

LEMMA Parts ==
    ASSUME NEW Q \in Commands
    PROVE  /\ [k \in 1..Len(Q) |-> Sent(Q[k])] \in Seq(Words)
           /\ Len([k \in 1..Len(Q) |-> Sent(Q[k])]) = Len(Q) /\ Len(Q) \in Nat
  <1>1. Len(Q) \in Nat /\ \A k \in 1..Len(Q) : Q[k] \in Command
    BY Zenon, LenProperties DEF Commands
  <1>2. [k \in 1..Len(Q) |-> Sent(Q[k])] \in [1..Len(Q) -> Words]
    BY <1>1, SentWords
  <1> QED
    BY <1>1, <1>2

LEMMA StreamWords ==
    ASSUME NEW Q \in Commands
    PROVE  Stream(Q) \in Words
  <1> DEFINE s == [k \in 1..Len(Q) |-> Sent(Q[k])]
  <1>1. s \in Seq(Words)
    BY Parts
  <1> HIDE DEF s
  <1>2. PICK f \in [0..Len(s) -> Words] : f[Len(s)] = FlattenSeq(s)
    BY <1>1, Flatten DEF Words
  <1>3. Len(s) \in 0..Len(s)
    BY <1>1, LenProperties
  <1> QED
    BY <1>2, <1>3 DEF Stream, s

LEMMA StreamNone == Stream(<<>>) = <<>>
  <1> DEFINE s == [k \in 1..Len(<<>>) |-> Sent(<<>>[k])]
  <1>1. s = <<>>
    OBVIOUS
  <1>2. FlattenSeq(<<>>) = <<>>
    BY DEF FlattenSeq
  <1>3. Stream(<<>>) = FlattenSeq(s)
    BY Zenon DEF Stream
  <1> HIDE DEF s
  <1> QED
    BY Zenon, <1>1, <1>2, <1>3

\* The first command and the others.
LEMMA StreamFirst ==
    ASSUME NEW Q \in Commands, Q # <<>>
    PROVE  /\ Stream(Q) = Sent(Q[1]) \o Stream(Tail(Q))
           /\ Q[1] \in Command /\ Tail(Q) \in Commands /\ Len(Tail(Q)) = Len(Q) - 1
           /\ Len(Q) \in Nat \ {0} /\ \A k \in 1..(Len(Q) - 1) : Tail(Q)[k] = Q[k + 1]
  <1> DEFINE R == Tail(Q)
             s == [k \in 1..Len(R) |-> Sent(R[k])]
             u == [k \in 1..Len(Q) |-> Sent(Q[k])]
  <1>1. /\ Q[1] \in Command /\ R \in Commands /\ Len(R) = Len(Q) - 1
        /\ Len(Q) \in Nat \ {0} /\ \A k \in 1..(Len(Q) - 1) : R[k] = Q[k + 1]
    BY HeadTailProperties, LenProperties, EmptySeq DEF Commands
  <1> HIDE DEF R
  <1>2. s \in Seq(Words) /\ Len(s) = Len(R) /\ u \in Seq(Words) /\ Len(u) = Len(Q)
    BY Zenon, <1>1, Parts
  <1>3. u[1] = Sent(Q[1]) /\ \A i \in 1..Len(R) : u[i + 1] = s[i]
    BY <1>1
  <1>4. Sent(Q[1]) \in Words
    BY <1>1, SentWords
  <1>5. Stream(Q) = FlattenSeq(u) /\ Stream(R) = FlattenSeq(s)
    BY Zenon DEF Stream
  <1> HIDE DEF s, u
  <1>6. <<Sent(Q[1])>> \o s = u
    BY <1>1, <1>2, <1>3, <1>4, ConcatOne
  <1>7. FlattenSeq(<<Sent(Q[1])>> \o s) = Sent(Q[1]) \o FlattenSeq(s)
    BY <1>2, <1>4, FlattenFirst DEF Words
  <1> QED
    BY <1>1, <1>5, <1>6, <1>7 DEF R

\* All commands but the last, and the last.
LEMMA StreamLast ==
    ASSUME NEW Q \in Commands, NEW e \in Command
    PROVE  /\ Stream(Append(Q, e)) = Stream(Q) \o Sent(e)
           /\ Append(Q, e) \in Commands /\ Append(Q, e) # <<>>
           /\ Len(Append(Q, e)) = Len(Q) + 1 /\ Append(Q, e)[Len(Q) + 1] = e
           /\ \A k \in 1..Len(Q) : Append(Q, e)[k] = Q[k]
           /\ Len(Q) \in Nat
  <1> DEFINE R == Append(Q, e)
             n == Len(Q)
             s == [k \in 1..Len(Q) |-> Sent(Q[k])]
             u == [k \in 1..Len(R) |-> Sent(R[k])]
  <1>1. /\ R \in Commands /\ R # <<>> /\ Len(R) = n + 1 /\ R[n + 1] = e
        /\ (\A k \in 1..n : R[k] = Q[k]) /\ n \in Nat
    BY AppendProperties, LenProperties DEF Commands
  <1> HIDE DEF R
  <1>2. s \in Seq(Words) /\ Len(s) = n /\ u \in Seq(Words) /\ Len(u) = n + 1
    BY <1>1, Parts
  <1>3. (\A i \in 1..n : u[i] = s[i]) /\ u[n + 1] = Sent(e)
    BY <1>1
  <1>4. Stream(R) = FlattenSeq(u) /\ Stream(Q) = FlattenSeq(s)
    BY DEF Stream
  <1> HIDE DEF s, u, n
  <1>5. PICK f \in [0..n -> Words] : PartialJoins(f, s) /\ f[n] = FlattenSeq(s)
    BY Zenon, <1>2, Flatten DEF Words
  <1>6. PICK g \in [0..(n + 1) -> Words] : PartialJoins(g, u) /\ g[n + 1] = FlattenSeq(u)
    BY Zenon, <1>2, Flatten DEF Words
  <1>7. /\ f[0] = <<>> /\ \A i \in 0..(n - 1) : f[i + 1] = f[i] \o s[i + 1]
        /\ g[0] = <<>> /\ \A i \in 0..n : g[i + 1] = g[i] \o u[i + 1]
    <2>1. Len(u) - 1 = n
      BY <1>1, <1>2
    <2> QED
      BY Zenon, <1>2, <1>5, <1>6, <2>1 DEF PartialJoins
  <1> DEFINE T == {i \in 0..n : g[i] = f[i]}
  <1>8. 0 \in T
    BY <1>1, <1>7
  <1>9. ASSUME NEW i \in 0..(n - 1), i \in T PROVE i + 1 \in T
    <2>1. i + 1 \in 1..n /\ i + 1 \in 0..n /\ i \in 0..n
      BY <1>1
    <2>2. g[i + 1] = g[i] \o u[i + 1] /\ f[i + 1] = f[i] \o s[i + 1] /\ g[i] = f[i]
      BY <1>7, <1>9, <2>1
    <2> QED
      BY <1>3, <2>1, <2>2
  <1>10. 0..n \subseteq T
    <2> HIDE DEF T
    <2> QED
      BY <1>1, <1>8, <1>9, BoundedInduction
  <1>11. n \in 0..n
    BY <1>1
  <1>12. g[n + 1] = g[n] \o u[n + 1] /\ g[n] = f[n]
    BY Zenon, <1>7, <1>10, <1>11
  <1> QED
    BY <1>1, <1>3, <1>4, <1>5, <1>6, <1>12 DEF R, n

-----------------------------------------------------------------------------
(* One step of a reader.                                                   *)

LEMMA ParsesStep ==
    ASSUME NEW c, NEW l, NEW t, NEW a, Parses(c, l, t, a)
    PROVE  /\ l \in Words /\ t \in Lists /\ a \in Words
           /\ t = <<>> => l = <<>>
           /\ t # <<>> /\ Head(t) = "nothing" => Parses(c, l, Tail(t), a)
           /\ t # <<>> /\ Head(t) # "nothing" =>
                /\ l # <<>> /\ Head(l).item = Expected(Head(t))
                /\ Head(t) = "callId" => c.cmd # "none" /\ Head(l).val = CallId
                /\ Parses(c, Tail(l), More(c, Head(t), Head(l).val, a) \o Tail(t),
                          Append(a, Head(l)))
                /\ Append(a, Head(l)) \o Tail(l) = a \o l
  <1>1. PICK R : At(l, t, a) \in R /\ Closed(c, R, a \o l)
    BY DEF Parses
  <1> DEFINE x == At(l, t, a)
  <1>2. x.left = l /\ x.list = t /\ x.read = a
    BY DEF At
  <1>3. /\ x \in Reading
        /\ \/ l = <<>> /\ t = <<>>
           \/ t # <<>> /\ Head(t) = "nothing" /\ At(l, Tail(t), a) \in R
           \/ /\ t # <<>> /\ Head(t) # "nothing" /\ l # <<>>
              /\ Head(l).item = Expected(Head(t))
              /\ Head(t) = "callId" => c.cmd # "none" /\ Head(l).val = CallId
              /\ At(Tail(l), More(c, Head(t), Head(l).val, a) \o Tail(t),
                    Append(a, Head(l))) \in R
    <2> HIDE DEF x
    <2>1. x \in R
      BY <1>1 DEF x
    <2> QED
      BY <1>1, <1>2, <2>1 DEF Closed
  <1>4. l \in Words /\ t \in Lists /\ a \in Words
    BY ParsesType
  <1>5. ASSUME t # <<>>, Head(t) = "nothing" PROVE Parses(c, l, Tail(t), a)
    <2>1. At(l, Tail(t), a) \in R
      BY <1>3, <1>5
    <2> QED
      BY <1>1, <2>1 DEF Parses
  <1>6. ASSUME t # <<>>, Head(t) # "nothing"
        PROVE  /\ Parses(c, Tail(l), More(c, Head(t), Head(l).val, a) \o Tail(t),
                         Append(a, Head(l)))
               /\ Append(a, Head(l)) \o Tail(l) = a \o l
    <2> DEFINE m == More(c, Head(t), Head(l).val, a) \o Tail(t)
               b == Append(a, Head(l))
               y == At(Tail(l), m, b)
    <2>1. y \in R
      BY Zenon, <1>3, <1>6
    <2>2. y.left = Tail(l) /\ y.read = b
      BY DEF At
    <2>3. b \o Tail(l) = a \o l
      <3> HIDE DEF y, b
      <3> QED
        BY <1>1, <2>1, <2>2 DEF Closed
    <2> QED
      BY <1>1, <2>1, <2>3 DEF Parses
  <1> QED
    BY <1>3, <1>4, <1>5, <1>6

\* The first word of two parts.
LEMMA HeadOfJoin ==
    ASSUME NEW a \in Words, NEW b \in Words, a # <<>>
    PROVE  /\ a \o b # <<>> /\ Head(a \o b) = Head(a) /\ Tail(a \o b) = Tail(a) \o b
           /\ Head(a) \in Word /\ Tail(a) \in Words
  <1>1. Head(a) \in Word /\ Tail(a) \in Words /\ a = <<Head(a)>> \o Tail(a)
    BY HeadTailProperties DEF Words
  <1> DEFINE h == Head(a)
             t == Tail(a)
  <1> HIDE DEF h, t
  <1>2. <<h>> \in Words /\ t \in Words /\ h \in Word
    BY Zenon, <1>1, One DEF h, t
  <1>3. a \o b = <<h>> \o (t \o b) /\ t \o b \in Words
    <2>1. (<<h>> \o t) \o b = <<h>> \o (t \o b) /\ t \o b \in Words
      BY <1>2, WordsJoin
    <2> QED
      BY Zenon, <1>1, <2>1 DEF h, t
  <1> QED
    BY <1>1, <1>2, <1>3, HeadOfList DEF Words, h, t

\* A word moves from what is still to be sent into the channel.
LEMMA MoveWord ==
    ASSUME NEW a \in Words, NEW b \in Words, b # <<>>
    PROVE  /\ Append(a, Head(b)) \o Tail(b) = a \o b
           /\ Append(a, Head(b)) \in Words /\ Tail(b) \in Words
           /\ Len(Append(a, Head(b))) = Len(a) + 1
           /\ (Tail(b) = <<>>) = (Len(b) = 1)
  <1>1. Head(b) \in Word /\ Tail(b) \in Words /\ b = <<Head(b)>> \o Tail(b)
        /\ Len(Tail(b)) = Len(b) - 1 /\ Len(b) \in Nat
    BY HeadTailProperties, LenProperties DEF Words
  <1>2. Append(a, Head(b)) = a \o <<Head(b)>> /\ Append(a, Head(b)) \in Words
        /\ <<Head(b)>> \in Words
    BY <1>1, One
  <1>3. Associates(a, <<Head(b)>>, Tail(b))
    BY Zenon, <1>1, <1>2, WordsAssociate
  <1>4. Len(Append(a, Head(b))) = Len(a) + 1
    BY Zenon, <1>1, AppendProperties DEF Words
  <1>5. (Tail(b) = <<>>) = (Len(b) = 1)
    <2>1. \A v \in Words : (v = <<>>) = (Len(v) = 0)
      BY EmptySeq DEF Words
    <2>2. (Tail(b) = <<>>) = (Len(Tail(b)) = 0)
      BY Zenon, <1>1, <2>1
    <2>3. (Len(Tail(b)) = 0) = (Len(b) = 1)
      BY <1>1
    <2> QED
      BY Zenon, <2>2, <2>3
  <1>6. Append(a, Head(b)) \o Tail(b) = a \o b
    BY <1>1, <1>2, <1>3 DEF Associates
  <1> QED
    BY <1>1, <1>2, <1>4, <1>5, <1>6

-----------------------------------------------------------------------------
(* The inductive invariant.                                                *)

\* The version is one that the swapped halves do not change, or is not asked
\* for.
OneVersion == EglVersion[1] = EglVersion[2] \/ \A c \in AppCalls : c.cmd # "eglInitialize"

\* GL_ARRAY_BUFFER after command e, and after all that the client has begun.
After(e) == IF e.cmd = "glBindBuffer" THEN Val(e.args, "buffer") ELSE e.gl
Fin == IF cpc = "sending" /\ call.cmd = "glBindBuffer" THEN call.buffer ELSE bound

Sane ==
    /\ callChanel \in Words /\ returnChanel \in Words /\ out \in Words
    /\ args \in Words /\ replies \in Words /\ todo \in Lists /\ wants \in Lists
    /\ Len(callChanel) <= Capacity /\ Len(returnChanel) <= Capacity
    /\ cpc \in {"idle", "sending", "receiving"}
    /\ (cpc = "sending") = (out # <<>>)
    /\ cpc = "receiving" => wants # <<>>
    /\ cpc # "idle" => call \in AppCalls /\ call.cmd \in DOMAIN Calls
    /\ AttribsOK
    /\ bound \in buffers \cup {0}
    /\ scmd \in DOMAIN Calls \cup {"none", "answering"}
    /\ (replies # <<>>) = (scmd = "answering")

\* The commands in Q are such as handlers understand.
Queued(Q) == Q \in Commands /\ \A k \in 1..Len(Q) : Understood(Q[k].cmd, Q[k].args)

\* Each of them finds the buffer bound that was bound when it was issued.
Linked(Q) ==
    /\ glBound = IF Q = <<>> THEN Fin ELSE Q[1].gl
    /\ \A k \in 1..(Len(Q) - 1) : Q[k + 1].gl = After(Q[k])
    /\ Q # <<>> => After(Q[Len(Q)]) = Fin
    /\ \A k \in 1..Len(Q) : Q[k].gl \in buffers \cup {0}

\* The handler has read args of its command's words, and rest is what is left
\* of them.
Within(Q, rest) ==
    \/ \E list \in Lists :
         /\ args = <<>> /\ todo = <<"callId">> \o list
         /\ rest = <<W("callId", CallId)>> \o Q[1].args
         /\ Parses(NoCall, Q[1].args, list, <<>>)
    \/ args \o rest = Q[1].args /\ Parses(NoCall, rest, todo, args)

\* The words on their way to the server are those of the commands in Q, but
\* for what the handler has read of the first.
Serving(Q) ==
    IF scmd \in {"none", "answering"}
    THEN todo = <<>> /\ args = <<>> /\ callChanel \o out = Stream(Q)
    ELSE /\ Q # <<>> /\ scmd = Q[1].cmd
         /\ \E rest \in Words :
              callChanel \o out = rest \o Stream(Tail(Q)) /\ Within(Q, rest)

Quiet(e) == Calls[e.cmd].receive = <<>>

NoAnswer(Q) ==
    /\ wants = <<>> /\ returnChanel = <<>> /\ replies = <<>>
    /\ \A k \in 1..Len(Q) : Quiet(Q[k])
    /\ OneVersion => got = answer

\* The last command is the one of the function that waits.
Unanswered(Q) ==
    /\ cpc # "idle" /\ wants # <<>> /\ wants = Calls[call.cmd].receive
    /\ Q # <<>> /\ Q[Len(Q)].cmd = call.cmd /\ Says(call, Q[Len(Q)].args)
    /\ \A k \in 1..(Len(Q) - 1) : Quiet(Q[k])
    /\ returnChanel = <<>> /\ replies = <<>> /\ got = <<>> /\ answer = <<>>

\* What is on its way to the client is what it has still to read.
Answered(Q) ==
    /\ cpc = "receiving" /\ Q = <<>>
    /\ Parses(call, returnChanel \o replies, wants, got)
    /\ OneVersion => got \o (returnChanel \o replies) = answer

Waiting(Q) == NoAnswer(Q) \/ Unanswered(Q) \/ Answered(Q)

Queue(Q) == Queued(Q) /\ Linked(Q) /\ Serving(Q) /\ Waiting(Q)

LEMMA NoneOfCalls ==
    "none" \notin DOMAIN Calls /\ "answering" \notin DOMAIN Calls
    /\ \A c \in AppCalls : c.cmd \in DOMAIN Calls => c.cmd # "none"
  BY CallsListed DEF Listed, SentListed

LEMMA InitSane ==
    ASSUME Init
    PROVE  Sane
  <1>1. <<>> \in Words /\ <<>> \in Lists /\ Len(<<>>) = 0 /\ Capacity \in Nat
    BY Empty, EglGlesAssumption
  <1>2. AttribsOK
    BY Zenon DEF Init, AttribsOK
  <1> QED
    BY <1>1, <1>2 DEF Init, Sane

LEMMA InitQueue ==
    ASSUME Init
    PROVE  Queue(<<>>)
  <1>1. <<>> \in Commands /\ Len(<<>>) = 0 /\ <<>> \o <<>> = <<>>
    BY Empty DEF Commands
  <1>2. Queued(<<>>)
    BY <1>1 DEF Queued
  <1>3. Linked(<<>>)
    BY <1>1 DEF Linked, Init, Fin
  <1>4. Serving(<<>>)
    BY <1>1, StreamNone DEF Serving, Init
  <1>5. NoAnswer(<<>>)
    BY <1>1 DEF NoAnswer, Init
  <1> QED
    BY <1>2, <1>3, <1>4, <1>5 DEF Queue, Waiting

-----------------------------------------------------------------------------
(* What follows from it.                                                   *)

\* With no command on its way, the client sends none.
LEMMA NoneSent ==
    ASSUME Sane, callChanel \o out = <<>>
    PROVE  callChanel = <<>> /\ out = <<>> /\ cpc # "sending"
  <1>1. callChanel \in Words /\ out \in Words /\ (cpc = "sending") = (out # <<>>)
    BY DEF Sane
  <1>2. callChanel = <<>>
    BY Zenon, <1>1, HeadOfJoin
  <1> QED
    BY <1>1, <1>2, Empty

LEMMA BoundThere ==
    ASSUME Sane, NEW Q, Queue(Q)
    PROVE  glBound \in buffers \cup {0}
  <1>1. CASE Q = <<>>
    <2>1. callChanel \o out = <<>>
      BY Zenon, <1>1, StreamNone DEF Queue, Serving
    <2>2. Fin = bound
      BY Zenon, <2>1, NoneSent DEF Fin
    <2> QED
      BY <1>1, <2>2 DEF Queue, Linked, Sane
  <1>2. CASE Q # <<>>
    <2>1. 1 \in 1..Len(Q)
      <3>1. Q \in Commands
        BY Zenon DEF Queue, Queued
      <3> QED
        BY <1>2, <3>1, StreamFirst
    <2> QED
      BY <1>2, <2>1 DEF Queue, Linked
  <1> QED
    BY <1>1, <1>2

LEMMA TypeFollows ==
    ASSUME Sane, NEW Q, Queue(Q)
    PROVE  TypeOK
  <1>1. Enabled \subseteq 0..(NumAttribs - 1)
    BY Zenon DEF Enabled
  <1> QED
    BY Zenon, <1>1, BoundThere DEF Sane, TypeOK, AttribsOK

\* Between two commands the first word is the next command's.
LEMMA FirstWord ==
    ASSUME Sane, NEW Q, Queue(Q), callChanel # <<>>, scmd \in {"none", "answering"}
    PROVE  /\ Q # <<>> /\ Q[1] \in Command /\ Head(callChanel) = W("cmd", Q[1].cmd)
           /\ Tail(callChanel) \o out
                = (<<W("callId", CallId)>> \o Q[1].args) \o Stream(Tail(Q))
           /\ <<W("callId", CallId)>> \o Q[1].args \in Words
  <1>1. callChanel \in Words /\ out \in Words /\ Q \in Commands
    BY DEF Sane, Queue, Queued
  <1>2. callChanel \o out = Stream(Q)
    BY DEF Queue, Serving
  <1>3. Q # <<>>
    BY <1>1, <1>2, StreamNone, HeadOfJoin
  <1> DEFINE u == Sent(Q[1])
             x == W("cmd", Q[1].cmd)
             v == Stream(Tail(Q))
             y == <<W("callId", CallId)>> \o Q[1].args
  <1>4. Stream(Q) = u \o v /\ Q[1] \in Command /\ v \in Words
    BY Zenon, <1>1, <1>3, StreamFirst, StreamWords
  <1>5. u \in Words /\ u # <<>> /\ u = <<x>> \o y /\ x \in Word /\ y \in Words
    BY Zenon, <1>4, SentWords
  <1>6. callChanel \o out = u \o v
    BY Zenon, <1>2, <1>4
  <1> HIDE DEF u, x, v, y
  <1>7. Head(u) = x /\ Tail(u) = y
    BY <1>5, HeadOfList DEF Words
  <1>8. Head(callChanel) = Head(u) /\ Tail(callChanel) \o out = Tail(u) \o v
    <2>1. Head(callChanel \o out) = Head(callChanel)
          /\ Tail(callChanel \o out) = Tail(callChanel) \o out
      BY <1>1, HeadOfJoin
    <2>2. Head(u \o v) = Head(u) /\ Tail(u \o v) = Tail(u) \o v
      BY <1>4, <1>5, HeadOfJoin
    <2> QED
      BY <1>6, <2>1, <2>2
  <1> QED
    BY <1>3, <1>4, <1>5, <1>7, <1>8 DEF x, v, y

LEMMA CallFramed ==
    ASSUME Sane, NEW Q, Queue(Q), callChanel # <<>>
    PROVE  \/ todo = <<>> /\ (scmd = "none" => Head(callChanel).item = "cmd")
           \/ todo # <<>> /\ Head(todo) = "nothing"
           \/ todo # <<>> /\ Head(callChanel).item = Expected(Head(todo))
  <1>0. callChanel \in Words /\ out \in Words /\ Q \in Commands
    BY Zenon DEF Sane, Queue, Queued
  <1>1. CASE scmd \in {"none", "answering"}
    <2>1. todo = <<>> /\ callChanel \o out = Stream(Q)
      BY Zenon, <1>1 DEF Queue, Serving
    <2> QED
      BY <2>1, FirstWord DEF Queue, W
  <1>2. CASE scmd \notin {"none", "answering"}
    <2>1. PICK rest \in Words : callChanel \o out = rest \o Stream(Tail(Q)) /\ Within(Q, rest)
      BY Zenon, <1>2 DEF Queue, Serving
    <2>2. Q # <<>> /\ Stream(Tail(Q)) \in Words /\ Q[1] \in Command
      BY <1>0, <1>2, StreamFirst, StreamWords DEF Queue, Serving
    <2>3. ASSUME rest # <<>> PROVE Head(callChanel) = Head(rest)
      <3> DEFINE v == Stream(Tail(Q))
      <3>1. callChanel \o out = rest \o v /\ v \in Words
        BY <2>1, <2>2
      <3>2. rest \in Words
        OBVIOUS
      <3> HIDE DEF v
      <3>3. Head(callChanel \o out) = Head(callChanel)
        BY Zenon, <1>0, HeadOfJoin
      <3>4. Head(rest \o v) = Head(rest)
        BY Zenon, <2>3, <3>1, <3>2, HeadOfJoin
      <3> QED
        BY <3>1, <3>3, <3>4
    <2>4. CASE \E list \in Lists :
                 /\ args = <<>> /\ todo = <<"callId">> \o list
                 /\ rest = <<W("callId", CallId)>> \o Q[1].args
                 /\ Parses(NoCall, Q[1].args, list, <<>>)
      <3>1. PICK list \in Lists : todo = <<"callId">> \o list
                                  /\ rest = <<W("callId", CallId)>> \o Q[1].args
        BY Zenon, <2>4
      <3>2. W("callId", CallId) \in Word /\ Q[1].args \in Words /\ "callId" \in Items
        BY <2>2 DEF Command, W, Word, Items, CallId
      <3>3. rest # <<>> /\ Head(rest) = W("callId", CallId)
        BY Zenon, <3>1, <3>2, HeadOfList DEF Words
      <3>4. todo # <<>> /\ Head(todo) = "callId"
        BY Zenon, <3>1, <3>2, HeadOfList DEF Lists
      <3> QED
        BY <2>3, <3>3, <3>4 DEF W, Expected, VarSize
    <2>5. CASE Parses(NoCall, rest, todo, args)
      BY <1>2, <2>3, <2>5, ParsesStep
    <2> QED
      BY <2>1, <2>4, <2>5 DEF Within
  <1> QED
    BY Zenon, <1>1, <1>2

LEMMA ReturnFramed ==
    ASSUME Sane, NEW Q, Queue(Q), returnChanel # <<>>
    PROVE  \/ cpc = "receiving" /\ Head(wants) = "nothing"
           \/ cpc = "receiving" /\ Head(returnChanel).item = Expected(Head(wants))
  <1>1. /\ cpc = "receiving" /\ wants # <<>>
        /\ Parses(call, returnChanel \o replies, wants, got)
    BY DEF Queue, Waiting, NoAnswer, Unanswered, Answered, Sane
  <1>2. Head(returnChanel \o replies) = Head(returnChanel)
    BY HeadOfJoin DEF Sane
  <1>3. Head(wants) = "nothing"
        \/ Head(returnChanel \o replies).item = Expected(Head(wants))
    BY <1>1, ParsesStep
  <1> QED
    BY <1>1, <1>2, <1>3

LEMMA FramedFollows ==
    ASSUME Sane, NEW Q, Queue(Q)
    PROVE  Framed
  BY CallFramed, ReturnFramed DEF Framed

LEMMA ResultFollows ==
    ASSUME Sane, NEW Q, Queue(Q), OneVersion
    PROVE  ResultIsGls
  BY DEF Queue, Waiting, NoAnswer, Unanswered, Answered, ResultIsGls

-----------------------------------------------------------------------------
(* The steps of the client.                                                *)

LEMMA SendWordSane ==
    ASSUME Sane, SendWord
    PROVE  Sane'
  <1>1. cpc = "sending" /\ out \in Words /\ out # <<>> /\ callChanel \in Words
    BY Zenon DEF Sane, SendWord
  <1>2. /\ callChanel' \in Words /\ out' \in Words /\ Len(callChanel') = Len(callChanel) + 1
        /\ (out' = <<>>) = (Len(out) = 1)
    BY <1>1, MoveWord DEF SendWord
  <1>3. Len(callChanel') <= Capacity
    BY <1>1, <1>2, EglGlesAssumption, LenProperties DEF SendWord, Words
  <1>4. call \in AppCalls /\ call.cmd \in DOMAIN Calls
    BY <1>1 DEF Sane
  <1>5. call.cmd = "glBindBuffer" => call.buffer \in Nat
    BY Zenon, <1>4, EglGlesAssumption DEF WellFormed
  <1>6. AttribsOK' /\ bound' \in buffers' \cup {0}
    BY <1>5 DEF Sane, AttribsOK, SendWord
  <1>7. (cpc' = "sending") = (out' # <<>>)
    BY <1>2 DEF SendWord
  <1>8. /\ cpc' \in {"idle", "sending", "receiving"} /\ (cpc' = "receiving" => wants' # <<>>)
        /\ cpc' # "idle" => call' \in AppCalls /\ call'.cmd \in DOMAIN Calls
    BY <1>4 DEF SendWord
  <1>9. UNCHANGED <<returnChanel, args, replies, todo, wants, scmd>>
    BY DEF SendWord, serverVars
  <1> QED
    BY Zenon, <1>2, <1>3, <1>6, <1>7, <1>8, <1>9 DEF Sane

LEMMA SendWordQueue ==
    ASSUME Sane, NEW Q, Queue(Q), SendWord
    PROVE  Queue(Q)'
  <1>1. cpc = "sending" /\ out \in Words /\ out # <<>> /\ callChanel \in Words
    BY Zenon DEF Sane, SendWord
  <1>2. callChanel' \o out' = callChanel \o out /\ (out' = <<>>) = (Len(out) = 1)
    BY <1>1, MoveWord DEF SendWord
  <1>3. UNCHANGED <<returnChanel, wants, got, scmd, todo, args, replies, glBound, answer>>
    BY DEF SendWord, serverVars, history
  <1>4. Queued(Q)'
    BY DEF Queue, Queued
  <1>5. Linked(Q)'
    <2>1. Fin' = Fin /\ buffers \subseteq buffers'
      BY Zenon, <1>1 DEF Fin, SendWord
    <2> QED
      BY <1>3, <2>1 DEF Queue, Linked, After
  <1>6. Serving(Q)'
    BY <1>2, <1>3 DEF Queue, Serving, Within
  <1>7. Waiting(Q)'
    <2>1. CASE NoAnswer(Q)
      BY <1>3, <2>1 DEF Waiting, NoAnswer, Quiet
    <2>2. CASE Unanswered(Q)
      <3>1. cpc' # "idle" /\ call' = call
        BY Zenon, <2>2 DEF Unanswered, SendWord
      <3> QED
        BY Zenon, <1>3, <2>2, <3>1 DEF Waiting, Unanswered, Quiet
    <2>3. CASE Answered(Q)
      BY Zenon, <1>1, <2>3 DEF Answered
    <2> QED
      BY Zenon, <2>1, <2>2, <2>3 DEF Queue, Waiting
  <1> QED
    BY Zenon, <1>4, <1>5, <1>6, <1>7 DEF Queue

\* The command of call c, as it joins the queue.
Issued(c) == [cmd |-> c.cmd, args |-> Arguments(c), gl |-> Fin]

Agreement == \A c \in AppCalls : Agreed(c)

LEMMA IssuedType ==
    ASSUME Sane, cpc = "idle", NEW c \in AppCalls, Agreed(c), c.cmd \in DOMAIN Calls
    PROVE  /\ Issued(c) \in Command /\ Understood(c.cmd, Arguments(c))
           /\ Says(c, Arguments(c)) /\ Fin = bound
           /\ Sent(Issued(c)) = <<W("cmd", c.cmd), W("callId", CallId)>> \o Arguments(c)
           /\ Sent(Issued(c)) \in Words /\ Sent(Issued(c)) # <<>>
  <1>1. AttribsOK /\ Fin = bound /\ bound \in Nat
    BY DEF Sane, Fin, AttribsOK
  <1>2. Understood(c.cmd, Arguments(c)) /\ Says(c, Arguments(c))
    BY <1>1, ArgumentsRead, ArgumentsSay
  <1>3. Arguments(c) \in Words
    BY <1>2 DEF Understood
  <1>4. Issued(c) \in Command
    BY Zenon, <1>1, <1>3 DEF Issued, Command
  <1>5. Sent(Issued(c)) = <<W("cmd", c.cmd), W("callId", CallId)>> \o Arguments(c)
    BY DEF Sent, Issued
  <1> QED
    BY <1>1, <1>2, <1>4, <1>5, SentWords

LEMMA IssueSane ==
    ASSUME Sane, NEW c \in AppCalls, Agreed(c), Issue(c)
    PROVE  Sane'
  <1>1. cpc = "idle" /\ c.cmd \in DOMAIN Calls /\ call' = c /\ cpc' = "sending"
    BY Zenon DEF Issue
  <1>2. out' \in Words /\ out' # <<>>
    BY <1>1, IssuedType DEF Issue
  <1>3. wants' \in Lists
    <2>1. AnsweredAsReceived(c.cmd, Calls[c.cmd], eglGlesJumpTable[c.cmd])
      BY Zenon, <1>1, TablesAgree DEF Agree
    <2> DEFINE k == Calls[c.cmd].receive
    <2>2. k = <<>> \/ (\E s \in Seq(Ordinary) : k = <<"callId">> \o s)
          \/ k = <<"callId", "status", "numConfig">> \/ k = <<"callId", "logLength">>
          \/ k = <<"callId">>
      BY Zenon, <2>1 DEF AnsweredAsReceived
    <2> HIDE DEF k
    <2>3. ASSUME NEW s \in Seq(Ordinary) PROVE <<"callId">> \o s \in Lists
      <3>1. s \in Seq(Items) /\ "callId" \in Items
        BY SeqMonotonic DEF Ordinary, Plain, Items, VarSize
      <3> QED
        BY <3>1, HeadOfList DEF Lists
    <2>4. <<>> \in Lists /\ <<"callId", "status", "numConfig">> \in Lists
          /\ <<"callId", "logLength">> \in Lists /\ <<"callId">> \in Lists
      BY DEF Lists, Items
    <2>5. k \in Lists
      BY <2>2, <2>3, <2>4
    <2> QED
      BY <2>5 DEF Issue, k
  <1>4. UNCHANGED <<callChanel, returnChanel, attribs, buffers, bound, args, replies, todo, scmd>>
    BY DEF Issue, serverVars
  <1> QED
    BY <1>1, <1>2, <1>3, <1>4 DEF Sane, AttribsOK

LEMMA IssueQueue ==
    ASSUME Sane, NEW Q, Queue(Q), NEW c \in AppCalls, Agreed(c), Issue(c),
           NEW R, R = Append(Q, Issued(c))
    PROVE  Queue(R)'
  <1> DEFINE e == Issued(c)
             n == Len(Q)
  <1>1. cpc = "idle" /\ c.cmd \in DOMAIN Calls /\ call' = c /\ cpc' = "sending" /\ out = <<>>
    BY DEF Issue, Sane
  <1>2. /\ e \in Command /\ Understood(e.cmd, e.args) /\ Says(c, e.args)
        /\ Fin = bound /\ out' = Sent(e) /\ e.cmd = c.cmd /\ e.gl = bound
    <2>1. e.cmd = c.cmd /\ e.args = Arguments(c) /\ e.gl = Fin
      BY DEF Issued
    <2>2. out' = <<W("cmd", c.cmd), W("callId", CallId)>> \o Arguments(c)
      BY DEF Issue
    <2> HIDE DEF e
    <2> QED
      BY Zenon, <1>1, <2>1, <2>2, IssuedType DEF e
  <1>3. UNCHANGED <<callChanel, returnChanel, attribs, buffers, bound, args, replies, todo,
                    scmd, glBound>>
    BY Zenon DEF Issue, serverVars
  <1>4. Q \in Commands /\ NoAnswer(Q)
    BY Zenon, <1>1 DEF Queue, Queued, Waiting, Unanswered, Answered
  <1>5. /\ Stream(R) = Stream(Q) \o Sent(e) /\ R \in Commands /\ R # <<>> /\ Len(R) = n + 1
        /\ R[n + 1] = e /\ (\A k \in 1..n : R[k] = Q[k]) /\ n \in Nat
    BY <1>2, <1>4, StreamLast DEF e
  <1>6. Queued(R)'
    BY <1>2, <1>5 DEF Queue, Queued
  <1>7. Linked(R)'
    <2>1. Fin' = After(e)
      BY <1>1, <1>2, <1>3 DEF Fin, After, Says
    <2>2. glBound' = R[1].gl
      <3>1. CASE Q = <<>>
        BY <1>2, <1>3, <1>5, <3>1 DEF Queue, Linked
      <3>2. CASE Q # <<>>
        <4>1. 1 \in 1..n
          BY <1>4, <3>2, StreamFirst
        <4> QED
          BY Zenon, <1>3, <1>5, <3>2, <4>1 DEF Queue, Linked
      <3> QED
        BY Zenon, <3>1, <3>2
    <2>3. ASSUME NEW k \in 1..(Len(R) - 1) PROVE R[k + 1].gl = After(R[k])
      <3>1. k \in 1..n /\ R[k] = Q[k]
        BY <1>5
      <3>2. CASE k = n
        <4>1. Q # <<>> /\ After(Q[n]) = Fin
          BY <1>5, <3>1, <3>2 DEF Queue, Linked
        <4> QED
          BY Zenon, <1>2, <1>5, <3>1, <3>2, <4>1
      <3>3. CASE k # n
        <4>1. k \in 1..(n - 1) /\ k + 1 \in 1..n
          BY <1>5, <3>1, <3>3
        <4> QED
          BY Zenon, <1>5, <3>1, <4>1 DEF Queue, Linked
      <3> QED
        BY Zenon, <3>2, <3>3
    <2>4. ASSUME NEW k \in 1..Len(R) PROVE R[k].gl \in buffers' \cup {0}
      <3>1. CASE k = n + 1
        BY Zenon, <1>2, <1>3, <1>5, <3>1 DEF Sane
      <3>2. CASE k \in 1..n
        BY Zenon, <1>3, <1>5, <3>2 DEF Queue, Linked
      <3> QED
        BY <1>5, <3>1, <3>2
    <2>5. After(R[Len(R)]) = Fin'
      BY Zenon, <1>5, <2>1
    <2> QED
      BY Zenon, <1>5, <2>2, <2>3, <2>4, <2>5 DEF Linked, After
  <1>8. Serving(R)'
    <2>1. callChanel \in Words /\ callChanel \o out = callChanel
      BY Zenon, <1>1, Empty DEF Sane
    <2>2. Stream(Q) \in Words /\ Sent(e) \in Words
      BY <1>2, <1>4, StreamWords, SentWords
    <2>3. CASE scmd \in {"none", "answering"}
      <3>1. todo = <<>> /\ args = <<>> /\ callChanel = Stream(Q)
        BY Zenon, <2>1, <2>3 DEF Queue, Serving
      <3> QED
        BY Zenon, <1>2, <1>3, <1>5, <2>3, <3>1 DEF Serving
    <2>4. CASE scmd \notin {"none", "answering"}
      <3>1. PICK rest \in Words :
               callChanel = rest \o Stream(Tail(Q)) /\ Within(Q, rest)
        BY Zenon, <2>1, <2>4 DEF Queue, Serving
      <3>2. Q # <<>> /\ scmd = Q[1].cmd
        BY <2>4 DEF Queue, Serving
      <3>3. R[1] = Q[1]
        <4>1. 1 \in 1..n
          BY <1>4, <3>2, StreamFirst
        <4> QED
          BY Zenon, <1>5, <4>1
      <3>4. Stream(Tail(R)) = Stream(Tail(Q)) \o Sent(e) /\ Stream(Tail(Q)) \in Words
        <4>1. Tail(R) = Append(Tail(Q), e) /\ Tail(Q) \in Commands
          BY <1>2, <1>4, <3>2, AppendProperties, HeadTailProperties DEF Commands, e
        <4> QED
          BY <1>2, <4>1, StreamLast, StreamWords
      <3>5. callChanel' \o out' = rest \o Stream(Tail(R))
        <4>1. Associates(rest, Stream(Tail(Q)), Sent(e))
          BY Zenon, <2>2, <3>4, WordsAssociate
        <4> QED
          BY <1>2, <1>3, <3>1, <3>4, <4>1 DEF Associates
      <3>6. Within(R, rest)'
        BY <1>3, <3>1, <3>3 DEF Within
      <3>7. scmd' = R[1].cmd /\ scmd' \notin {"none", "answering"}
        BY <1>3, <2>4, <3>2, <3>3
      <3> QED
        BY <1>5, <3>5, <3>6, <3>7 DEF Serving
    <2> QED
      BY Zenon, <2>3, <2>4
  <1>9. Waiting(R)'
    <2>1. got' = <<>> /\ answer' = <<>> /\ wants' = Calls[c.cmd].receive
      BY Zenon DEF Issue
    <2>2. \A k \in 1..n : Quiet(R[k])
      BY Zenon, <1>4, <1>5 DEF NoAnswer
    <2>3. returnChanel' = <<>> /\ replies' = <<>>
      BY <1>3, <1>4 DEF NoAnswer
    <2>4. CASE wants' = <<>>
      <3>1. Quiet(R[n + 1])
        BY <1>2, <1>5, <2>1, <2>4 DEF Quiet
      <3>2. \A k \in 1..Len(R) : k \in 1..n \/ k = n + 1
        BY <1>5
      <3>3. \A k \in 1..Len(R) : Quiet(R[k])
        BY Zenon, <2>2, <3>1, <3>2
      <3> QED
        BY Zenon, <2>1, <2>3, <2>4, <3>3 DEF Waiting, NoAnswer, Quiet
    <2>5. CASE wants' # <<>>
      <3>1. R[Len(R)] = e /\ \A k \in 1..(Len(R) - 1) : Quiet(R[k])
        BY <1>5, <2>2
      <3>2. cpc' # "idle" /\ wants' = Calls[call'.cmd].receive /\ R[Len(R)].cmd = call'.cmd
            /\ Says(call', R[Len(R)].args)
        BY Zenon, <1>1, <1>2, <2>1, <3>1
      <3> QED
        BY Zenon, <1>5, <2>1, <2>3, <2>5, <3>1, <3>2 DEF Waiting, Unanswered, Quiet
    <2> QED
      BY <2>4, <2>5
  <1> QED
    BY <1>6, <1>7, <1>8, <1>9 DEF Queue

LEMMA PointerKeeps ==
    ASSUME Sane, NEW Q, Queue(Q), NEW c \in AppCalls,
           VertexAttribPointer(c) \/ EnableVertexAttribArray(c)
    PROVE  Sane' /\ Queue(Q)'
  <1>1. UNCHANGED <<callChanel, returnChanel, cpc, call, out, wants, got, buffers, bound,
                    scmd, todo, args, replies, glBound, answer>>
    BY Zenon DEF VertexAttribPointer, EnableVertexAttribArray, serverVars, history
  <1>2. AttribsOK'
    <2>1. bound \in Nat
      BY DEF Sane, AttribsOK
    <2>2. c.index \in 0..(NumAttribs - 1)
      <3>1. c.cmd \in {"glVertexAttribPointer", "glEnableVertexAttribArray"}
        BY Zenon DEF VertexAttribPointer, EnableVertexAttribArray
      <3> QED
        BY Zenon, <3>1, EglGlesAssumption DEF WellFormed
    <2>3. c.index \in Nat
      BY <2>2, EglGlesAssumption
    <2>4. CASE VertexAttribPointer(c)
      BY <2>1, <2>2, <2>3, <2>4 DEF VertexAttribPointer, Sane, AttribsOK
    <2>5. CASE EnableVertexAttribArray(c)
      <3> DEFINE A == [enabled : BOOLEAN, index : Nat, ptr : {0, 1}, buffer : Nat]
      <3>1. attribs \in [0..(NumAttribs - 1) -> A] /\ buffers \subseteq Nat
        BY Zenon DEF Sane, AttribsOK
      <3>2. attribs' = [attribs EXCEPT ![c.index].enabled = TRUE] /\ buffers' = buffers
        BY Zenon, <2>5 DEF EnableVertexAttribArray
      <3>3. ASSUME NEW x \in A PROVE [x EXCEPT !.enabled = TRUE] \in A
        OBVIOUS
      <3> HIDE DEF A
      <3>4. attribs' \in [0..(NumAttribs - 1) -> A]
        BY Zenon, <2>2, <3>1, <3>2, <3>3
      <3> QED
        BY Zenon, <3>1, <3>2, <3>4 DEF A, AttribsOK
    <2> QED
      BY Zenon, <2>4, <2>5
  <1>3. Sane'
    BY Zenon, <1>1, <1>2 DEF Sane
  <1>4. Linked(Q)' /\ Serving(Q)'
    BY <1>1 DEF Queue, Linked, After, Fin, Serving, Within
  <1>5. NoAnswer(Q)' = NoAnswer(Q) /\ Unanswered(Q)' = Unanswered(Q)
        /\ Answered(Q)' = Answered(Q)
    BY <1>1 DEF NoAnswer, Unanswered, Answered, Quiet
  <1> QED
    BY Zenon, <1>3, <1>4, <1>5 DEF Queue, Queued, Waiting

\* What the client has read, and what it has still to read, after one step.
LEMMA ClientReads ==
    ASSUME Sane, NEW Q, Queue(Q), ReceiveWord
    PROVE  /\ Q = <<>> /\ call' = (IF wants' = <<>> THEN NoCall ELSE call)
           /\ wants' \in Lists /\ returnChanel' \in Words
           /\ Len(returnChanel') <= Len(returnChanel)
           /\ Parses(call, returnChanel' \o replies, wants', got')
           /\ got' \o (returnChanel' \o replies) = got \o (returnChanel \o replies)
           /\ OneVersion => got \o (returnChanel \o replies) = answer
  <1> DEFINE whole == returnChanel \o replies
             h == Head(wants)
             w == Head(returnChanel)
  <1>1. cpc = "receiving" /\ returnChanel # <<>> /\ wants # <<>>
    BY DEF ReceiveWord, Sane
  <1>2. Answered(Q)
    BY <1>1 DEF Queue, Waiting, NoAnswer, Unanswered
  <1>3. /\ returnChanel \in Words /\ replies \in Words /\ call \in AppCalls
        /\ call.cmd \in DOMAIN Calls /\ call.cmd # "none"
    BY <1>1, NoneOfCalls DEF Sane
  <1>4. Head(whole) = w /\ Tail(whole) = Tail(returnChanel) \o replies /\ w \in Word
        /\ Tail(returnChanel) \in Words
    BY Zenon, <1>1, <1>3, HeadOfJoin
  <1>5. Parses(call, whole, wants, got) /\ (OneVersion => got \o whole = answer)
    BY <1>2 DEF Answered
  <1> HIDE DEF whole
  <1>6. CASE h = "nothing"
    <2>1. wants' = Tail(wants) /\ UNCHANGED <<returnChanel, got>>
      BY Zenon, <1>6 DEF ReceiveWord
    <2>2. Parses(call, whole, Tail(wants), got)
      BY <1>1, <1>5, <1>6, ParsesStep
    <2>3. Tail(wants) \in Lists
      BY <2>2, ParsesType
    <2>4. Len(returnChanel') <= Len(returnChanel)
      BY <1>3, <2>1, LenProperties DEF Words
    <2> QED
      BY Zenon, <1>2, <1>3, <1>5, <2>1, <2>2, <2>3, <2>4 DEF whole, ReceiveWord, Answered
  <1>7. CASE h # "nothing"
    <2> DEFINE more == More(call, h, w.val, got)
    <2>1. /\ w.item = Expected(h)
          /\ Parses(call, Tail(whole), more \o Tail(wants), Append(got, w))
          /\ Append(got, w) \o Tail(whole) = got \o whole
      <3> DEFINE v == Head(whole)
      <3>1. /\ v.item = Expected(h)
            /\ Parses(call, Tail(whole), More(call, h, v.val, got) \o Tail(wants),
                      Append(got, v))
            /\ Append(got, v) \o Tail(whole) = got \o whole
        <4> HIDE DEF more, w
        <4>1. Head(whole).item = Expected(Head(wants))
          BY <1>1, <1>5, <1>7, ParsesStep
        <4>2. Parses(call, Tail(whole),
                     More(call, Head(wants), Head(whole).val, got) \o Tail(wants),
                     Append(got, Head(whole)))
          BY <1>1, <1>5, <1>7, ParsesStep
        <4>3. Append(got, Head(whole)) \o Tail(whole) = got \o whole
          <5>1. whole # <<>>
            BY <1>1, <1>5, <1>7, ParsesStep
          <5>2. whole \in Words /\ got \in Words
            BY <1>5, ParsesType
          <5> QED
            BY <5>1, <5>2, MoveWord
        <4> QED
          BY <4>1, <4>2, <4>3
      <3>2. v = w
        BY <1>4
      <3> HIDE DEF v, w
      <3> QED
        BY <3>1, <3>2
    <2>2. W(Expected(h), w.val) = w
      BY Zenon, <1>4, <2>1 DEF W, Word
    <2>3. more = IF h \in VarSize THEN Copies(w.val, "element")
                 ELSE ClientReadsMore(call, h, w.val)
      BY Zenon, <1>3 DEF More
    <2>4. /\ returnChanel' = Tail(returnChanel) /\ wants' = more \o Tail(wants)
          /\ got' = Append(got, w)
      BY <1>7, <2>2, <2>3 DEF ReceiveWord
    <2>5. more \o Tail(wants) \in Lists
      BY <2>1, ParsesType
    <2>6. Len(Tail(returnChanel)) <= Len(returnChanel)
      BY <1>1, <1>3, HeadTailProperties, LenProperties DEF Words
    <2>7. returnChanel' \o replies = Tail(whole)
      BY <1>4, <2>4
    <2> HIDE DEF more, w
    <2>8. Parses(call, returnChanel' \o replies, wants', got')
      BY <2>1, <2>4, <2>7
    <2>9. got' \o (returnChanel' \o replies) = got \o (returnChanel \o replies)
      BY <2>1, <2>4, <2>7 DEF whole
    <2>10. Q = <<>> /\ call' = (IF wants' = <<>> THEN NoCall ELSE call)
      BY <1>2 DEF ReceiveWord, Answered
    <2> QED
      BY <1>4, <1>5, <2>4, <2>5, <2>6, <2>8, <2>9, <2>10 DEF whole
  <1> QED
    BY <1>6, <1>7

LEMMA ReceiveWordSane ==
    ASSUME Sane, NEW Q, Queue(Q), ReceiveWord
    PROVE  Sane'
  <1>1. /\ wants' \in Lists /\ returnChanel' \in Words
        /\ Len(returnChanel') <= Len(returnChanel)
        /\ call' = (IF wants' = <<>> THEN NoCall ELSE call)
    BY ClientReads
  <1>2. Len(returnChanel') <= Capacity
    BY <1>1, EglGlesAssumption, LenProperties DEF Sane, Words
  <1>3. /\ cpc = "receiving" /\ cpc' = (IF wants' = <<>> THEN "idle" ELSE "receiving")
        /\ UNCHANGED <<callChanel, out, attribs, buffers, bound, args, replies, todo, scmd>>
    BY DEF ReceiveWord, serverVars
  <1> QED
    BY Zenon, <1>1, <1>2, <1>3 DEF Sane, AttribsOK

LEMMA ReceiveWordQueue ==
    ASSUME Sane, NEW Q, Queue(Q), ReceiveWord
    PROVE  Queue(Q)'
  <1>1. /\ cpc = "receiving" /\ cpc' = (IF wants' = <<>> THEN "idle" ELSE "receiving")
        /\ UNCHANGED <<callChanel, out, buffers, bound, args, replies, todo, scmd,
                       glBound, answer>>
    BY Zenon DEF ReceiveWord, serverVars, history
  <1>2. Linked(Q)' /\ Serving(Q)'
    <2>1. Fin' = Fin
      BY <1>1 DEF Fin
    <2> QED
      BY <1>1, <2>1 DEF Queue, Linked, After, Serving, Within
  <1>3. Waiting(Q)'
    <2>1. /\ Q = <<>> /\ call' = (IF wants' = <<>> THEN NoCall ELSE call)
          /\ Parses(call, returnChanel' \o replies, wants', got')
          /\ OneVersion => got' \o (returnChanel' \o replies) = answer
          /\ returnChanel' \in Words
      BY ClientReads
    <2>2. CASE wants' = <<>>
      <3>1. returnChanel' \o replies = <<>> /\ got' \in Words
        BY <2>1, <2>2, ParsesStep
      <3>2. replies \in Words
        BY DEF Sane
      <3>3. returnChanel' = <<>>
        BY <2>1, <3>1, <3>2, HeadOfJoin
      <3>4. replies = <<>>
        BY Zenon, <3>1, <3>2, <3>3, Empty
      <3>5. OneVersion => got' = answer
        BY Zenon, <2>1, <3>1, Empty
      <3>6. Len(Q) = 0
        BY Zenon, <2>1
      <3> QED
        BY <1>1, <2>2, <3>3, <3>4, <3>5, <3>6 DEF Waiting, NoAnswer, Quiet
    <2>3. CASE wants' # <<>>
      <3>1. call' = call /\ cpc' = "receiving" /\ replies' = replies /\ answer' = answer
        BY Zenon, <1>1, <2>1, <2>3
      <3> QED
        BY Zenon, <2>1, <3>1 DEF Waiting, Answered
    <2> QED
      BY <2>2, <2>3
  <1> QED
    BY Zenon, <1>2, <1>3 DEF Queue, Queued

-----------------------------------------------------------------------------
(* The steps of the server.                                                *)

LEMMA DispatchKeeps ==
    ASSUME Sane, NEW Q, Queue(Q), Dispatch
    PROVE  Sane' /\ Queue(Q)'
  <1>1. scmd = "none" /\ callChanel # <<>> /\ callChanel \in Words /\ Q \in Commands
    BY Zenon DEF Dispatch, Sane, Queue, Queued
  <1>2. UNCHANGED <<returnChanel, cpc, call, out, wants, got, attribs, buffers, bound,
                    args, replies, glBound, answer>>
    BY Zenon DEF Dispatch, clientVars, history
  <1> DEFINE rest == <<W("callId", CallId)>> \o Q[1].args
  <1>3. /\ Q # <<>> /\ Q[1] \in Command /\ Head(callChanel) = W("cmd", Q[1].cmd)
        /\ Tail(callChanel) \o out = rest \o Stream(Tail(Q)) /\ rest \in Words
    BY <1>1, FirstWord
  <1>4. scmd' = Q[1].cmd /\ scmd' \in DOMAIN Calls /\ scmd' \in DOMAIN eglGlesJumpTable
    BY <1>3, TablesAgree DEF Dispatch, W, Command, Agree
  <1>5. PICK list \in Lists : /\ eglGlesJumpTable[scmd'].receive = <<"callId">> \o list
                              /\ Parses(NoCall, Q[1].args, list, <<>>)
    <2>1. 1 \in 1..Len(Q)
      BY <1>1, <1>3, StreamFirst
    <2>2. Understood(Q[1].cmd, Q[1].args)
      BY Zenon, <2>1 DEF Queue, Queued
    <2> QED
      BY Zenon, <1>4, <2>2 DEF Understood
  <1>6. todo' = <<"callId">> \o list /\ callChanel' = Tail(callChanel) /\ args = <<>>
    BY Zenon, <1>1, <1>4, <1>5 DEF Dispatch, Queue, Serving
  <1>7. Sane'
    <2>1. todo' \in Lists
      <3>1. "callId" \in Items
        BY DEF Items
      <3> QED
        BY Zenon, <1>6, <3>1, HeadOfList DEF Lists
    <2>2. callChanel' \in Words /\ Len(callChanel') <= Capacity
      BY <1>1, <1>6, EglGlesAssumption, HeadTailProperties, LenProperties DEF Words, Sane
    <2>3. scmd' # "answering" /\ replies' = <<>>
      BY Zenon, <1>1, <1>2, <1>4, NoneOfCalls DEF Sane
    <2> QED
      BY Zenon, <1>2, <1>4, <2>1, <2>2, <2>3 DEF Sane, AttribsOK
  <1>8. Serving(Q)'
    <2>1. callChanel' \o out' = rest \o Stream(Tail(Q)) /\ args' = <<>>
      BY <1>2, <1>3, <1>6
    <2>2. scmd' \notin {"none", "answering"}
      BY Zenon, <1>4, NoneOfCalls
    <2>3. Within(Q, rest)'
      BY Zenon, <1>5, <1>6, <2>1 DEF Within
    <2> HIDE DEF rest
    <2> QED
      BY <1>3, <1>4, <2>1, <2>2, <2>3 DEF Serving
  <1>9. Linked(Q)'
    BY Zenon, <1>2 DEF Queue, Linked, After, Fin
  <1>10. NoAnswer(Q)' = NoAnswer(Q) /\ Unanswered(Q)' = Unanswered(Q)
         /\ Answered(Q)' = Answered(Q)
    BY ZenonT(40), <1>2 DEF NoAnswer, Unanswered, Answered, Quiet
  <1> QED
    BY Zenon, <1>7, <1>8, <1>9, <1>10 DEF Queue, Queued, Waiting

\* The handler has read one more word of its command, or passed over one it
\* need not read.
LEMMA ServerReads ==
    ASSUME Sane, NEW Q, Queue(Q), Receive
    PROVE  /\ callChanel' \in Words /\ Len(callChanel') <= Len(callChanel)
           /\ todo' \in Lists /\ args' \in Words /\ scmd \notin {"none", "answering"}
           /\ \E rest \in Words :
                callChanel' \o out = rest \o Stream(Tail(Q)) /\ Within(Q, rest)'
  <1> DEFINE h == Head(todo)
             w == Head(callChanel)
             v == Stream(Tail(Q))
  <1>1. todo # <<>> /\ callChanel # <<>> /\ callChanel \in Words /\ out \in Words
        /\ Q \in Commands /\ args \in Words /\ todo \in Lists
    BY DEF Receive, Sane, Queue, Queued
  <1>2. scmd \notin {"none", "answering"} /\ Q # <<>>
    BY Zenon, <1>1 DEF Queue, Serving
  <1>3. PICK rest \in Words : callChanel \o out = rest \o v /\ Within(Q, rest)
    BY Zenon, <1>2 DEF Queue, Serving
  <1>4. v \in Words /\ Q[1] \in Command /\ Q[1].args \in Words
    BY Zenon, <1>1, <1>2, StreamFirst, StreamWords DEF Command
  <1>5. Tail(callChanel) \in Words /\ Len(Tail(callChanel)) <= Len(callChanel)
        /\ Len(callChanel) <= Len(callChanel)
    BY <1>1, HeadTailProperties, LenProperties DEF Words
  <1> HIDE DEF v
  <1>6. CASE \E list \in Lists :
               /\ args = <<>> /\ todo = <<"callId">> \o list
               /\ rest = <<W("callId", CallId)>> \o Q[1].args
               /\ Parses(NoCall, Q[1].args, list, <<>>)
    <2>1. PICK list \in Lists : /\ args = <<>> /\ todo = <<"callId">> \o list
                                /\ rest = <<W("callId", CallId)>> \o Q[1].args
                                /\ Parses(NoCall, Q[1].args, list, <<>>)
      BY Zenon, <1>6
    <2>2. W("callId", CallId) \in Word /\ "callId" \in Items
      BY DEF W, Word, Items, CallId
    <2>3. h = "callId" /\ Tail(todo) = list
      BY Zenon, <2>1, <2>2, HeadOfList DEF Lists
    <2>4. rest # <<>> /\ Tail(rest) = Q[1].args
      BY Zenon, <1>4, <2>1, <2>2, HeadOfList DEF Words
    <2>5. Tail(callChanel) \o out = Q[1].args \o v
      <3>1. Tail(callChanel) \o out = Tail(rest) \o v
        <4>1. Tail(callChanel \o out) = Tail(callChanel) \o out
          BY <1>1, HeadOfJoin
        <4>2. rest \in Words
          OBVIOUS
        <4>3. Tail(rest \o v) = Tail(rest) \o v
          BY Zenon, <1>4, <2>4, <4>2, HeadOfJoin
        <4> QED
          BY <1>3, <4>1, <4>3
      <3> QED
        BY <2>4, <3>1
    <2>6. callChanel' = Tail(callChanel) /\ todo' = <<>> \o list /\ args' = <<>>
      <3>1. ServerReadsMore("callId", w.val, args) = <<>> /\ "callId" \notin VarSize
            /\ "callId" # "nothing"
        BY Zenon DEF ServerReadsMore, VarSize
      <3> QED
        BY <2>1, <2>3, <3>1 DEF Receive
    <2>7. todo' = list /\ <<>> \o Q[1].args = Q[1].args
      BY Zenon, <1>4, <2>6, Empty
    <2>8. Within(Q, Q[1].args)'
      BY Zenon, <2>1, <2>6, <2>7 DEF Within
    <2>9. callChanel' \o out = Q[1].args \o v
      BY <2>5, <2>6
    <2> QED
      BY <1>1, <1>2, <1>4, <1>5, <2>1, <2>6, <2>7, <2>8, <2>9 DEF v
  <1>7. CASE args \o rest = Q[1].args /\ Parses(NoCall, rest, todo, args) /\ h = "nothing"
    <2>1. callChanel' = callChanel /\ todo' = Tail(todo) /\ args' = args
      BY <1>7 DEF Receive
    <2>2. Parses(NoCall, rest, Tail(todo), args)
      BY <1>1, <1>7, ParsesStep
    <2>3. Tail(todo) \in Lists
      BY <2>2, ParsesType
    <2>4. Within(Q, rest)'
      BY Zenon, <1>7, <2>1, <2>2 DEF Within
    <2>5. callChanel' \o out = rest \o v
      BY <1>3, <2>1
    <2> QED
      BY <1>1, <1>2, <1>5, <2>1, <2>3, <2>4, <2>5 DEF v
  <1>8. CASE args \o rest = Q[1].args /\ Parses(NoCall, rest, todo, args) /\ h # "nothing"
    <2> DEFINE m == More(NoCall, h, w.val, args)
    <2>1. rest # <<>>
      BY <1>1, <1>8, ParsesStep
    <2>2. w = Head(rest) /\ Tail(callChanel) \o out = Tail(rest) \o v
          /\ Tail(rest) \in Words /\ w \in Word
      <3>1. rest \in Words /\ callChanel \o out = rest \o v
        BY <1>3
      <3>2. Head(callChanel \o out) = Head(callChanel)
            /\ Tail(callChanel \o out) = Tail(callChanel) \o out
        BY <1>1, HeadOfJoin
      <3>3. Head(rest \o v) = Head(rest) /\ Tail(rest \o v) = Tail(rest) \o v
            /\ Head(rest) \in Word /\ Tail(rest) \in Words
        BY Zenon, <1>4, <2>1, <3>1, HeadOfJoin
      <3> QED
        BY <3>1, <3>2, <3>3
    <2>3. h # "callId"
      BY <1>1, <1>8, ParsesStep DEF NoCall
    <2>4. Head(rest).item = Expected(Head(todo))
      BY <1>1, <1>8, ParsesStep
    <2>5. Parses(NoCall, Tail(rest), More(NoCall, Head(todo), Head(rest).val, args) \o Tail(todo),
                 Append(args, Head(rest)))
      BY <1>1, <1>8, ParsesStep
    <2>6. Append(args, Head(rest)) \o Tail(rest) = args \o rest
      BY <1>1, <1>3, <2>1, MoveWord
    <2>7. w.item = Expected(h) /\ Parses(NoCall, Tail(rest), m \o Tail(todo), Append(args, w))
          /\ Append(args, w) \o Tail(rest) = args \o rest
      <3>1. w = Head(rest)
        BY <2>2
      <3> HIDE DEF w
      <3> QED
        BY <2>4, <2>5, <2>6, <3>1
    <2>8. W(Expected(h), w.val) = w
      BY Zenon, <2>2, <2>7 DEF W, Word
    <2>9. m = IF h \in VarSize THEN Copies(w.val, "element")
              ELSE ServerReadsMore(h, w.val, args)
      BY Zenon DEF More, NoCall
    <2>10. callChanel' = Tail(callChanel) /\ todo' = m \o Tail(todo)
           /\ args' = Append(args, w)
      BY <1>8, <2>3, <2>8, <2>9 DEF Receive
    <2> HIDE DEF m, w
    <2>11. m \o Tail(todo) \in Lists /\ Append(args, w) \in Words
      BY Zenon, <2>7, ParsesType
    <2>12. Within(Q, Tail(rest))'
      BY <1>8, <2>7, <2>10 DEF Within
    <2>13. callChanel' \o out = Tail(rest) \o v
      BY <2>2, <2>10
    <2> QED
      BY <1>2, <1>5, <2>2, <2>10, <2>11, <2>12, <2>13 DEF v
  <1> QED
    BY <1>3, <1>6, <1>7, <1>8 DEF Within

LEMMA ReceiveKeeps ==
    ASSUME Sane, NEW Q, Queue(Q), Receive
    PROVE  Sane' /\ Queue(Q)'
  <1>1. UNCHANGED <<returnChanel, cpc, call, out, wants, got, attribs, buffers, bound,
                    scmd, replies, glBound, answer>>
    BY DEF Receive, clientVars, history
  <1>2. Sane'
    <2>1. /\ callChanel' \in Words /\ Len(callChanel') <= Len(callChanel)
          /\ todo' \in Lists /\ args' \in Words
      BY ServerReads
    <2>2. Len(callChanel') <= Capacity
      BY <2>1, EglGlesAssumption, LenProperties DEF Sane, Words
    <2> QED
      BY Zenon, <1>1, <2>1, <2>2 DEF Sane, AttribsOK
  <1>3. Serving(Q)'
    <2>1. PICK rest \in Words :
             callChanel' \o out = rest \o Stream(Tail(Q)) /\ Within(Q, rest)'
      BY ServerReads
    <2>2. scmd \notin {"none", "answering"} /\ Q # <<>> /\ scmd = Q[1].cmd
      BY ServerReads DEF Queue, Serving
    <2> QED
      BY Zenon, <1>1, <2>1, <2>2 DEF Serving
  <1>4. Linked(Q)'
    BY <1>1 DEF Queue, Linked, After, Fin
  <1>5. NoAnswer(Q)' = NoAnswer(Q) /\ Unanswered(Q)' = Unanswered(Q)
        /\ Answered(Q)' = Answered(Q)
    BY Zenon, <1>1 DEF NoAnswer, Unanswered, Answered, Quiet
  <1> QED
    BY Zenon, <1>2, <1>3, <1>4, <1>5 DEF Queue, Queued, Waiting

LEMMA ReplyWordKeeps ==
    ASSUME Sane, NEW Q, Queue(Q), ReplyWord
    PROVE  Sane' /\ Queue(Q)'
  <1>1. /\ replies # <<>> /\ scmd = "answering" /\ replies \in Words
        /\ returnChanel \in Words
    BY Zenon DEF ReplyWord, Sane
  <1>2. UNCHANGED <<callChanel, cpc, call, out, wants, got, attribs, buffers, bound,
                    todo, args, glBound, answer>>
    BY Zenon DEF ReplyWord, clientVars, history
  <1>3. /\ returnChanel' \o replies' = returnChanel \o replies /\ replies' \in Words
        /\ returnChanel' \in Words /\ Len(returnChanel') = Len(returnChanel) + 1
        /\ (replies' = <<>>) = (Len(replies) = 1)
    BY <1>1, MoveWord DEF ReplyWord
  <1>4. scmd' \in {"none", "answering"} /\ (replies' # <<>>) = (scmd' = "answering")
    BY <1>1, <1>3 DEF ReplyWord
  <1>5. Sane'
    <2>1. Len(returnChanel') <= Capacity
      BY <1>1, <1>3, EglGlesAssumption, LenProperties DEF ReplyWord, Words
    <2> QED
      BY Zenon, <1>2, <1>3, <1>4, <2>1 DEF Sane, AttribsOK
  <1>6. Serving(Q)'
    BY <1>1, <1>2, <1>4 DEF Queue, Serving
  <1>7. Linked(Q)'
    BY <1>2 DEF Queue, Linked, After, Fin
  <1>8. Answered(Q)
    BY Zenon, <1>1 DEF Queue, Waiting, NoAnswer, Unanswered
  <1>9. Answered(Q)'
    BY Zenon, <1>2, <1>3, <1>8 DEF Answered
  <1> QED
    BY <1>5, <1>6, <1>7, <1>9 DEF Queue, Queued, Waiting

\* The handler has its command's arguments, and what follows are the next ones.
LEMMA Executes ==
    ASSUME Sane, NEW Q, Queue(Q), Execute
    PROVE  /\ scmd \in DOMAIN Calls /\ Q # <<>> /\ Q[1] \in Command
           /\ scmd = Q[1].cmd /\ args = Q[1].args
           /\ callChanel \o out = Stream(Tail(Q))
           /\ \E r \in GlResults(scmd, args) :
                /\ replies' = Reply(scmd, args, r)
                /\ answer' = IF replies' = <<>> THEN answer ELSE GlReply(scmd, args, r)
                /\ scmd' = IF replies' = <<>> THEN "none" ELSE "answering"
  <1>1. todo = <<>> /\ scmd \notin {"none", "answering"} /\ scmd \in DOMAIN Calls
        /\ Q \in Commands /\ args \in Words
    BY Zenon DEF Execute, Sane, Queue, Queued
  <1>2. Q # <<>> /\ scmd = Q[1].cmd
    BY Zenon, <1>1 DEF Queue, Serving
  <1>3. Q[1] \in Command /\ Stream(Tail(Q)) \in Words
    BY <1>1, <1>2, StreamFirst, StreamWords
  <1>4. PICK rest \in Words : callChanel \o out = rest \o Stream(Tail(Q)) /\ Within(Q, rest)
    BY <1>1 DEF Queue, Serving
  <1>5. ASSUME NEW list \in Lists PROVE todo # <<"callId">> \o list
    <2>1. "callId" \in Items
      BY DEF Items
    <2>2. <<"callId">> \o list # <<>>
      BY <2>1, HeadOfList DEF Lists
    <2> QED
      BY <1>1, <2>2
  <1>6. args \o rest = Q[1].args /\ Parses(NoCall, rest, todo, args)
    BY Zenon, <1>4, <1>5 DEF Within
  <1>7. rest = <<>>
    BY <1>1, <1>6, ParsesStep
  <1>8. args = Q[1].args /\ callChanel \o out = Stream(Tail(Q))
    BY <1>1, <1>3, <1>4, <1>6, <1>7, Empty
  <1>9. \E r \in GlResults(scmd, args) :
          /\ replies' = Reply(scmd, args, r)
          /\ answer' = IF replies' = <<>> THEN answer ELSE GlReply(scmd, args, r)
          /\ scmd' = IF replies' = <<>> THEN "none" ELSE "answering"
    BY DEF Execute, Reply, GlReply
  <1> QED
    BY Zenon, <1>1, <1>2, <1>3, <1>8, <1>9

\* A handler answers the function that waits, if the command is its.
LEMMA ExecuteReplies ==
    ASSUME Sane, NEW Q, Queue(Q), Execute, Agreement
    PROVE  \/ replies' = <<>> /\ answer' = answer /\ Quiet(Q[1])
           \/ /\ Len(Q) = 1 /\ Unanswered(Q) /\ cpc = "receiving"
              /\ replies' # <<>> /\ replies' \in Words
              /\ Parses(call, replies', wants, <<>>)
              /\ OneVersion => answer' = replies'
  <1>1. /\ scmd \in DOMAIN Calls /\ Q # <<>> /\ Q[1] \in Command /\ Q \in Commands
        /\ scmd = Q[1].cmd /\ args = Q[1].args
        /\ callChanel \o out = Stream(Tail(Q))
    BY Zenon, Executes DEF Queue, Queued
  <1>2. PICK r \in GlResults(scmd, args) :
          /\ replies' = Reply(scmd, args, r)
          /\ answer' = IF replies' = <<>> THEN answer ELSE GlReply(scmd, args, r)
    BY Zenon, Executes
  <1>3. Len(Q) \in Nat \ {0}
    BY Zenon, <1>1, StreamFirst
  <1>4. CASE Quiet(Q[1])
    BY Zenon, <1>1, <1>2, <1>4, SilentReply DEF Quiet
  <1>5. CASE ~ Quiet(Q[1])
    <2>1. Unanswered(Q)
      <3>1. ~ NoAnswer(Q)
        BY <1>3, <1>5 DEF NoAnswer
      <3> QED
        BY Zenon, <1>1, <3>1 DEF Queue, Waiting, Answered
    <2>2. Len(Q) = 1
      <3>1. \A k \in 1..(Len(Q) - 1) : Quiet(Q[k])
        BY <2>1 DEF Unanswered
      <3>2. 1 \notin 1..(Len(Q) - 1)
        BY Zenon, <1>5, <3>1
      <3> QED
        <4>1. \A m \in Nat \ {0} : 1 \notin 1..(m - 1) => m = 1
          OBVIOUS
        <4> QED
          BY Zenon, <1>3, <3>2, <4>1
    <2>3. cpc = "receiving" /\ call \in AppCalls
      <3>1. Tail(Q) = <<>>
        <4>1. Tail(Q) \in Commands /\ Len(Tail(Q)) = 0
          BY <1>1, <2>2, StreamFirst
        <4> QED
          BY <4>1, EmptySeq DEF Commands
      <3>2. callChanel \o out = <<>>
        BY <1>1, <3>1, StreamNone
      <3> QED
        BY Zenon, <2>1, <3>2, NoneSent DEF Sane, Unanswered
    <2>4. scmd = call.cmd /\ Says(call, args) /\ Agreed(call)
          /\ wants = Calls[call.cmd].receive /\ wants # <<>>
      BY <1>1, <2>1, <2>2, <2>3 DEF Unanswered, Agreement
    <2>5. AnswerRead(call, args, r)
      BY <1>1, <2>3, <2>4, AnswersRead
    <2>6. Reply(scmd, args, r) # <<>> /\ Reply(scmd, args, r) \in Words
          /\ Parses(call, Reply(scmd, args, r), wants, <<>>)
      BY Zenon, <2>4, <2>5 DEF AnswerRead
    <2>7. ASSUME OneVersion PROVE answer' = replies'
      <3>1. Locals(scmd, r) = r
        <4>1. CASE scmd # "eglInitialize"
          BY Zenon, <4>1 DEF Locals
        <4>2. CASE scmd = "eglInitialize"
          <5>1. EglVersion[1] = EglVersion[2]
            BY <2>3, <2>4, <2>7, <4>2 DEF OneVersion
          <5>2. r = [major |-> EglVersion[1], minor |-> EglVersion[2]]
            BY <1>2, <4>2 DEF GlResults
          <5> QED
            BY Zenon, <4>2, <5>1, <5>2 DEF Locals
        <4> QED
          BY <4>1, <4>2
      <3> QED
        BY <1>2, <2>6, <3>1 DEF Reply, GlReply
    <2> QED
      BY Zenon, <1>2, <2>1, <2>2, <2>3, <2>6, <2>7
  <1> QED
    BY Zenon, <1>4, <1>5

LEMMA ExecuteSane ==
    ASSUME Sane, NEW Q, Queue(Q), Execute, Agreement
    PROVE  Sane'
  <1>1. UNCHANGED <<callChanel, returnChanel, cpc, call, out, wants, attribs, buffers,
                    bound, todo>> /\ args' = <<>>
    BY Zenon DEF Execute, clientVars
  <1>2. replies' \in Words
    BY ExecuteReplies, Empty
  <1>3. scmd' \in {"none", "answering"} /\ (replies' # <<>>) = (scmd' = "answering")
    BY Executes
  <1>4. args' \in Words
    BY Zenon, <1>1, Empty
  <1> QED
    BY <1>1, <1>2, <1>3, <1>4 DEF Sane, AttribsOK

LEMMA ExecuteQueue ==
    ASSUME Sane, NEW Q, Queue(Q), Execute, Agreement
    PROVE  Queue(Tail(Q))'
  <1> DEFINE R == Tail(Q)
             n == Len(Q)
  <1>1. /\ Q # <<>> /\ Q[1] \in Command /\ Q \in Commands
        /\ scmd = Q[1].cmd /\ args = Q[1].args
        /\ callChanel \o out = Stream(R)
        /\ scmd' \in {"none", "answering"}
    BY Zenon, Executes DEF Queue, Queued
  <1>2. UNCHANGED <<callChanel, returnChanel, cpc, call, out, wants, got, attribs, buffers,
                    bound, todo>> /\ args' = <<>> /\ todo = <<>>
    BY DEF Execute, clientVars
  <1>3. /\ R \in Commands /\ Len(R) = n - 1 /\ n \in Nat \ {0}
        /\ \A k \in 1..(n - 1) : R[k] = Q[k + 1]
    BY <1>1, StreamFirst
  <1>4. R = <<>> <=> n = 1
    <2>1. Len(R) = 0 <=> n = 1
      BY <1>3
    <2>2. R = <<>> <=> Len(R) = 0
      BY <1>3, EmptySeq DEF Commands
    <2> QED
      BY Zenon, <2>1, <2>2
  <1> HIDE DEF R
  <1>5. Queued(R)'
    <2>1. ASSUME NEW k \in 1..Len(R) PROVE Understood(R[k].cmd, R[k].args)
      <3>1. k + 1 \in 1..n /\ R[k] = Q[k + 1]
        BY <1>3
      <3> QED
        BY <3>1 DEF Queue, Queued
    <2> QED
      BY Zenon, <1>3, <2>1 DEF Queued, R
  <1>6. Linked(R)'
    <2>1. glBound' = After(Q[1])
      <3>1. glBound = Q[1].gl
        BY <1>1 DEF Queue, Linked
      <3> QED
        BY Zenon, <1>1, <3>1 DEF Execute, After
    <2>2. Fin' = Fin
      BY <1>2 DEF Fin
    <2>3. glBound' = IF R = <<>> THEN Fin ELSE R[1].gl
      <3>1. CASE R = <<>>
        BY <1>1, <1>4, <2>1, <3>1 DEF Queue, Linked
      <3>2. CASE R # <<>>
        <4>1. 1 \in 1..(n - 1) /\ R[1] = Q[1 + 1]
          BY <1>3, <1>4, <3>2
        <4>2. Q[1 + 1].gl = After(Q[1])
          BY Zenon, <4>1 DEF Queue, Linked
        <4> QED
          BY <2>1, <3>2, <4>1, <4>2
      <3> QED
        BY Zenon, <3>1, <3>2
    <2>4. ASSUME NEW k \in 1..(Len(R) - 1) PROVE R[k + 1].gl = After(R[k])
      <3>1. /\ k + 1 \in 1..(n - 1) /\ R[k] = Q[k + 1] /\ R[k + 1] = Q[(k + 1) + 1]
        BY <1>3
      <3>2. Q[(k + 1) + 1].gl = After(Q[k + 1])
        BY Zenon, <3>1 DEF Queue, Linked
      <3> QED
        BY Zenon, <3>1, <3>2
    <2>5. ASSUME R # <<>> PROVE After(R[Len(R)]) = Fin
      <3>1. n - 1 \in 1..(n - 1) /\ Len(R) = n - 1 /\ (n - 1) + 1 = n
        BY <1>3, <1>4, <2>5
      <3>2. R[Len(R)] = Q[n]
        BY Zenon, <1>3, <3>1
      <3> QED
        BY <1>1, <3>2 DEF Queue, Linked
    <2>6. ASSUME NEW k \in 1..Len(R) PROVE R[k].gl \in buffers \cup {0}
      <3>1. k + 1 \in 1..n /\ R[k] = Q[k + 1]
        BY <1>3
      <3> QED
        BY Zenon, <3>1 DEF Queue, Linked
    <2> QED
      BY Zenon, <1>2, <2>2, <2>3, <2>4, <2>5, <2>6 DEF Linked, After, R
  <1>7. Serving(R)'
    BY Zenon, <1>1, <1>2 DEF Serving, R
  <1>8. Waiting(R)'
    <2>1. returnChanel \in Words
      BY Zenon DEF Sane
    <2>2. CASE replies' = <<>> /\ answer' = answer /\ Quiet(Q[1])
      <3>1. CASE NoAnswer(Q)
        <4>1. ASSUME NEW k \in 1..Len(R) PROVE Quiet(R[k])
          <5>1. k + 1 \in 1..n /\ R[k] = Q[k + 1]
            BY <1>3
          <5> QED
            BY Zenon, <3>1, <5>1 DEF NoAnswer
        <4> QED
          BY Zenon, <1>2, <2>2, <3>1, <4>1 DEF Waiting, NoAnswer, Quiet, R
      <3>2. CASE Unanswered(Q)
        <4>1. n # 1
          BY Zenon, <2>2, <3>2 DEF Unanswered, Quiet
        <4>2. R # <<>> /\ n - 1 \in 1..(n - 1) /\ Len(R) = n - 1 /\ (n - 1) + 1 = n
          BY <1>3, <1>4, <4>1
        <4>3. R[Len(R)] = Q[n]
          BY Zenon, <1>3, <4>2
        <4>4. ASSUME NEW k \in 1..(Len(R) - 1) PROVE Quiet(R[k])
          <5>1. k + 1 \in 1..(n - 1) /\ R[k] = Q[k + 1]
            BY <1>3
          <5> QED
            BY Zenon, <3>2, <5>1 DEF Unanswered
        <4>5. Unanswered(R)'
          BY Zenon, <1>2, <2>2, <3>2, <4>2, <4>3, <4>4 DEF Unanswered, Quiet, R
        <4> QED
          BY <4>5 DEF Waiting
      <3>3. ~ Answered(Q)
        BY <1>1 DEF Answered
      <3> QED
        BY Zenon, <3>1, <3>2, <3>3 DEF Queue, Waiting
    <2>3. CASE /\ n = 1 /\ Unanswered(Q) /\ cpc = "receiving"
               /\ replies' # <<>> /\ replies' \in Words
               /\ Parses(call, replies', wants, <<>>)
               /\ OneVersion => answer' = replies'
      <3>1. R = <<>> /\ returnChanel = <<>> /\ got = <<>>
        BY Zenon, <1>4, <2>3 DEF Unanswered
      <3>2. <<>> \o replies' = replies' /\ <<>> \o (<<>> \o replies') = replies'
        BY <2>3, Empty
      <3>3. Answered(R)'
        BY Zenon, <1>2, <2>3, <3>1, <3>2 DEF Answered, R
      <3> QED
        BY Zenon, <3>3 DEF Waiting
    <2> QED
      BY Zenon, <2>2, <2>3, ExecuteReplies
  <1> QED
    BY <1>5, <1>6, <1>7, <1>8 DEF Queue, R

-----------------------------------------------------------------------------
IInv == Sane /\ \E Q : Queue(Q)

LEMMA Stutters ==
    ASSUME Sane, NEW Q, Queue(Q), UNCHANGED vars
    PROVE  Sane' /\ Queue(Q)'
  <1>1. UNCHANGED <<callChanel, returnChanel, cpc, call, out, wants, got, attribs, buffers,
                    bound, scmd, todo, args, replies, glBound, answer>>
    BY Zenon DEF vars, clientVars, serverVars, history
  <1>2. Sane'
    BY Zenon, <1>1 DEF Sane, AttribsOK
  <1>3. Linked(Q)' /\ Serving(Q)'
    BY <1>1 DEF Queue, Linked, After, Fin, Serving, Within
  <1>4. NoAnswer(Q)' = NoAnswer(Q) /\ Unanswered(Q)' = Unanswered(Q)
        /\ Answered(Q)' = Answered(Q)
    BY <1>1 DEF NoAnswer, Unanswered, Answered, Quiet
  <1> QED
    BY Zenon, <1>2, <1>3, <1>4 DEF Queue, Queued, Waiting

LEMMA IInvStep ==
    ASSUME Agreement, IInv, [Next]_vars
    PROVE  IInv'
  <1>1. PICK Q : Queue(Q)
    BY DEF IInv
  <1>2. Sane
    BY DEF IInv
  <1>3. ASSUME NEW c \in AppCalls, Issue(c) PROVE IInv'
    <2>1. Agreed(c)
      BY DEF Agreement
    <2>2. PICK R : R = Append(Q, Issued(c))
      OBVIOUS
    <2>3. Sane' /\ Queue(R)'
      BY <1>1, <1>2, <1>3, <2>1, <2>2, IssueSane, IssueQueue
    <2> QED
      BY <2>3 DEF IInv
  <1>4. ASSUME NEW c \in AppCalls, VertexAttribPointer(c) \/ EnableVertexAttribArray(c)
        PROVE  IInv'
    BY <1>1, <1>2, <1>4, PointerKeeps DEF IInv
  <1>5. CASE SendWord
    BY Zenon, <1>1, <1>2, <1>5, SendWordSane, SendWordQueue DEF IInv
  <1>6. CASE ReceiveWord
    BY Zenon, <1>1, <1>2, <1>6, ReceiveWordSane, ReceiveWordQueue DEF IInv
  <1>7. CASE Dispatch
    BY <1>1, <1>2, <1>7, DispatchKeeps DEF IInv
  <1>8. CASE Receive
    BY Zenon, <1>1, <1>2, <1>8, ReceiveKeeps DEF IInv
  <1>9. CASE Execute
    BY Zenon, <1>1, <1>2, <1>9, ExecuteSane, ExecuteQueue DEF IInv
  <1>10. CASE ReplyWord
    BY <1>1, <1>2, <1>10, ReplyWordKeeps DEF IInv
  <1>11. CASE UNCHANGED vars
    BY Zenon, <1>1, <1>2, <1>11, Stutters DEF IInv
  <1> QED
    BY <1>3, <1>4, <1>5, <1>6, <1>7, <1>8, <1>9, <1>10, <1>11
    DEF Next, ClientStep, ServerStep

\* At all times the words on their way are those of whole commands, but for
\* what handler and function have read, and each reader expects just these: the
\* messages of client_egl_gles.c are what server_egl_gles.c reads, and back.
THEOREM EglGlesInvariance ==
    ASSUME Agreement PROVE Spec => []IInv
  <1>1. Init => IInv
    BY Zenon, InitSane, InitQueue DEF IInv
  <1>2. IInv /\ [Next]_vars => IInv'
    BY IInvStep
  <1> QED
    BY <1>1, <1>2, PTL DEF Spec

\* The channels keep to their capacity and both programs to their states, and
\* the server's GL_ARRAY_BUFFER is one that the client has noted.
THEOREM EglGlesTyped ==
    ASSUME Agreement PROVE Spec => []TypeOK
  <1>1. IInv => TypeOK
    BY Zenon, TypeFollows DEF IInv
  <1> QED
    BY <1>1, EglGlesInvariance, PTL

\* Whatever the application calls, and however many commands are queued, each
\* word is read as what it was sent as: no message of the protocol is longer,
\* shorter or ordered otherwise on one side.
THEOREM EveryWordFramed ==
    ASSUME Agreement PROVE Spec => []Framed
  <1>1. IInv => Framed
    BY FramedFollows DEF IInv
  <1> QED
    BY <1>1, EglGlesInvariance, PTL

\* A function returns what GL returned to its own call's handler, but for
\* eglInitialize, whose handler swaps the halves of the version.
THEOREM ResultsMatched ==
    ASSUME Agreement, OneVersion PROVE Spec => []ResultIsGls
  <1>1. IInv => ResultIsGls
    BY ResultFollows DEF IInv
  <1> QED
    BY <1>1, EglGlesInvariance, PTL

-----------------------------------------------------------------------------
(* Freedom from deadlock, which CallReturns rests on.                      *)

\* The guards of the client's steps and of the server's.
ClientMoves ==
    \/ cpc = "sending" /\ Len(callChanel) < Capacity
    \/ /\ cpc = "receiving" /\ returnChanel # <<>>
       /\ Head(wants) = "callId" => Head(returnChanel).val = CallId

ServerMoves ==
    \/ scmd = "none" /\ callChanel # <<>>
    \/ todo # <<>> /\ callChanel # <<>>
    \/ scmd # "none" /\ todo = <<>> /\ replies = <<>> /\ GlResults(scmd, args) # {}
    \/ replies # <<>> /\ Len(returnChanel) < Capacity

\* Every command was carried out and every answer read to its end.
AllDone ==
    /\ cpc = "idle" /\ out = <<>> /\ callChanel = <<>> /\ returnChanel = <<>>
    /\ scmd = "none" /\ todo = <<>> /\ replies = <<>>

\* A read of no bytes, which still waits for one to arrive.
ReadsNoBytes ==
    \/ todo # <<>> /\ Head(todo) = "nothing" /\ callChanel = <<>>
    \/ cpc = "receiving" /\ Head(wants) = "nothing" /\ returnChanel = <<>>

\* Client and server never wait for each other on full or empty channels, and
\* neither waits for words that the other does not send, but for a read of no
\* bytes at the end of a message.
OnlyEmptyReadsBlock == ClientMoves \/ ServerMoves \/ AllDone \/ ReadsNoBytes

LEMMA ResultsThere ==
    ASSUME LogLengths # {}, NEW cmd, NEW a
    PROVE  GlResults(cmd, a) # {}
  <1>1. NumConfigs \in Nat
    BY EglGlesAssumption
  <1>2. 0 \in 0..NumConfigs
    BY <1>1
  <1> QED
    BY <1>2 DEF GlResults

LEMMA ParsesHead ==
    ASSUME NEW c, NEW l, NEW t, NEW a, Parses(c, l, t, a), t # <<>>, Head(t) # "nothing"
    PROVE  l # <<>> /\ (Head(t) = "callId" => Head(l).val = CallId)
  <1>1. PICK R : At(l, t, a) \in R /\ Closed(c, R, a \o l)
    BY DEF Parses
  <1> DEFINE x == At(l, t, a)
  <1>2. x.left = l /\ x.list = t
    BY DEF At
  <1> HIDE DEF x
  <1>3. x \in R
    BY <1>1 DEF x
  <1>4. \/ x.left = <<>> /\ x.list = <<>>
        \/ x.list # <<>> /\ Head(x.list) = "nothing"
        \/ x.left # <<>> /\ (Head(x.list) = "callId" => Head(x.left).val = CallId)
    BY <1>1, <1>3 DEF Closed
  <1> QED
    BY Zenon, <1>2, <1>4

\* A reader that has not read its whole message finds a word it accepts.
LEMMA ReaderMoves ==
    ASSUME NEW c, NEW l \in Words, NEW r \in Words, NEW t, NEW a,
           Parses(c, l \o r, t, a), t # <<>>, Head(t) # "nothing", l = <<>> => r = <<>>
    PROVE  l # <<>> /\ (Head(t) = "callId" => Head(l).val = CallId)
  <1>1. l \o r # <<>> /\ (Head(t) = "callId" => Head(l \o r).val = CallId)
    BY Zenon, ParsesHead
  <1>2. l # <<>>
    BY Zenon, <1>1, Empty
  <1> QED
    BY Zenon, <1>1, <1>2, HeadOfJoin

LEMMA EmptyReadsFollow ==
    ASSUME LogLengths # {}, Sane, NEW Q, Queue(Q)
    PROVE  OnlyEmptyReadsBlock
  <1> SUFFICES ASSUME ~ ClientMoves, ~ ServerMoves, ~ ReadsNoBytes PROVE AllDone
    BY Zenon DEF OnlyEmptyReadsBlock
  <1>1. /\ callChanel \in Words /\ returnChanel \in Words /\ replies \in Words
        /\ out \in Words /\ Q \in Commands /\ Capacity \in Nat \ {0}
        /\ Len(<<>>) = 0 /\ (cpc = "sending") = (out # <<>>)
        /\ cpc \in {"idle", "sending", "receiving"}
        /\ (replies # <<>>) = (scmd = "answering")
        /\ cpc = "receiving" => wants # <<>>
    BY EglGlesAssumption DEF Sane, Queue, Queued
  <1>2. callChanel = <<>> => out = <<>>
    <2>1. callChanel = <<>> => Len(callChanel) < Capacity
      BY <1>1
    <2> QED
      BY Zenon, <1>1, <2>1 DEF ClientMoves
  <1>3. returnChanel # <<>> => ~ (cpc = "receiving" /\ Parses(call, returnChanel \o replies, wants, got))
    <2> SUFFICES ASSUME returnChanel # <<>>, cpc = "receiving",
                        Parses(call, returnChanel \o replies, wants, got)
                 PROVE  FALSE
      BY Zenon
    <2>1. Head(wants) = "callId" => Head(returnChanel).val = CallId
      <3>1. "callId" # "nothing"
        OBVIOUS
      <3> QED
        BY Zenon, <1>1, <3>1, ReaderMoves
    <2> QED
      BY Zenon, <2>1 DEF ClientMoves
  <1>4. replies = <<>>
    <2> SUFFICES ASSUME replies # <<>> PROVE FALSE
      BY Zenon
    <2>1. cpc = "receiving" /\ Parses(call, returnChanel \o replies, wants, got)
      BY Zenon DEF Queue, Waiting, NoAnswer, Unanswered, Answered
    <2>2. returnChanel # <<>>
      <3>1. returnChanel = <<>> => Len(returnChanel) < Capacity
        BY <1>1
      <3> QED
        BY Zenon, <3>1 DEF ServerMoves
    <2> QED
      BY Zenon, <1>3, <2>1, <2>2
  <1>5. todo = <<>>
    <2> SUFFICES ASSUME todo # <<>> PROVE FALSE
      BY Zenon
    <2>1. callChanel = <<>> /\ out = <<>>
      BY Zenon, <1>2 DEF ServerMoves
    <2>2. PICK rest \in Words : callChanel \o out = rest \o Stream(Tail(Q)) /\ Within(Q, rest)
      BY Zenon DEF Queue, Serving
    <2>3. Q # <<>>
      BY Zenon DEF Queue, Serving
    <2>4. rest = <<>>
      <3>1. Stream(Tail(Q)) \in Words
        BY Zenon, <1>1, <2>3, StreamFirst, StreamWords
      <3>2. callChanel \o out = <<>>
        BY Zenon, <2>1, Empty
      <3> QED
        BY Zenon, <2>2, <3>1, <3>2, HeadOfJoin
    <2>5. CASE \E list \in Lists :
                 /\ args = <<>> /\ todo = <<"callId">> \o list
                 /\ rest = <<W("callId", CallId)>> \o Q[1].args
                 /\ Parses(NoCall, Q[1].args, list, <<>>)
      <3>1. Q[1].args \in Words /\ W("callId", CallId) \in Word
        BY <2>5, ParsesType DEF W, Word, Items, CallId
      <3>2. <<W("callId", CallId)>> \o Q[1].args # <<>>
        BY Zenon, <3>1, HeadOfList DEF Words
      <3> QED
        BY Zenon, <2>4, <2>5, <3>2
    <2>6. CASE args \o rest = Q[1].args /\ Parses(NoCall, rest, todo, args)
      <3>1. Parses(NoCall, <<>>, todo, args)
        BY Zenon, <2>4, <2>6
      <3>2. Head(todo) = "nothing"
        BY Zenon, <3>1, ParsesHead
      <3> QED
        BY Zenon, <2>1, <3>2 DEF ReadsNoBytes
    <2> QED
      BY Zenon, <2>2, <2>5, <2>6 DEF Within
  <1>6. scmd = "none"
    BY Zenon, <1>4, <1>5, ResultsThere DEF ServerMoves
  <1>7. callChanel = <<>> /\ out = <<>>
    BY Zenon, <1>2, <1>6 DEF ServerMoves
  <1>8. Q = <<>>
    <2>1. Stream(Q) = <<>>
      <3>1. callChanel \o out = Stream(Q)
        BY <1>6 DEF Queue, Serving
      <3> QED
        BY Zenon, <1>7, <3>1, Empty
    <2> SUFFICES ASSUME Q # <<>> PROVE FALSE
      BY Zenon
    <2>2. Sent(Q[1]) \o Stream(Tail(Q)) = <<>> /\ Sent(Q[1]) \in Words /\ Sent(Q[1]) # <<>>
      BY Zenon, <1>1, <2>1, StreamFirst, SentWords
    <2>3. Stream(Tail(Q)) \in Words
      BY Zenon, <1>1, StreamFirst, StreamWords
    <2> QED
      BY Zenon, <2>2, <2>3, HeadOfJoin
  <1>9. cpc # "receiving" /\ returnChanel = <<>>
    <2>1. CASE NoAnswer(Q)
      BY Zenon, <1>1, <2>1 DEF NoAnswer
    <2>2. CASE Unanswered(Q)
      BY Zenon, <1>8, <2>2 DEF Unanswered
    <2>3. CASE Answered(Q)
      <3>1. cpc = "receiving" /\ wants # <<>> /\ Parses(call, returnChanel \o replies, wants, got)
        BY Zenon, <1>1, <2>3 DEF Answered
      <3>2. returnChanel = <<>>
        BY Zenon, <1>3, <3>1
      <3>3. Parses(call, <<>>, wants, got)
        BY Zenon, <1>4, <3>1, <3>2, Empty
      <3> QED
        BY Zenon, <3>1, <3>2, <3>3, ParsesHead DEF ReadsNoBytes
    <2> QED
      BY Zenon, <2>1, <2>2, <2>3 DEF Queue, Waiting
  <1> QED
    BY <1>1, <1>4, <1>5, <1>6, <1>7, <1>9 DEF AllDone

\* Whatever is called, and however small the channels, client and server stop
\* only when all is done, or in a read of no bytes.
THEOREM EglGlesDeadlockFree ==
    ASSUME Agreement, LogLengths # {} PROVE Spec => []OnlyEmptyReadsBlock
  <1>1. IInv => OnlyEmptyReadsBlock
    BY Zenon, EmptyReadsFollow DEF IInv
  <1> QED
    BY <1>1, EglGlesInvariance, PTL

-----------------------------------------------------------------------------
(* What CallReturns rests on besides: no end of steps without a call.       *)

\* What is left to do: words to send and to be read from the call channel,
\* each sent before it is read; a handler to run; what it has to read; words
\* to answer and to be read from the return channel; what the client has to read.
Left ==
    << 2 * Len(out) + Len(callChanel),
       IF scmd \in {"none", "answering"} THEN 0 ELSE 1,
       Len(todo),
       2 * Len(replies) + Len(returnChanel),
       Len(wants) >>

\* The lexicographic order, which is well-founded on tuples of numbers.
Less(u, v) == \E k \in 1..5 : u[k] < v[k] /\ \A j \in 1..(k - 1) : u[j] = v[j]

\* Every step but that of the application leaves less to do.
Countdown == (ClientStep \/ ServerStep) => Less(Left', Left)

LEMMA LessAt ==
    ASSUME NEW u, NEW v
    PROVE  /\ u[1] < v[1] => Less(u, v)
           /\ u[1] = v[1] /\ u[2] < v[2] => Less(u, v)
           /\ u[1] = v[1] /\ u[2] = v[2] /\ u[3] < v[3] => Less(u, v)
           /\ u[1] = v[1] /\ u[2] = v[2] /\ u[3] = v[3] /\ u[4] < v[4] => Less(u, v)
           /\ u[1] = v[1] /\ u[2] = v[2] /\ u[3] = v[3] /\ u[4] = v[4] /\ u[5] < v[5]
                => Less(u, v)
  BY DEF Less

LEMMA LeftTyped ==
    ASSUME Sane
    PROVE  /\ Left \in Nat \X Nat \X Nat \X Nat \X Nat
           /\ Len(out) \in Nat /\ Len(callChanel) \in Nat /\ Len(todo) \in Nat
           /\ Len(replies) \in Nat /\ Len(returnChanel) \in Nat /\ Len(wants) \in Nat
  <1>1. /\ Len(out) \in Nat /\ Len(callChanel) \in Nat /\ Len(todo) \in Nat
        /\ Len(replies) \in Nat /\ Len(returnChanel) \in Nat /\ Len(wants) \in Nat
    BY LenProperties DEF Sane, Words, Lists
  <1>2. 2 * Len(out) + Len(callChanel) \in Nat /\ 2 * Len(replies) + Len(returnChanel) \in Nat
    BY <1>1
  <1>3. (IF scmd \in {"none", "answering"} THEN 0 ELSE 1) \in Nat
    OBVIOUS
  <1> QED
    BY Zenon, <1>1, <1>2, <1>3 DEF Left

\* One word less.
LEMMA TailShorter ==
    ASSUME NEW S, NEW s \in Seq(S), s # <<>>
    PROVE  Len(Tail(s)) = Len(s) - 1 /\ Len(s) \in Nat
  BY HeadTailProperties, LenProperties

LEMMA ClientCounts ==
    ASSUME Sane, ClientStep
    PROVE  Less(Left', Left)
  <1>1. /\ callChanel \in Words /\ returnChanel \in Words /\ out \in Words /\ wants \in Lists
        /\ cpc = "sending" => out # <<>>
        /\ cpc = "receiving" => wants # <<>>
    BY Zenon DEF Sane
  <1>2. CASE SendWord
    <2>1. /\ out # <<>> /\ callChanel' = Append(callChanel, Head(out)) /\ out' = Tail(out)
      BY Zenon, <1>1, <1>2 DEF SendWord
    <2>2. Len(callChanel') = Len(callChanel) + 1
      BY Zenon, <1>1, <2>1, MoveWord
    <2>3. Len(out') = Len(out) - 1
      BY Zenon, <1>1, <2>1, TailShorter DEF Words
    <2>4. Left'[1] < Left[1]
      BY <2>2, <2>3, LeftTyped DEF Left
    <2> QED
      BY Zenon, <2>4, LessAt
  <1>3. CASE ReceiveWord
    <2>1. /\ wants # <<>> /\ returnChanel # <<>> /\ out' = out /\ callChanel' = callChanel
          /\ scmd' = scmd /\ todo' = todo /\ replies' = replies
          /\ \/ wants' = Tail(wants) /\ returnChanel' = returnChanel
             \/ returnChanel' = Tail(returnChanel)
      BY <1>1, <1>3 DEF ReceiveWord, serverVars
    <2>2. Left'[1] = Left[1] /\ Left'[2] = Left[2] /\ Left'[3] = Left[3]
      BY <2>1 DEF Left
    <2>3. CASE wants' = Tail(wants) /\ returnChanel' = returnChanel
      <3>1. Len(wants') = Len(wants) - 1
        BY Zenon, <1>1, <2>1, <2>3, TailShorter DEF Lists
      <3>2. Left'[4] = Left[4] /\ Left'[5] < Left[5]
        BY <2>1, <2>3, <3>1, LeftTyped DEF Left
      <3> QED
        BY Zenon, <2>2, <3>2, LessAt
    <2>4. CASE returnChanel' = Tail(returnChanel)
      <3>1. Len(returnChanel') = Len(returnChanel) - 1
        BY Zenon, <1>1, <2>1, <2>4, TailShorter DEF Words
      <3>2. Left'[4] < Left[4]
        BY <2>1, <3>1, LeftTyped DEF Left
      <3> QED
        BY Zenon, <2>2, <3>2, LessAt
    <2> QED
      BY Zenon, <2>1, <2>3, <2>4
  <1> QED
    BY Zenon, <1>2, <1>3 DEF ClientStep

LEMMA ServerCounts ==
    ASSUME Sane, ServerStep
    PROVE  Less(Left', Left)
  <1>1. /\ callChanel \in Words /\ returnChanel \in Words /\ replies \in Words
        /\ todo \in Lists /\ (replies # <<>>) = (scmd = "answering")
    BY Zenon DEF Sane
  \* A word leaves the call channel.
  <1>2. ASSUME callChanel # <<>>, callChanel' = Tail(callChanel), out' = out
        PROVE  Less(Left', Left)
    <2>1. Len(callChanel') = Len(callChanel) - 1
      BY Zenon, <1>1, <1>2, TailShorter DEF Words
    <2>2. Left'[1] < Left[1]
      BY <1>2, <2>1, LeftTyped DEF Left
    <2> QED
      BY Zenon, <2>2, LessAt
  <1>3. CASE Dispatch
    <2>1. callChanel # <<>> /\ callChanel' = Tail(callChanel) /\ out' = out
      BY <1>3 DEF Dispatch, clientVars
    <2> QED
      BY Zenon, <1>2, <2>1
  <1>4. CASE Receive
    <2>1. /\ todo # <<>> /\ callChanel # <<>> /\ out' = out /\ scmd' = scmd
          /\ \/ todo' = Tail(todo) /\ callChanel' = callChanel
             \/ callChanel' = Tail(callChanel)
      BY <1>4 DEF Receive, clientVars
    <2>2. CASE todo' = Tail(todo) /\ callChanel' = callChanel
      <3>1. Len(todo') = Len(todo) - 1
        BY Zenon, <1>1, <2>1, <2>2, TailShorter DEF Lists
      <3>2. Left'[1] = Left[1] /\ Left'[2] = Left[2] /\ Left'[3] < Left[3]
        BY <2>1, <2>2, <3>1, LeftTyped DEF Left
      <3> QED
        BY Zenon, <3>2, LessAt
    <2> QED
      BY Zenon, <1>2, <2>1, <2>2
  <1>5. CASE Execute
    <2>1. /\ scmd # "none" /\ replies = <<>> /\ scmd' \in {"none", "answering"}
          /\ out' = out /\ callChanel' = callChanel
      BY Zenon, <1>5 DEF Execute, clientVars
    <2>2. scmd \notin {"none", "answering"}
      BY Zenon, <1>1, <2>1
    <2>3. Left'[1] = Left[1] /\ Left'[2] < Left[2]
      BY <2>1, <2>2 DEF Left
    <2> QED
      BY Zenon, <2>3, LessAt
  <1>6. CASE ReplyWord
    <2>1. /\ replies # <<>> /\ out' = out /\ callChanel' = callChanel /\ todo' = todo
          /\ returnChanel' = Append(returnChanel, Head(replies)) /\ replies' = Tail(replies)
          /\ scmd' \in {"none", scmd}
      BY <1>6 DEF ReplyWord, clientVars
    <2>2. scmd \in {"none", "answering"} /\ scmd' \in {"none", "answering"}
      BY Zenon, <1>1, <2>1
    <2>3. Len(returnChanel') = Len(returnChanel) + 1
      BY Zenon, <1>1, <2>1, MoveWord
    <2>4. Len(replies') = Len(replies) - 1
      BY Zenon, <1>1, <2>1, TailShorter DEF Words
    <2>5. Left'[1] = Left[1] /\ Left'[2] = Left[2] /\ Left'[3] = Left[3]
      BY <2>1, <2>2 DEF Left
    <2>6. Left'[4] < Left[4]
      BY <2>3, <2>4, LeftTyped DEF Left
    <2> QED
      BY Zenon, <2>5, <2>6, LessAt
  <1> QED
    BY Zenon, <1>3, <1>4, <1>5, <1>6 DEF ServerStep

\* Between two calls client and server can take only so many steps: whatever
\* they do, they come to an end.
THEOREM EglGlesCountsDown ==
    ASSUME Agreement
    PROVE  Spec => [](Left \in Nat \X Nat \X Nat \X Nat \X Nat) /\ [][Countdown]_vars
  <1>1. IInv => Left \in Nat \X Nat \X Nat \X Nat \X Nat
    BY Zenon, LeftTyped DEF IInv
  <1>2. IInv /\ [Next]_vars => [Countdown]_vars
    <2> SUFFICES ASSUME IInv, ClientStep \/ ServerStep PROVE Less(Left', Left)
      BY Zenon DEF Countdown
    <2> QED
      BY Zenon, ClientCounts, ServerCounts DEF IInv
  <1> QED
    BY <1>1, <1>2, EglGlesInvariance, PTL DEF Spec

-----------------------------------------------------------------------------
(* What handlers keep of vertex arrays.                                    *)

Pointers == [by : DOMAIN Calls \cup {"client"}, place : Nat]

\* What _glDrawArrays reads before its vertex arrays.
DrawItems ==
    {"callId", "mode", "first", "count", "numAttribs", "numVertices", "anyBufferBound"}

\* A handler has blocks of its own only; those of _glDrawArrays are the table of
\* arrays, from when it has read whether a buffer is bound, and what is in it,
\* unless one is.
Keeps ==
    /\ arrays \in Seq(Pointers)
    /\ \A b \in allocated : b.by = scmd
    /\ scmd \in {"none", "answering"} => arrays = <<>> /\ allocated = {}
    /\ scmd = "glDrawArrays" =>
         IF HasNo(args, "anyBufferBound")
         THEN /\ arrays = <<>> /\ allocated = {}
              /\ ToSet(todo) \subseteq DrawItems /\ "anyBufferBound" \in ToSet(todo)
         ELSE allocated = {Table(scmd)} \cup
                (IF Val(args, "anyBufferBound") = 1 THEN {} ELSE ToSet(arrays))

LEMMA SetOfParts ==
    ASSUME NEW S, NEW s \in Seq(S)
    PROVE  /\ s # <<>> => ToSet(s) = {Head(s)} \cup ToSet(Tail(s))
           /\ \A x \in S : ToSet(Append(s, x)) = ToSet(s) \cup {x}
           /\ s = <<>> => ToSet(s) = {}
  <1>1. s # <<>> => ToSet(s) = {Head(s)} \cup ToSet(Tail(s))
    <2> SUFFICES ASSUME s # <<>> PROVE ToSet(s) = {Head(s)} \cup ToSet(Tail(s))
      OBVIOUS
    <2>1. /\ Len(s) \in Nat \ {0} /\ DOMAIN s = 1..Len(s) /\ Head(s) = s[1]
          /\ DOMAIN Tail(s) = 1..(Len(s) - 1)
          /\ \A i \in 1..(Len(s) - 1) : Tail(s)[i] = s[i + 1]
      OBVIOUS
    <2>2. ASSUME NEW i \in DOMAIN s PROVE s[i] \in {Head(s)} \cup ToSet(Tail(s))
      <3>1. i = 1 \/ (i - 1 \in 1..(Len(s) - 1) /\ s[i] = Tail(s)[i - 1])
        BY <2>1
      <3> QED
        BY <2>1, <3>1 DEF ToSet
    <2>3. ASSUME NEW i \in DOMAIN Tail(s) PROVE Tail(s)[i] \in ToSet(s)
      <3>1. i + 1 \in DOMAIN s /\ Tail(s)[i] = s[i + 1]
        BY <2>1
      <3> QED
        BY <3>1 DEF ToSet
    <2>4. Head(s) \in ToSet(s)
      BY <2>1 DEF ToSet
    <2> QED
      BY <2>2, <2>3, <2>4 DEF ToSet
  <1>2. ASSUME NEW x \in S PROVE ToSet(Append(s, x)) = ToSet(s) \cup {x}
    <2>1. /\ Len(s) \in Nat /\ DOMAIN s = 1..Len(s) /\ DOMAIN Append(s, x) = 1..(Len(s) + 1)
          /\ \A i \in 1..Len(s) : Append(s, x)[i] = s[i]
          /\ Append(s, x)[Len(s) + 1] = x
      OBVIOUS
    <2>2. ASSUME NEW i \in DOMAIN Append(s, x) PROVE Append(s, x)[i] \in ToSet(s) \cup {x}
      <3>1. i = Len(s) + 1 \/ i \in DOMAIN s
        BY <2>1
      <3> QED
        BY <2>1, <3>1 DEF ToSet
    <2>3. ASSUME NEW i \in DOMAIN s PROVE s[i] \in ToSet(Append(s, x))
      <3>1. i \in DOMAIN Append(s, x) /\ Append(s, x)[i] = s[i]
        BY <2>1
      <3> QED
        BY <3>1 DEF ToSet
    <2>4. x \in ToSet(Append(s, x))
      <3>1. Len(s) + 1 \in DOMAIN Append(s, x)
        BY <2>1
      <3> QED
        BY <2>1, <3>1 DEF ToSet
    <2> QED
      BY <2>2, <2>3, <2>4 DEF ToSet
  <1>3. s = <<>> => ToSet(s) = {}
    BY DEF ToSet
  <1> QED
    BY <1>1, <1>2, <1>3

\* The item h that a handler has read tells it to keep an array, or the client's
\* pointer, in its table.
LEMMA ReceiveKeepsArrays ==
    ASSUME Sane, NEW Q, Queue(Q), Receive, Keeps
    PROVE  Keeps' /\ lost' = lost /\ misfreed' = misfreed
  <1> DEFINE h == Head(todo)
             w == Head(callChanel)
             kept == ArrayKept(scmd, Len(arrays) + 1, args)
             new == CASE h = "anyBufferBound" -> {Table(scmd)}
                      [] h = "ptr" -> {kept} \ {Foreign(Len(arrays) + 1)}
                      [] OTHER -> {}
  <1>1. /\ scmd' = scmd /\ scmd \in DOMAIN Calls /\ scmd \notin {"none", "answering"}
        /\ todo \in Lists /\ todo # <<>> /\ args \in Words /\ args' \in Words
    <2>1. args' \in Words /\ scmd \notin {"none", "answering"}
      BY ServerReads
    <2> QED
      BY <2>1 DEF Receive, Sane
  <1>2. /\ arrays' = IF h = "ptr" THEN Append(arrays, kept) ELSE arrays
        /\ allocated' = allocated \cup new
        /\ lost' = lost /\ misfreed' = misfreed
    BY DEF Receive, Remember
  <1>3. /\ h = "nothing" => todo' = Tail(todo) /\ args' = args
        /\ h = "callId" => args' = args
        /\ h \notin {"nothing", "callId"} => args' = Append(args, W(Expected(h), w.val))
        /\ h \in DrawItems \ {"anyBufferBound"} => todo' = Tail(todo)
    <2>1. CASE h \in DrawItems \ {"anyBufferBound"}
      <3>1. h \notin VarSize /\ h # "nothing" /\ ServerReadsMore(h, w.val, args) = <<>>
        BY <2>1 DEF DrawItems, VarSize, ServerReadsMore
      <3>2. Tail(todo) \in Lists /\ <<>> \o Tail(todo) = Tail(todo)
        BY <1>1, HeadTailProperties, ConcatProperties, EmptySeq DEF Lists
      <3> QED
        BY <3>1, <3>2 DEF Receive
    <2>2. CASE h \notin DrawItems \ {"anyBufferBound"}
      BY <2>2 DEF Receive
    <2> QED
      BY <2>1, <2>2
  <1>4. kept \in Pointers /\ (kept = Array(scmd, Len(arrays) + 1) \/ new = {} \/ h # "ptr")
    <2>1. Len(arrays) + 1 \in Nat
      BY LenProperties DEF Keeps
    <2>2. Array(scmd, Len(arrays) + 1) \in Pointers /\ Foreign(Len(arrays) + 1) \in Pointers
      BY <1>1, <2>1 DEF Pointers, Array, Foreign
    <2> QED
      BY <2>2 DEF ArrayKept
  <1>5. arrays' \in Seq(Pointers)
    BY <1>2, <1>4, AppendProperties DEF Keeps
  <1>6. \A b \in allocated' : b.by = scmd'
    <2>1. Table(scmd).by = scmd /\ Array(scmd, Len(arrays) + 1).by = scmd
      BY DEF Table, Array
    <2>2. \A b \in new : b.by = scmd
      BY <1>4, <2>1
    <2> HIDE DEF new
    <2> QED
      BY <1>1, <1>2, <2>2 DEF Keeps
  <1>7. ASSUME scmd = "glDrawArrays", HasNo(args, "anyBufferBound"), h # "anyBufferBound"
        PROVE  /\ HasNo(args', "anyBufferBound") /\ arrays' = <<>> /\ allocated' = {}
               /\ ToSet(todo') \subseteq DrawItems /\ "anyBufferBound" \in ToSet(todo')
    <2>1. ToSet(todo) = {h} \cup ToSet(Tail(todo))
      BY <1>1, SetOfParts DEF Lists
    <2>2. h \in DrawItems \ {"anyBufferBound"} /\ h # "ptr" /\ h # "nothing"
      BY <1>7, <2>1 DEF Keeps, DrawItems
    <2>3. new = {} /\ arrays' = <<>> /\ allocated' = {}
      BY <1>2, <1>7, <2>2 DEF Keeps
    <2>4. ToSet(todo') \subseteq DrawItems /\ "anyBufferBound" \in ToSet(todo')
      BY <1>3, <1>7, <2>1, <2>2 DEF Keeps
    <2>5. HasNo(args', "anyBufferBound")
      <3>1. CASE h = "callId"
        BY <1>3, <1>7, <3>1
      <3>2. CASE h # "callId"
        <4>1. args' = Append(args, W(Expected(h), w.val)) /\ Expected(h) # "anyBufferBound"
          BY <1>3, <2>2, <3>2 DEF Expected
        <4>2. ASSUME NEW q \in 1..Len(args') PROVE args'[q].item # "anyBufferBound"
          <5>1. /\ Len(args) \in Nat /\ Len(args') = Len(args) + 1
                /\ args'[Len(args) + 1] = W(Expected(h), w.val)
                /\ \A i \in 1..Len(args) : args'[i] = args[i]
            BY <1>1, <4>1 DEF Words
          <5>2. q = Len(args) + 1 \/ q \in 1..Len(args)
            BY <5>1
          <5> QED
            BY <1>7, <4>1, <5>1, <5>2 DEF HasNo, W
        <4> QED
          BY <4>2 DEF HasNo
      <3> QED
        BY <3>1, <3>2
    <2> QED
      BY <2>3, <2>4, <2>5
  <1>8. ASSUME scmd = "glDrawArrays", HasNo(args, "anyBufferBound"), h = "anyBufferBound"
        PROVE  /\ ~ HasNo(args', "anyBufferBound") /\ arrays' = <<>>
               /\ allocated' = {Table(scmd)} /\ ToSet(arrays') = {}
    <2>1. args' = Append(args, W("anyBufferBound", w.val))
      BY <1>3, <1>8 DEF Expected, VarSize
    <2>2. Len(args) + 1 \in 1..Len(args') /\ args'[Len(args) + 1].item = "anyBufferBound"
      BY <1>1, <2>1 DEF Words, W
    <2>3. ~ HasNo(args', "anyBufferBound")
      BY <2>2 DEF HasNo
    <2>4. arrays' = <<>> /\ allocated' = {Table(scmd)}
      BY <1>2, <1>8 DEF Keeps
    <2> QED
      BY <2>3, <2>4 DEF ToSet
  <1>9. ASSUME scmd = "glDrawArrays", ~ HasNo(args, "anyBufferBound")
        PROVE  /\ ~ HasNo(args', "anyBufferBound")
               /\ allocated' = {Table(scmd)} \cup
                    (IF Val(args', "anyBufferBound") = 1 THEN {} ELSE ToSet(arrays'))
    <2>1. ~ HasNo(args', "anyBufferBound")
          /\ Val(args', "anyBufferBound") = Val(args, "anyBufferBound")
      <3>1. CASE args' = args
        BY <1>9, <3>1
      <3>2. CASE args' = Append(args, W(Expected(h), w.val)) /\ args' # args
        <4> DEFINE x == W(Expected(h), w.val)
        <4>1. x \in Word
          <5>1. Len(args) + 1 \in 1..Len(args') /\ args'[Len(args) + 1] = x
            BY <1>1, <3>2 DEF Words
          <5> QED
            BY <1>1, <5>1 DEF Words
        <4>2. <<x>> \in Words /\ args' = args \o <<x>>
          BY <1>1, <3>2, <4>1, One
        <4>3. PICK p \in 1..Len(args) : args[p].item = "anyBufferBound"
          BY <1>9 DEF HasNo
        <4>4. p \in 1..Len(args') /\ args'[p] = args[p]
          BY <1>1, <3>2 DEF Words
        <4> HIDE DEF x
        <4> QED
          BY <1>1, <1>9, <4>2, <4>3, <4>4, ValJoin DEF HasNo
      <3> QED
        BY <1>3, <3>1, <3>2
    <2>2. CASE h = "ptr"
      <3>1. arrays' = Append(arrays, kept) /\ ToSet(arrays') = ToSet(arrays) \cup {kept}
        BY <1>2, <1>4, <2>2, SetOfParts DEF Keeps
      <3>2. CASE Val(args, "anyBufferBound") = 1
        <4>1. kept = Foreign(Len(arrays) + 1) /\ new = {}
          BY <2>2, <3>2 DEF ArrayKept
        <4> HIDE DEF new
        <4> QED
          BY <1>2, <1>9, <2>1, <3>2, <4>1 DEF Keeps
      <3>3. CASE Val(args, "anyBufferBound") # 1
        <4>1. kept = Array(scmd, Len(arrays) + 1)
          BY <3>3 DEF ArrayKept
        <4>2. kept # Foreign(Len(arrays) + 1)
          BY <1>9, <4>1 DEF Array, Foreign
        <4>3. new = {kept}
          BY <2>2, <4>2
        <4> HIDE DEF new
        <4> QED
          BY <1>2, <1>9, <2>1, <3>1, <3>3, <4>3 DEF Keeps
      <3> QED
        BY <3>2, <3>3
    <2>3. CASE h # "ptr"
      <3>1. new \subseteq {Table(scmd)} /\ arrays' = arrays
        BY <1>2, <2>3
      <3> HIDE DEF new
      <3> QED
        BY <1>2, <1>9, <2>1, <3>1 DEF Keeps
    <2> QED
      BY <2>1, <2>2, <2>3
  <1> QED
    BY <1>1, <1>2, <1>5, <1>6, <1>7, <1>8, <1>9 DEF Keeps

\* What _glDrawArrays frees is what it has; no handler frees or loses a block of
\* another.
LEMMA ExecuteFrees ==
    ASSUME Sane, Execute, Keeps, DrawArraysFreed
    PROVE  Keeps' /\ DrawArraysFreed'
  <1>1. /\ todo = <<>> /\ todo' = <<>> /\ args' = <<>> /\ scmd' \in {"none", "answering"}
        /\ arrays' = <<>> /\ allocated' = {}
        /\ lost' = lost \cup (allocated \ Freed(scmd, args))
        /\ misfreed' = misfreed \cup {[by |-> scmd, place |-> b.place] :
                                        b \in Freed(scmd, args) \ allocated}
    BY Zenon DEF Execute
  <1>2. Keeps'
    <2>1. <<>> \in Seq(Pointers)
      BY EmptySeq
    <2> QED
      BY <1>1, <2>1 DEF Keeps
  <1>3. CASE scmd = "glDrawArrays"
    <2>1. ~ HasNo(args, "anyBufferBound")
      BY <1>1, <1>3 DEF Keeps, ToSet
    <2>2. Freed(scmd, args) = allocated
      BY <1>3, <2>1 DEF Keeps, Freed, FreesArrays
    <2>3. lost' = lost /\ misfreed' = misfreed
      BY <1>1, <2>2
    <2> QED
      BY <1>2, <2>3 DEF DrawArraysFreed
  <1>4. CASE scmd # "glDrawArrays"
    <2>1. \A b \in allocated \ Freed(scmd, args) : b.by # "glDrawArrays"
      BY <1>4 DEF Keeps
    <2>2. \A b \in {[by |-> scmd, place |-> c.place] : c \in Freed(scmd, args) \ allocated} :
             b.by # "glDrawArrays"
      BY <1>4
    <2>3. \A b \in lost' \cup misfreed' : b.by # "glDrawArrays"
      BY <1>1, <2>1, <2>2 DEF DrawArraysFreed
    <2> QED
      BY <1>2, <2>3 DEF DrawArraysFreed
  <1> QED
    BY <1>3, <1>4

\* What a sequence ends with is in what it is appended to.
LEMMA SetOfConcat ==
    ASSUME NEW S, NEW p \in Seq(S), NEW q \in Seq(S)
    PROVE  p \o q \in Seq(S) /\ \A x \in ToSet(q) : x \in ToSet(p \o q)
  <1>1. ASSUME NEW i \in 1..Len(q)
        PROVE  Len(p) + i \in 1..Len(p \o q) /\ (p \o q)[Len(p) + i] = q[i]
    OBVIOUS
  <1>2. p \o q \in Seq(S) /\ DOMAIN q = 1..Len(q) /\ DOMAIN (p \o q) = 1..Len(p \o q)
    OBVIOUS
  <1> QED
    BY Zenon, <1>1, <1>2 DEF ToSet

LEMMA DispatchKeepsArrays ==
    ASSUME Sane, NEW Q, Queue(Q), Dispatch, Keeps
    PROVE  Keeps' /\ lost' = lost /\ misfreed' = misfreed
  <1>1. /\ scmd = "none" /\ arrays' = arrays /\ allocated' = allocated /\ args' = args
        /\ lost' = lost /\ misfreed' = misfreed /\ arrays = <<>> /\ allocated = {}
        /\ todo' = IF scmd' \in DOMAIN eglGlesJumpTable
                   THEN eglGlesJumpTable[scmd'].receive ELSE <<>>
    BY DEF Dispatch, Keeps, memory
  <1>2. HasNo(args, "anyBufferBound")
    BY <1>1 DEF Queue, Serving, HasNo
  <1>3. ASSUME scmd' = "glDrawArrays"
        PROVE  ToSet(todo') \subseteq DrawItems /\ "anyBufferBound" \in ToSet(todo')
    <2> DEFINE p == <<"callId">>
               q == <<"mode", "first", "count">>
               u == <<"numAttribs", "numVertices", "anyBufferBound">>
    <2>1. "glDrawArrays" \in DOMAIN Calls
      <3>1. "glDrawArrays" \in DOMAIN DrawCalls
        BY DEF DrawCalls
      <3> DEFINE before == DisplayCalls ++ ConfigCalls ++ SurfaceCalls ++ ContextCalls
                           ++ ShaderCalls ++ ProgramCalls ++ StateCalls
                 after == before ++ DrawCalls
      <3>2. "glDrawArrays" \in DOMAIN after
        BY Zenon, <3>1, MergeDomain
      <3> HIDE DEF after
      <3>3. "glDrawArrays" \in DOMAIN (after ++ TextureCalls)
        BY Zenon, <3>2, MergeDomain
      <3>4. "glDrawArrays" \in DOMAIN (after ++ TextureCalls ++ UniformCalls)
        BY Zenon, <3>3, MergeDomain
      <3>5. "glDrawArrays" \in DOMAIN (after ++ TextureCalls ++ UniformCalls ++ BufferCalls)
        BY Zenon, <3>4, MergeDomain
      <3> QED
        BY Zenon, <3>5 DEF Calls, after
    <2>2. todo' = p \o (q \o u)
      <3>1. /\ Calls["glDrawArrays"].send = q /\ "glDrawArrays" \in DOMAIN eglGlesJumpTable
            /\ eglGlesJumpTable["glDrawArrays"].receive = p \o (q \o u)
        BY Zenon, <2>1, TablesAgree DEF Agree, SentAsRead, VertexAttribHeader
      <3> QED
        BY Zenon, <1>1, <1>3, <3>1
    <2>3. p \in Seq(DrawItems) /\ q \in Seq(DrawItems) /\ u \in Seq(DrawItems)
      BY DEF DrawItems
    <2>4. "anyBufferBound" \in ToSet(u)
      <3>1. 3 \in DOMAIN u /\ u[3] = "anyBufferBound"
        OBVIOUS
      <3> QED
        BY Zenon, <3>1 DEF ToSet
    <2> HIDE DEF p, q, u
    <2>5. q \o u \in Seq(DrawItems) /\ "anyBufferBound" \in ToSet(q \o u)
      BY <2>3, <2>4, SetOfConcat
    <2>6. p \o (q \o u) \in Seq(DrawItems) /\ "anyBufferBound" \in ToSet(p \o (q \o u))
      BY <2>3, <2>5, SetOfConcat
    <2>7. ToSet(p \o (q \o u)) \subseteq DrawItems
      BY <2>6 DEF ToSet
    <2> QED
      BY Zenon, <2>2, <2>6, <2>7
  <1> QED
    BY <1>1, <1>2, <1>3 DEF Keeps

\* The others do nothing to the handler and its memory.
LEMMA OthersKeepArrays ==
    ASSUME Sane, NEW Q, Queue(Q), [Next]_vars, ~ Dispatch, ~ Receive, ~ Execute, Keeps
    PROVE  Keeps' /\ lost' = lost /\ misfreed' = misfreed
  <1>1. CASE ReplyWord
    <2>1. /\ scmd = "answering" /\ scmd' \in {"none", "answering"}
          /\ arrays' = arrays /\ allocated' = allocated
          /\ lost' = lost /\ misfreed' = misfreed
      BY <1>1 DEF ReplyWord, memory, Sane
    <2> QED
      BY <2>1 DEF Keeps
  <1>2. CASE ~ ReplyWord
    <2>1. serverVars' = serverVars
      BY Zenon, <1>2 DEF Next, ClientStep, ServerStep, Issue, VertexAttribPointer,
         EnableVertexAttribArray, SendWord, ReceiveWord, vars
    <2>2. UNCHANGED <<scmd, todo, args, arrays, allocated, lost, misfreed>>
      BY <2>1 DEF serverVars, memory
    <2> QED
      BY <2>2 DEF Keeps, HasNo, Val, Place
  <1> QED
    BY <1>1, <1>2

\* _glDrawArrays frees what it has allocated and nothing else: if no buffer is
\* bound the arrays that receiveVertexAttribArrays has allocated for it, if one
\* is none of the client's pointers, and its table of both in any case.
THEOREM DrawArraysClean ==
    ASSUME Agreement PROVE Spec => []DrawArraysFreed
  <1>1. Init => Keeps /\ DrawArraysFreed
    <2>1. <<>> \in Seq(Pointers)
      BY EmptySeq
    <2> QED
      BY <2>1 DEF Init, Keeps, DrawArraysFreed
  <1>2. IInv /\ Keeps /\ DrawArraysFreed /\ [Next]_vars => Keeps' /\ DrawArraysFreed'
    <2> SUFFICES ASSUME IInv, Keeps, DrawArraysFreed, [Next]_vars
                 PROVE  Keeps' /\ DrawArraysFreed'
      OBVIOUS
    <2>1. Sane
      BY DEF IInv
    <2>2. PICK Q : Queue(Q)
      BY DEF IInv
    <2>3. CASE Dispatch
      BY Zenon, <2>1, <2>2, <2>3, DispatchKeepsArrays DEF DrawArraysFreed
    <2>4. CASE Receive
      BY Zenon, <2>1, <2>2, <2>4, ReceiveKeepsArrays DEF DrawArraysFreed
    <2>5. CASE Execute
      BY Zenon, <2>1, <2>5, ExecuteFrees
    <2>6. CASE ~ Dispatch /\ ~ Receive /\ ~ Execute
      BY Zenon, <2>1, <2>2, <2>6, OthersKeepArrays DEF DrawArraysFreed
    <2> QED
      BY Zenon, <2>3, <2>4, <2>5, <2>6
  <1> QED
    BY <1>1, <1>2, EglGlesInvariance, PTL DEF Spec

-----------------------------------------------------------------------------
(* What a draw means: the words of its vertex arrays, by their places.     *)

\* F is the sequences of s in one: sequence i follows the first p[i] elements.
Places(p, s, F) ==
    /\ p \in [1..Len(s) -> Nat]
    /\ \A i \in 1..Len(s) : \A j \in 1..Len(s[i]) :
         p[i] + j \in 1..Len(F) /\ F[p[i] + j] = s[i][j]
    /\ \A q \in 1..Len(F) : \E i \in 1..Len(s) : \E j \in 1..Len(s[i]) : q = p[i] + j

LEMMA FlatPlaces ==
    ASSUME NEW S, NEW s \in Seq(Seq(S))
    PROVE  \E p : Places(p, s, FlattenSeq(s))
  <1> DEFINE n == Len(s)
  <1>1. n \in Nat /\ \A i \in 1..n : s[i] \in Seq(S) /\ Len(s[i]) \in Nat
    BY LenProperties
  <1>2. PICK f \in [0..n -> Seq(S)] : PartialJoins(f, s) /\ f[n] = FlattenSeq(s)
    BY Zenon, Flatten
  <1>3. f[0] = <<>> /\ \A i \in 0..(n - 1) : f[i + 1] = f[i] \o s[i + 1]
    BY <1>2 DEF PartialJoins
  <1>4. \A m \in 0..n : f[m] \in Seq(S) /\ Len(f[m]) \in Nat
    BY Zenon, <1>2, LenProperties
  <1> DEFINE p == [i \in 1..n |-> Len(f[i - 1])]
             Has(m) == \A i \in 1..m : \A j \in 1..Len(s[i]) :
                         p[i] + j \in 1..Len(f[m]) /\ f[m][p[i] + j] = s[i][j]
             All(m) == \A q \in 1..Len(f[m]) :
                         \E i \in 1..m : \E j \in 1..Len(s[i]) : q = p[i] + j
             T == {m \in 0..n : Has(m) /\ All(m)}
  <1>5. p \in [1..n -> Nat] /\ \A i \in 1..n : p[i] = Len(f[i - 1])
    <2>1. \A i \in 1..n : i - 1 \in 0..n
      BY <1>1
    <2> QED
      BY <1>4, <2>1
  <1> HIDE DEF p, n
  <1>6. 0 \in T
    <2>1. Len(f[0]) = 0
      BY <1>3
    <2> QED
      BY <1>1, <2>1
  <1>7. ASSUME NEW m \in 0..(n - 1), m \in T PROVE m + 1 \in T
    <2> DEFINE a == f[m]
               b == s[m + 1]
    <2>1. m \in 0..n /\ m + 1 \in 0..n /\ m + 1 \in 1..n /\ (m + 1) - 1 = m /\ m \in Nat
      BY <1>1
    <2>2. f[m + 1] = a \o b /\ a \in Seq(S) /\ b \in Seq(S) /\ Len(a) \in Nat
          /\ Len(b) \in Nat /\ p[m + 1] = Len(a)
      BY <1>1, <1>3, <1>4, <1>5, <2>1
    <2> HIDE DEF a, b
    <2>3. /\ Len(a \o b) = Len(a) + Len(b)
          /\ \A i \in 1..Len(a) : (a \o b)[i] = a[i]
          /\ \A i \in 1..Len(b) : (a \o b)[Len(a) + i] = b[i]
      <3>1. /\ Len(a \o b) = Len(a) + Len(b)
            /\ \A i \in 1..(Len(a) + Len(b)) :
                 (a \o b)[i] = IF i <= Len(a) THEN a[i] ELSE b[i - Len(a)]
        BY <2>2, ConcatProperties
      <3>2. Len(a) \in Nat /\ Len(b) \in Nat
        BY Zenon, <2>2
      <3>3. \A i \in 1..Len(a) : i \in 1..(Len(a) + Len(b)) /\ i <= Len(a)
        BY <3>2
      <3>4. \A i \in 1..Len(b) : Len(a) + i \in 1..(Len(a) + Len(b)) /\ ~ (Len(a) + i <= Len(a))
                                 /\ (Len(a) + i) - Len(a) = i
        BY <3>2
      <3> QED
        BY Zenon, <3>1, <3>3, <3>4
    <2>4. \A i \in 1..(m + 1) : i \in 1..m \/ i = m + 1
      BY <2>1
    <2>5. ASSUME NEW i \in 1..(m + 1), NEW j \in 1..Len(s[i])
          PROVE  p[i] + j \in 1..Len(f[m + 1]) /\ f[m + 1][p[i] + j] = s[i][j]
      <3>1. CASE i \in 1..m
        <4>1. p[i] + j \in 1..Len(a) /\ a[p[i] + j] = s[i][j]
          BY <1>7, <3>1 DEF a
        <4>2. p[i] + j \in 1..Len(a \o b)
          <5>1. Len(a) \in Nat /\ Len(b) \in Nat /\ Len(a \o b) = Len(a) + Len(b)
            BY Zenon, <2>2, <2>3
          <5> QED
            BY <4>1, <5>1
        <4> QED
          BY Zenon, <2>2, <2>3, <4>1, <4>2
      <3>2. CASE i = m + 1
        <4>1. j \in 1..Len(b) /\ p[i] = Len(a) /\ s[i] = b
          BY <2>2, <3>2 DEF b
        <4>2. Len(a) + j \in 1..Len(a \o b)
          BY <2>2, <2>3, <4>1
        <4> QED
          BY <2>2, <2>3, <4>1, <4>2
      <3> QED
        BY <2>4, <3>1, <3>2
    <2>6. ASSUME NEW q \in 1..Len(f[m + 1])
          PROVE  \E i \in 1..(m + 1) : \E j \in 1..Len(s[i]) : q = p[i] + j
      <3>1. q \in 1..(Len(a) + Len(b))
        BY Zenon, <2>2, <2>3
      <3>2. CASE q \in 1..Len(a)
        <4>1. PICK i \in 1..m : \E j \in 1..Len(s[i]) : q = p[i] + j
          BY Zenon, <1>7, <3>2 DEF a
        <4>2. i \in 1..(m + 1)
          BY <2>1
        <4> QED
          BY Zenon, <4>1, <4>2
      <3>3. CASE q \notin 1..Len(a)
        <4>1. q - Len(a) \in 1..Len(b) /\ q = Len(a) + (q - Len(a))
          BY <2>2, <3>1, <3>3
        <4>2. m + 1 \in 1..(m + 1) /\ s[m + 1] = b
          BY <2>1 DEF b
        <4> QED
          BY <2>2, <4>1, <4>2
      <3> QED
        BY Zenon, <3>2, <3>3
    <2> QED
      BY Zenon, <2>1, <2>5, <2>6
  <1>8. 0..n \subseteq T
    <2> HIDE DEF T
    <2> QED
      BY <1>1, <1>6, <1>7, BoundedInduction
  <1>9. n \in T
    <2>1. n \in 0..n
      BY <1>1
    <2> HIDE DEF T
    <2> QED
      BY <1>8, <2>1
  <1>10. Has(n) /\ All(n)
    BY Zenon, <1>9
  <1> DEFINE F == FlattenSeq(s)
  <1>11. f[n] = F /\ F \in Seq(S)
    <2>1. n \in 0..n
      BY <1>1
    <2> QED
      BY Zenon, <1>2, <1>4, <2>1
  <1> HIDE DEF F
  <1>12. /\ \A i \in 1..n : \A j \in 1..Len(s[i]) : p[i] + j \in 1..Len(F) /\ F[p[i] + j] = s[i][j]
         /\ \A q \in 1..Len(F) : \E i \in 1..n : \E j \in 1..Len(s[i]) : q = p[i] + j
    BY <1>10, <1>11
  <1>13. Places(p, s, F)
    BY <1>5, <1>12 DEF n, Places
  <1> QED
    BY <1>13 DEF F

\* The words of one attribute.
LEMMA BlockPlaces ==
    ASSUME AttribsOK, NEW first \in Nat, NEW count \in Nat, NEW i \in 1..numEnabled
    PROVE  LET b == BlockWords(first, count)[i]
           IN  /\ b \in Words /\ Len(b) \in Nat \ {0}
               /\ b[1] = W("index", attribs[i - 1].index)
               /\ \A j \in 2..Len(b) : b[j].item # "index"
               /\ buffers = {} => \A v \in 0..(count - 1) :
                    7 + v \in 1..Len(b) /\ b[7 + v] = W("vertex", first + v)
  <1> DEFINE x == AttribWords(i)
             y == ArrayWords(first, count)
  <1>1. x \in Words /\ Len(x) = 6
    BY AttribWordsRead
  <1>2. y \in Words /\ Len(y) = IF buffers # {} THEN 0 ELSE count
    BY Empty, ArrayWordsRead
  <1>3. BlockWords(first, count)[i] = x \o y
    BY DEF BlockWords
  <1>4. x[1] = W("index", attribs[i - 1].index) /\ \A j \in 2..6 : x[j].item # "index"
    BY DEF AttribWords, W
  <1>5. ASSUME NEW j \in 1..Len(y)
        PROVE  y[j] = W("vertex", first + j - 1) /\ y[j].item # "index"
    <2>1. buffers = {} /\ j \in 1..count
      BY <1>2
    <2> QED
      BY Zenon, <2>1 DEF ArrayWords, W
  <1> HIDE DEF x, y
  <1>6. /\ x \o y \in Words /\ Len(x \o y) = 6 + Len(y) /\ Len(y) \in Nat
        /\ \A j \in 1..6 : (x \o y)[j] = x[j]
        /\ \A j \in 7..(6 + Len(y)) : (x \o y)[j] = y[j - 6]
    <2>1. /\ Len(x \o y) = 6 + Len(y) /\ Len(y) \in Nat
          /\ \A j \in 1..(6 + Len(y)) : (x \o y)[j] = IF j <= 6 THEN x[j] ELSE y[j - 6]
      <3>1. Len(y) \in Nat
        BY <1>2, LenProperties DEF Words
      <3>2. /\ Len(x \o y) = Len(x) + Len(y)
            /\ \A j \in 1..(Len(x) + Len(y)) :
                 (x \o y)[j] = IF j <= Len(x) THEN x[j] ELSE y[j - Len(x)]
        BY <1>1, <1>2, ConcatProperties DEF Words
      <3> QED
        BY <1>1, <3>1, <3>2
    <2>2. \A j \in 1..6 : j \in 1..(6 + Len(y)) /\ j <= 6
      BY <2>1
    <2>3. \A j \in 7..(6 + Len(y)) : j \in 1..(6 + Len(y)) /\ ~ (j <= 6)
      BY <2>1
    <2>4. x \o y \in Words
      BY <1>1, <1>2, WordsJoin
    <2> QED
      BY Zenon, <2>1, <2>2, <2>3, <2>4
  <1>7. ASSUME NEW j \in 2..Len(x \o y) PROVE (x \o y)[j].item # "index"
    <2>0. j \in Nat /\ j >= 2 /\ j <= 6 + Len(y) /\ Len(y) \in Nat
      BY <1>6
    <2>1. CASE j <= 6
      <3>1. j \in 1..6 /\ j \in 2..6
        BY <2>0, <2>1
      <3>2. (x \o y)[j] = x[j]
        BY Zenon, <1>6, <3>1
      <3> QED
        BY <1>4, <3>1, <3>2
    <2>2. CASE j > 6
      <3>1. j \in 7..(6 + Len(y)) /\ j - 6 \in 1..Len(y)
        BY <2>0, <2>2
      <3>2. (x \o y)[j] = y[j - 6]
        BY Zenon, <1>6, <3>1
      <3> QED
        BY <1>5, <3>1, <3>2
    <2> QED
      BY <2>0, <2>1, <2>2
  <1>8. ASSUME buffers = {}, NEW v \in 0..(count - 1)
        PROVE  7 + v \in 1..Len(x \o y) /\ (x \o y)[7 + v] = W("vertex", first + v)
    <2>0. count \in Nat /\ Len(y) = count /\ first \in Nat /\ v \in Nat /\ v <= count - 1
      BY <1>2, <1>8
    <2>1. /\ 7 + v \in 7..(6 + Len(y)) /\ (7 + v) - 6 = v + 1 /\ v + 1 \in 1..Len(y)
          /\ first + (v + 1) - 1 = first + v /\ 7 + v \in 1..(6 + Len(y))
      BY <2>0
    <2>2. (x \o y)[7 + v] = y[v + 1] /\ 7 + v \in 1..Len(x \o y)
      BY Zenon, <1>6, <2>1
    <2>3. y[v + 1] = W("vertex", first + (v + 1) - 1)
      BY <1>5, <1>8, <2>1
    <2> QED
      BY Zenon, <2>1, <2>2, <2>3
  <1>9. (x \o y)[1] = W("index", attribs[i - 1].index) /\ Len(x \o y) \in Nat \ {0}
    BY <1>4, <1>6
  <1> QED
    BY <1>3, <1>6, <1>7, <1>8, <1>9

\* What the server finds of vertex arrays that follow the words b.
ArraysAt(a, first, count) ==
    /\ a \in Words
    /\ Val(a, "anyBufferBound") = gvIsAnyBufferBound
    /\ Val(a, "numVertices") = count
    /\ \E p \in [1..numEnabled -> Nat] :
         /\ \A i \in 1..numEnabled :
              p[i] \in 1..Len(a) /\ a[p[i]] = W("index", attribs[i - 1].index)
         /\ \A q \in 1..Len(a) :
              a[q].item = "index" => \E i \in 1..numEnabled : q = p[i]
         /\ buffers = {} =>
              \A i \in 1..numEnabled : \A v \in 0..(count - 1) :
                a[p[i] + 6 + v] = W("vertex", first + v)

LEMMA ArrayPlaces ==
    ASSUME AttribsOK, NEW first \in Nat, NEW count \in Nat, NEW b \in Words,
           HasNo(b, "index"), HasNo(b, "numVertices"), HasNo(b, "anyBufferBound")
    PROVE  ArraysAt(b \o VertexAttribWords(first, count), first, count)
  <1> DEFINE H == HeadWords(count)
             s == BlockWords(first, count)
             F == FlattenSeq(s)
             n == numEnabled
  <1>1. /\ H \in Words /\ F \in Words /\ s \in Seq(Words) /\ n \in Nat
        /\ VertexAttribWords(first, count) = H \o F
    <2>1. H \in Words /\ s \in Seq(Words) /\ n \in Nat
      BY HeadWordsRead, BlockWordsRead, NumEnabled
    <2>2. F \in Words
      BY Empty, BlockWordsRead
    <2>3. VertexAttribWords(first, count) = H \o F
      BY DEF VertexAttribWords, HeadWords, BlockWords, AttribWords, ArrayWords
    <2> QED
      BY Zenon, <2>1, <2>2, <2>3
  <1>2. /\ FirstAt(H, "numVertices", 2) /\ FirstAt(H, "anyBufferBound", 3)
        /\ H[2].val = count /\ H[3].val = gvIsAnyBufferBound
        /\ HasNo(H, "index") /\ Len(H) = 3
    BY DEF HeadWords, FirstAt, HasNo, W
  <1>3. Len(s) = n
    BY <1>1 DEF BlockWords
  <1> HIDE DEF H, s, n
  <1> DEFINE K == b \o H
             a == K \o F
  <1>4. K \in Words /\ a \in Words /\ a = b \o VertexAttribWords(first, count)
        /\ Len(K) \in Nat
    <2>1. K \in Words
      BY Zenon, <1>1, WordsJoin
    <2>2. a \in Words
      BY Zenon, <1>1, <2>1, WordsJoin
    <2>4. Associates(b, H, F)
      BY Zenon, <1>1, WordsAssociate
    <2>3. Len(K) \in Nat
      BY Zenon, <2>1, LenProperties DEF Words
    <2> QED
      BY Zenon, <1>1, <2>1, <2>2, <2>3, <2>4 DEF Associates
  <1>5. HasNo(K, "index")
    BY Zenon, <1>1, <1>2, FirstJoin
  <1>6. Val(a, "numVertices") = count /\ Val(a, "anyBufferBound") = gvIsAnyBufferBound
    <2>1. Val(H, "numVertices") = count /\ Val(H, "anyBufferBound") = gvIsAnyBufferBound
      BY Zenon, <1>1, <1>2, ValAt
    <2>2. ~ HasNo(H, "numVertices") /\ ~ HasNo(H, "anyBufferBound")
      BY Zenon, <1>2 DEF FirstAt, HasNo
    <2>3. Val(H \o F, "numVertices") = count
          /\ Val(H \o F, "anyBufferBound") = gvIsAnyBufferBound
      BY <1>1, <2>1, <2>2, ValJoin
    <2>4. H \o F \in Words /\ a = b \o (H \o F)
      <3>1. H \o F \in Words
        BY Zenon, <1>1, WordsJoin
      <3> QED
        BY Zenon, <1>1, <1>4, <3>1
    <2> HIDE DEF a
    <2> QED
      BY Zenon, <2>3, <2>4, ValJoin
  <1>7. PICK r \in [1..n -> Nat] :
          /\ \A i \in 1..n : \A j \in 1..Len(s[i]) :
               r[i] + j \in 1..Len(F) /\ F[r[i] + j] = s[i][j]
          /\ \A q \in 1..Len(F) : \E i \in 1..n : \E j \in 1..Len(s[i]) : q = r[i] + j
    <2>1. s \in Seq(Seq(Word))
      BY <1>1 DEF Words
    <2>2. PICK r : Places(r, s, F)
      BY <2>1, FlatPlaces
    <2> HIDE DEF F
    <2> QED
      BY Zenon, <1>3, <2>2 DEF Places
  <1>8. ASSUME NEW i \in 1..n
        PROVE  /\ s[i] \in Words /\ Len(s[i]) \in Nat \ {0}
               /\ s[i][1] = W("index", attribs[i - 1].index)
               /\ \A j \in 2..Len(s[i]) : s[i][j].item # "index"
               /\ buffers = {} => \A v \in 0..(count - 1) :
                    7 + v \in 1..Len(s[i]) /\ s[i][7 + v] = W("vertex", first + v)
    BY ZenonT(30), BlockPlaces DEF s, n
  <1> HIDE DEF F, K
  <1>9. /\ Len(a) = Len(K) + Len(F) /\ Len(F) \in Nat
        /\ \A q \in 1..Len(K) : a[q] = K[q]
        /\ \A q \in 1..Len(F) : a[Len(K) + q] = F[q]
    <2>1. Len(F) \in Nat /\ Len(K) \in Nat
      BY <1>1, <1>4, LenProperties DEF Words
    <2>2. /\ Len(a) = Len(K) + Len(F)
          /\ \A q \in 1..(Len(K) + Len(F)) :
               a[q] = IF q <= Len(K) THEN K[q] ELSE F[q - Len(K)]
      BY <1>1, <1>4, ConcatProperties DEF Words
    <2>3. \A q \in 1..Len(K) : q \in 1..(Len(K) + Len(F)) /\ q <= Len(K)
      BY <2>1
    <2>4. \A q \in 1..Len(F) : Len(K) + q \in 1..(Len(K) + Len(F))
                               /\ ~ (Len(K) + q <= Len(K)) /\ (Len(K) + q) - Len(K) = q
      BY <2>1
    <2> HIDE DEF a
    <2> QED
      BY Zenon, <2>1, <2>2, <2>3, <2>4
  <1> HIDE DEF a
  <1> DEFINE p == [i \in 1..n |-> Len(K) + (r[i] + 1)]
  <1>10. p \in [1..n -> Nat] /\ \A i \in 1..n : p[i] = Len(K) + (r[i] + 1) /\ r[i] \in Nat
    <2>1. Len(K) \in Nat
      BY Zenon, <1>4, LenProperties DEF Words
    <2>2. \A x \in Nat : Len(K) + (x + 1) \in Nat
      BY <2>1
    <2>3. \A i \in 1..n : r[i] \in Nat
      BY Zenon
    <2> QED
      BY Zenon, <2>2, <2>3
  <1> HIDE DEF p
  <1>11. ASSUME NEW i \in 1..n
         PROVE  p[i] \in 1..Len(a) /\ a[p[i]] = W("index", attribs[i - 1].index)
    <2>1. 1 \in 1..Len(s[i]) /\ s[i][1] = W("index", attribs[i - 1].index)
      BY <1>8
    <2>2. r[i] + 1 \in 1..Len(F) /\ F[r[i] + 1] = s[i][1]
      BY Zenon, <1>7, <2>1
    <2> QED
      <3>1. a[Len(K) + (r[i] + 1)] = F[r[i] + 1]
        BY Zenon, <1>9, <2>2
      <3>2. Len(K) + (r[i] + 1) \in 1..Len(a)
        BY <1>4, <1>9, <2>2
      <3> QED
        BY Zenon, <1>10, <2>1, <2>2, <3>1, <3>2
  <1>12. ASSUME NEW q \in 1..Len(a), a[q].item = "index"
         PROVE  \E i \in 1..n : q = p[i]
    <2>1. q \notin 1..Len(K)
      BY Zenon, <1>5, <1>9, <1>12 DEF HasNo
    <2>2. q - Len(K) \in 1..Len(F) /\ q = Len(K) + (q - Len(K))
      BY <1>4, <1>9, <2>1
    <2>3. PICK i \in 1..n : \E j \in 1..Len(s[i]) : q - Len(K) = r[i] + j
      BY <1>7, <2>2
    <2>4. PICK j \in 1..Len(s[i]) : q - Len(K) = r[i] + j
      BY <2>3
    <2>5. a[q] = s[i][j]
      <3>1. a[Len(K) + (q - Len(K))] = F[q - Len(K)]
        BY Zenon, <1>9, <2>2
      <3>2. F[r[i] + j] = s[i][j]
        BY Zenon, <1>7
      <3> QED
        BY <2>2, <2>4, <3>1, <3>2
    <2>6. j = 1
      <3>1. j \in 2..Len(s[i]) => s[i][j].item # "index"
        BY Zenon, <1>8
      <3>2. j \in Nat /\ Len(s[i]) \in Nat
        BY <1>8
      <3> QED
        BY <1>12, <2>5, <3>1, <3>2
    <2>7. q = p[i]
      BY Zenon, <1>10, <2>2, <2>4, <2>6
    <2> QED
      BY Zenon, <2>7
  <1>13. ASSUME buffers = {}, NEW i \in 1..n, NEW v \in 0..(count - 1)
         PROVE  a[p[i] + 6 + v] = W("vertex", first + v)
    <2>1. 7 + v \in 1..Len(s[i]) /\ s[i][7 + v] = W("vertex", first + v)
      BY <1>8, <1>13
    <2>2. r[i] + (7 + v) \in 1..Len(F) /\ F[r[i] + (7 + v)] = s[i][7 + v]
      BY <1>7, <2>1
    <2>3. p[i] + 6 + v = Len(K) + (r[i] + (7 + v))
      <3>1. p[i] = Len(K) + (r[i] + 1) /\ Len(K) \in Nat /\ r[i] \in Nat
        BY Zenon, <1>4, <1>10
      <3> QED
        BY <3>1
    <2>4. a[Len(K) + (r[i] + (7 + v))] = F[r[i] + (7 + v)]
      BY <1>9, <2>2
    <2> QED
      BY Zenon, <2>1, <2>2, <2>3, <2>4
  <1>14. \E g \in [1..n -> Nat] :
           /\ \A i \in 1..n : g[i] \in 1..Len(a) /\ a[g[i]] = W("index", attribs[i - 1].index)
           /\ \A q \in 1..Len(a) : a[q].item = "index" => \E i \in 1..n : q = g[i]
           /\ buffers = {} => \A i \in 1..n : \A v \in 0..(count - 1) :
                a[g[i] + 6 + v] = W("vertex", first + v)
    <2> DEFINE Placed(g) ==
           /\ \A i \in 1..n : g[i] \in 1..Len(a) /\ a[g[i]] = W("index", attribs[i - 1].index)
           /\ \A q \in 1..Len(a) : a[q].item = "index" => \E i \in 1..n : q = g[i]
           /\ buffers = {} => \A i \in 1..n : \A v \in 0..(count - 1) :
                a[g[i] + 6 + v] = W("vertex", first + v)
    <2>1. Placed(p)
      BY Zenon, <1>11, <1>12, <1>13
    <2> HIDE DEF Placed
    <2>2. \E g \in [1..n -> Nat] : Placed(g)
      BY Zenon, <1>10, <2>1
    <2> QED
      BY Zenon, <2>2 DEF Placed
  <1> QED
    BY Zenon, <1>4, <1>6, <1>14 DEF n, ArraysAt

\* The first data of variable size.
LEMMA ElementsAt ==
    ASSUME NEW b \in Words, HasNo(b, "varSize"), NEW v \in Seq(Int), NEW d \in Words
    PROVE  Elements(b \o ((<<W("varSize", Len(v))>> \o Run("element", v)) \o d)) = v
  <1> DEFINE x == W("varSize", Len(v))
             r == Run("element", v)
  <1>1. /\ x \in Word /\ x.item = "varSize" /\ x.val = Len(v) /\ r \in Words
        /\ Len(r) = Len(v) /\ Len(v) \in Nat /\ \A k \in 1..Len(v) : r[k].val = v[k]
    <2>1. "element" \in Items /\ "varSize" \in Items /\ Len(v) \in Nat
      BY LenProperties DEF Items
    <2>2. r \in Words /\ Len(r) = Len(v)
      BY Zenon, <2>1, RunType
    <2>3. \A k \in 1..Len(v) : r[k].val = v[k]
      BY Zenon DEF Run, W
    <2> QED
      BY <2>1, <2>2, <2>3 DEF W, Word
  <1> HIDE DEF x, r
  <1> DEFINE e == r \o d
             f == <<x>> \o e
             a == b \o f
  <1>2. e \in Words /\ <<x>> \in Words /\ f \in Words /\ a \in Words
        /\ b \o ((<<x>> \o r) \o d) = a
    <2>1. <<x>> \in Words /\ e \in Words
      BY <1>1, One, WordsJoin
    <2>2. f \in Words /\ (<<x>> \o r) \o d = f
      BY <1>1, <2>1, WordsJoin
    <2>3. a \in Words
      BY Zenon, <2>2, WordsJoin
    <2> QED
      BY <2>1, <2>2, <2>3
  <1>3. /\ Len(b) \in Nat /\ Len(d) \in Nat /\ Len(e) = Len(v) + Len(d)
        /\ \A k \in 1..Len(v) : e[k] = r[k]
    <2>1. Len(b) \in Nat /\ Len(d) \in Nat
      BY LenProperties DEF Words
    <2>2. /\ Len(e) = Len(r) + Len(d)
          /\ \A k \in 1..(Len(r) + Len(d)) : e[k] = IF k <= Len(r) THEN r[k] ELSE d[k - Len(r)]
      BY <1>1, ConcatProperties DEF Words
    <2>3. \A k \in 1..Len(v) : k \in 1..(Len(r) + Len(d)) /\ k <= Len(r)
      BY <1>1, <2>1
    <2> HIDE DEF e
    <2> QED
      BY Zenon, <1>1, <2>1, <2>2, <2>3
  <1> HIDE DEF e
  <1>4. /\ Len(f) = 1 + Len(e) /\ f[1] = x /\ \A k \in 1..Len(e) : f[k + 1] = e[k]
    <2> DEFINE o == <<x>>
    <2>1. o \in Seq(Word) /\ e \in Seq(Word) /\ Len(o) = 1 /\ o[1] = x /\ Len(e) \in Nat
      BY <1>1, <1>2, <1>3 DEF Words
    <2> HIDE DEF o
    <2>2. /\ Len(o \o e) = Len(o) + Len(e)
          /\ \A k \in 1..(Len(o) + Len(e)) : (o \o e)[k] = IF k <= Len(o) THEN o[k] ELSE e[k - Len(o)]
      BY <2>1, ConcatProperties
    <2>3. 1 \in 1..(1 + Len(e)) /\ \A k \in 1..Len(e) : k + 1 \in 1..(1 + Len(e))
                                   /\ ~ (k + 1 <= 1) /\ (k + 1) - 1 = k
      BY <2>1
    <2>4. f = o \o e
      BY DEF o
    <2> HIDE DEF f
    <2> QED
      BY <2>1, <2>2, <2>3, <2>4
  <1>5. FirstAt(f, "varSize", 1)
    BY <1>1, <1>3, <1>4 DEF FirstAt
  <1> HIDE DEF f
  <1>6. FirstAt(a, "varSize", Len(b) + 1) /\ a[Len(b) + 1] = f[1]
    BY <1>2, <1>5, FirstJoin
  <1>7. Place(a, "varSize") = Len(b) + 1 /\ Val(a, "varSize") = Len(v)
    <2> DEFINE q == Len(b) + 1
    <2>1. a \in Words /\ FirstAt(a, "varSize", q)
      BY Zenon, <1>2, <1>6
    <2>2. a[q] = x
      BY Zenon, <1>4, <1>6
    <2> HIDE DEF a, q
    <2>3. Place(a, "varSize") = q /\ Val(a, "varSize") = a[q].val
      BY Zenon, <2>1, ValAt
    <2> QED
      BY <1>1, <2>2, <2>3 DEF q
  <1>8. ASSUME NEW k \in 1..Len(v) PROVE a[(Len(b) + 1) + k].val = v[k]
    <2>1. f[k + 1] = r[k] /\ k + 1 \in 1..Len(f) /\ Len(f) \in Nat
      BY <1>1, <1>3, <1>4
    <2>2. a[Len(b) + (k + 1)] = f[k + 1]
      <3>1. \A i \in 1..(Len(b) + Len(f)) :
               (b \o f)[i] = IF i <= Len(b) THEN b[i] ELSE f[i - Len(b)]
        BY Zenon, <1>2, ConcatProperties DEF Words
      <3>2. Len(b) + (k + 1) \in 1..(Len(b) + Len(f)) /\ ~ (Len(b) + (k + 1) <= Len(b))
            /\ (Len(b) + (k + 1)) - Len(b) = k + 1
        BY <1>3, <2>1
      <3> QED
        BY <3>1, <3>2
    <2>3. (Len(b) + 1) + k = Len(b) + (k + 1)
      BY <1>1, <1>3
    <2> QED
      BY <1>1, <2>1, <2>2, <2>3
  <1> HIDE DEF a
  <1>9. Elements(a) = [k \in 1..Len(v) |-> v[k]]
    BY Zenon, <1>7, <1>8 DEF Elements
  <1>10. [k \in 1..Len(v) |-> v[k]] = v
    OBVIOUS
  <1> QED
    BY <1>2, <1>9, <1>10 DEF x, r

\* Attributes that are enabled from 0 upwards.
LEMMA EnabledPrefix ==
    ASSUME \A i \in 0..(NumAttribs - 1) : attribs[i].enabled =>
              \A j \in 0..(i - 1) : attribs[j].enabled
    PROVE  Enabled = 0..(numEnabled - 1) /\ numEnabled \in Nat
  <1>1. NumAttribs \in Nat \ {0}
    BY EglGlesAssumption
  <1> DEFINE T == {i \in 0..NumAttribs : i = NumAttribs \/ ~ attribs[i].enabled}
  <1>2. T \subseteq Nat /\ NumAttribs \in T
    BY <1>1
  <1>3. PICK m \in T : \A i \in T : m <= i
    BY <1>2, Least
  <1>4. Enabled = 0..(m - 1)
    <2>1. ASSUME NEW i \in 0..(m - 1) PROVE i \in Enabled
      <3>1. i \in 0..(NumAttribs - 1) /\ i \notin T
        BY <1>1, <1>2, <1>3
      <3> QED
        BY <1>1, <3>1 DEF Enabled
    <2>2. ASSUME NEW i \in Enabled PROVE i \in 0..(m - 1)
      <3>1. i \in 0..(NumAttribs - 1) /\ attribs[i].enabled
        BY Zenon DEF Enabled
      <3>2. ASSUME m <= i PROVE FALSE
        <4>1. m \in 0..(NumAttribs - 1) /\ ~ attribs[m].enabled
          BY <1>1, <1>3, <3>1, <3>2
        <4>2. m = i \/ m \in 0..(i - 1)
          BY <1>1, <3>1, <3>2, <4>1
        <4> QED
          BY Zenon, <3>1, <4>1, <4>2
      <3> QED
        BY <1>1, <1>3, <3>1, <3>2
    <2> QED
      BY <2>1, <2>2
  <1>5. m \in Nat
    BY <1>2, <1>3
  <1>6. Cardinality(0..(m - 1)) = m
    <2>1. Cardinality(0..(m - 1)) = IF 0 > m - 1 THEN 0 ELSE (m - 1) - 0 + 1
      BY <1>5, FS_Interval
    <2> QED
      BY <1>5, <2>1
  <1> QED
    BY Zenon, <1>4, <1>5, <1>6 DEF numEnabled

\* Attribute i has one index word in a, at q.
Only(a, i, q) ==
    /\ q \in 1..Len(a) /\ a[q].item = "index" /\ a[q].val = i
    /\ \A r \in 1..Len(a) : a[r].item = "index" /\ a[r].val = i => r = q

\* An element is fetched from behind the one index word of its attribute.
LEMMA FetchAt ==
    ASSUME NEW a \in Words, NEW i, NEW q, Only(a, i, q), NEW v \in Nat, NEW g
    PROVE  /\ Val(a, "anyBufferBound") = 1 /\ g # 0 => Fetch(a, i, v, g) = v
           /\ Val(a, "anyBufferBound") # 1 /\ v < Val(a, "numVertices") =>
                Fetch(a, i, v, g) = a[q + 6 + v].val
  <1>1. DOMAIN a = 1..Len(a)
    BY LenProperties DEF Words
  <1>2. (CHOOSE r \in DOMAIN a : a[r].item = "index" /\ a[r].val = i) = q
    BY <1>1 DEF Only
  <1> QED
    BY <1>2 DEF Fetch

\* The server that has read a finds the enabled attributes in it, and fetches
\* for them from a buffer, or the elements of the client's arrays.
Found(a, first, count) ==
    /\ a \in Words /\ Val(a, "anyBufferBound") = gvIsAnyBufferBound
    /\ {a[q].val : q \in {r \in DOMAIN a : a[r].item = "index"}} = Enabled
    /\ \A i \in Enabled : \A v \in Nat : \A g :
         /\ buffers # {} /\ g # 0 => Fetch(a, i, v, g) = v
         /\ buffers = {} /\ v < count => Fetch(a, i, v, g) = first + v

LEMMA Fetched ==
    ASSUME AttribsOK, Enabled = 0..(numEnabled - 1),
           \A i \in Enabled : attribs[i].index = i,
           NEW first \in Nat, NEW count \in Nat, NEW b \in Words,
           HasNo(b, "index"), HasNo(b, "numVertices"), HasNo(b, "anyBufferBound")
    PROVE  Found(b \o VertexAttribWords(first, count), first, count)
  <1> DEFINE n == numEnabled
             a == b \o VertexAttribWords(first, count)
  <1>0. ArraysAt(a, first, count)
    BY Zenon, ArrayPlaces
  <1>1. /\ a \in Words
        /\ Val(a, "anyBufferBound") = gvIsAnyBufferBound
        /\ Val(a, "numVertices") = count
        /\ \E p \in [1..n -> Nat] :
             /\ \A i \in 1..n : p[i] \in 1..Len(a) /\ a[p[i]] = W("index", attribs[i - 1].index)
             /\ \A q \in 1..Len(a) : a[q].item = "index" => \E i \in 1..n : q = p[i]
             /\ buffers = {} => \A i \in 1..n : \A v \in 0..(count - 1) :
                  a[p[i] + 6 + v] = W("vertex", first + v)
    <2> HIDE DEF a
    <2> QED
      BY Zenon, <1>0 DEF ArraysAt
  <1> HIDE DEF a
  <1>3. /\ a \in Words
        /\ Val(a, "anyBufferBound") = gvIsAnyBufferBound
        /\ Val(a, "numVertices") = count
    BY <1>1
  <1>4. PICK p \in [1..n -> Nat] :
             /\ \A i \in 1..n : p[i] \in 1..Len(a) /\ a[p[i]] = W("index", attribs[i - 1].index)
             /\ \A q \in 1..Len(a) : a[q].item = "index" => \E i \in 1..n : q = p[i]
             /\ buffers = {} => \A i \in 1..n : \A v \in 0..(count - 1) :
                  a[p[i] + 6 + v] = W("vertex", first + v)
    BY <1>1
  <1>5. DOMAIN a = 1..Len(a) /\ Len(a) \in Nat /\ n \in Nat
    BY <1>3, LenProperties, NumEnabled DEF Words
  <1>6. Enabled = 0..(n - 1)
    OBVIOUS
  <1> HIDE DEF n
  <1>7. ASSUME NEW i \in 1..n PROVE i - 1 \in Enabled /\ attribs[i - 1].index = i - 1
    <2>1. i - 1 \in 0..(n - 1)
      BY <1>5
    <2>2. i - 1 \in Enabled
      BY <1>6, <2>1
    <2> QED
      BY <2>2
  <1>8. ASSUME NEW i \in Enabled
        PROVE  /\ i + 1 \in 1..n /\ (i + 1) - 1 = i /\ i \in Nat
               /\ p[i + 1] \in 1..Len(a) /\ p[i + 1] \in Nat
               /\ a[p[i + 1]].item = "index" /\ a[p[i + 1]].val = i
               /\ \A r \in 1..Len(a) : a[r].item = "index" /\ a[r].val = i => r = p[i + 1]
    <2>1. i + 1 \in 1..n /\ (i + 1) - 1 = i /\ i \in Nat
      <3>1. i \in 0..(n - 1)
        BY <1>6
      <3> QED
        BY <1>5, <3>1
    <2>2. a[p[i + 1]] = W("index", i) /\ p[i + 1] \in 1..Len(a)
      BY <1>4, <1>7, <2>1
    <2>3. ASSUME NEW r \in 1..Len(a), a[r].item = "index", a[r].val = i
          PROVE  r = p[i + 1]
      <3>1. PICK j \in 1..n : r = p[j]
        BY Zenon, <1>4, <2>3
      <3>2. a[r] = W("index", j - 1)
        BY Zenon, <1>4, <1>7, <3>1
      <3>3. j - 1 = i
        BY <2>3, <3>2 DEF W
      <3>4. j = i + 1
        BY <1>5, <2>1, <3>3
      <3> QED
        BY <3>1, <3>4
    <2> QED
      BY <1>5, <2>1, <2>2, <2>3 DEF W
  <1>9. {a[q].val : q \in {r \in DOMAIN a : a[r].item = "index"}} = Enabled
    <2>1. ASSUME NEW q \in DOMAIN a, a[q].item = "index" PROVE a[q].val \in Enabled
      <3>1. PICK j \in 1..n : q = p[j]
        BY Zenon, <1>4, <1>5, <2>1
      <3>2. a[q] = W("index", j - 1) /\ j - 1 \in Enabled
        BY Zenon, <1>4, <1>7, <3>1
      <3> QED
        BY <3>2 DEF W
    <2>2. ASSUME NEW i \in Enabled
          PROVE  \E q \in DOMAIN a : a[q].item = "index" /\ a[q].val = i
      BY Zenon, <1>5, <1>8
    <2> QED
      BY <2>1, <2>2
  <1>10. gvIsAnyBufferBound = IF buffers # {} THEN 1 ELSE 0
    BY Zenon DEF gvIsAnyBufferBound
  <1>11. ASSUME NEW i \in Enabled, NEW v \in Nat, NEW g
         PROVE  /\ buffers # {} /\ g # 0 => Fetch(a, i, v, g) = v
                /\ buffers = {} /\ v < count => Fetch(a, i, v, g) = first + v
    <2> DEFINE q == p[i + 1]
    <2>1. Only(a, i, q)
      BY Zenon, <1>8 DEF Only
    <2> HIDE DEF q
    <2>2. /\ Val(a, "anyBufferBound") = 1 /\ g # 0 => Fetch(a, i, v, g) = v
          /\ Val(a, "anyBufferBound") # 1 /\ v < Val(a, "numVertices") =>
               Fetch(a, i, v, g) = a[q + 6 + v].val
      BY <1>3, <2>1, FetchAt
    <2>3. ASSUME buffers = {}, v < count PROVE Fetch(a, i, v, g) = first + v
      <3>1. i + 1 \in 1..n /\ v \in 0..(count - 1)
        BY <1>8, <2>3
      <3>2. a[p[i + 1] + 6 + v] = W("vertex", first + v)
        BY Zenon, <1>4, <2>3, <3>1
      <3>3. a[q + 6 + v].val = first + v
        BY <3>2 DEF q, W
      <3>4. Val(a, "anyBufferBound") # 1 /\ v < Val(a, "numVertices")
        BY <1>3, <1>10, <2>3
      <3> QED
        BY Zenon, <2>2, <3>3, <3>4
    <2> QED
      BY Zenon, <1>3, <1>10, <2>2, <2>3
  <1>12. Found(a, first, count)
    BY Zenon, <1>3, <1>9, <1>11 DEF Found
  <1> QED
    BY <1>12 DEF a

\* What a draw's handler reads before the vertex arrays.
Heads(b, c) ==
    /\ b \in Words /\ HasNo(b, "index") /\ HasNo(b, "numVertices") /\ HasNo(b, "anyBufferBound")
    /\ ~ HasNo(b, "count") /\ Val(b, "count") = c.count
    /\ c.cmd = "glDrawArrays" => ~ HasNo(b, "first") /\ Val(b, "first") = c.first

LEMMA DrawHead ==
    ASSUME NEW c \in AppCalls, c.cmd \in Draws, c.cmd \in DOMAIN Calls
    PROVE  Heads(Message(c, Calls[c.cmd].send), c)
  <1> DEFINE t == Calls[c.cmd].send
  <1>1. /\ c.cmd = "glDrawArrays" => t = <<"mode", "first", "count">>
        /\ c.cmd = "glDrawElements" => t = <<"mode", "count", "type", "indices">>
    BY TablesAgree DEF Agree, SentAsRead
  <1>2. WellFormed(c)
    BY EglGlesAssumption
  <1> HIDE DEF t
  <1>3. /\ t \in Seq(Ordinary)
        /\ \A k \in 1..Len(t) : t[k] \notin {"index", "numVertices", "anyBufferBound"}
        /\ \E k \in 1..Len(t) : t[k] = "count"
        /\ c.cmd = "glDrawArrays" => \E k \in 1..Len(t) : t[k] = "first"
    <2>1. CASE c.cmd = "glDrawArrays"
      <3>1. t = <<"mode", "first", "count">>
        BY Zenon, <1>1, <2>1
      <3>2. t \in Seq(Ordinary)
        BY <3>1 DEF Ordinary, Plain, Items, VarSize, Arrays
      <3>3. Len(t) = 3 /\ t[1] = "mode" /\ t[2] = "first" /\ t[3] = "count"
        BY <3>1
      <3> QED
        BY <3>2, <3>3
    <2>2. CASE c.cmd = "glDrawElements"
      <3>1. t = <<"mode", "count", "type", "indices">>
        BY Zenon, <1>1, <2>2
      <3>2. t \in Seq(Ordinary)
        BY <3>1 DEF Ordinary, Plain, Items, VarSize, Arrays
      <3>3. Len(t) = 4 /\ t[1] = "mode" /\ t[2] = "count" /\ t[3] = "type" /\ t[4] = "indices"
        BY Zenon, <3>1
      <3> QED
        BY <2>2, <3>2, <3>3
    <2> QED
      BY <2>1, <2>2 DEF Draws
  <1>4. \A k \in 1..Len(t) : Typed(c, t[k])
    BY Zenon, <1>3, ArgumentsTyped, LenProperties
  <1> DEFINE b == Message(c, t)
  <1>5. b \in Words
    BY <1>3, <1>4, Empty, ReadsMessage
  <1>6. HasNo(b, "index") /\ HasNo(b, "numVertices") /\ HasNo(b, "anyBufferBound")
    BY <1>3, <1>4, MessageVal
  <1>7. "count" \in Plain \ Arrays /\ "first" \in Plain \ Arrays
    BY DEF Plain, Items, VarSize, Arrays
  <1>8. ~ HasNo(b, "count") /\ Val(b, "count") = c.count
    <2>1. "count" \in DOMAIN c
      BY Zenon, <1>2 DEF WellFormed, Draws
    <2> QED
      BY Zenon, <1>3, <1>4, <1>7, <2>1, MessageVal DEF Datum
  <1>9. ASSUME c.cmd = "glDrawArrays" PROVE ~ HasNo(b, "first") /\ Val(b, "first") = c.first
    <2>1. "first" \in DOMAIN c
      BY Zenon, <1>2, <1>9 DEF WellFormed
    <2> QED
      BY Zenon, <1>3, <1>4, <1>7, <1>9, <2>1, MessageVal DEF Datum
  <1> HIDE DEF b
  <1>10. Heads(b, c)
    BY Zenon, <1>5, <1>6, <1>8, <1>9 DEF Heads
  <1> QED
    BY Zenon, <1>10 DEF b, t

\* The indices that a handler finds are those of the call.
LEMMA IndicesFound ==
    ASSUME NEW c \in AppCalls, c.cmd = "glDrawElements", c.cmd \in DOMAIN Calls, NEW d \in Words
    PROVE  Elements(Message(c, Calls[c.cmd].send) \o d) = c.indices
  <1>1. WellFormed(c)
    BY EglGlesAssumption
  <1>2. c.indices \in Seq(Int) /\ "indices" \in DOMAIN c
    <2>1. c.indices \in Seq(Nat) /\ "indices" \in DOMAIN c
      BY Zenon, <1>1 DEF WellFormed
    <2> QED
      BY <2>1, SeqMonotonic
  <1>3. Calls[c.cmd].send = <<"mode", "count", "type", "indices">>
    BY TablesAgree DEF Agree, SentAsRead
  <1> DEFINE o == <<W("mode", Datum(c, "mode"))>>
             p == <<W("count", Datum(c, "count"))>>
             q == <<W("type", Datum(c, "type"))>>
             l == <<W("varSize", Len(c.indices))>> \o Run("element", c.indices)
  <1>4. /\ {"mode", "count", "type"} \subseteq Plain \ Arrays
        /\ {"mode", "count", "type", "indices"} \subseteq Ordinary
        /\ "indices" \in VarSize
    BY DEF Ordinary, Plain, Items, VarSize, Arrays
  <1>5. Typed(c, "mode") /\ Typed(c, "count") /\ Typed(c, "type")
    BY <1>4, ArgumentsTyped
  <1>6. /\ Encode(c, "mode") = o /\ Encode(c, "count") = p /\ Encode(c, "type") = q
        /\ W("mode", Datum(c, "mode")) \in Word /\ W("count", Datum(c, "count")) \in Word
        /\ W("type", Datum(c, "type")) \in Word
    BY <1>4, <1>5, EncodeVal
  <1>7. o \in Words /\ p \in Words /\ q \in Words
    BY Zenon, <1>6, One
  <1>8. HasNo(o, "varSize") /\ HasNo(p, "varSize") /\ HasNo(q, "varSize")
    <2>1. \A x : W("mode", x).item # "varSize" /\ W("count", x).item # "varSize"
                 /\ W("type", x).item # "varSize"
      BY Zenon DEF W
    <2> QED
      BY <1>6, <2>1, ValOne
  <1>9. Encode(c, "indices") = l
    <2>1. Encode(c, "indices")
            = <<W("varSize", Len(c.indices))>> \o [k \in DOMAIN c.indices |-> W("element", c.indices[k])]
      BY <1>2, <1>4 DEF Encode
    <2> QED
      BY <1>2, <2>1, RunWords
  <1>10. l \in Words
    BY <1>2, <1>4, Empty, ReadsVarSize
  <1> HIDE DEF o, p, q
  <1> DEFINE b == o \o (p \o q)
  <1>11. b \in Words /\ HasNo(b, "varSize")
    <2>1. p \o q \in Words /\ HasNo(p \o q, "varSize")
      BY <1>7, <1>8, WordsJoin, FirstJoin
    <2>2. b \in Words
      BY Zenon, <1>7, <2>1, WordsJoin
    <2> QED
      BY <1>7, <1>8, <2>1, <2>2, FirstJoin
  <1>12. Message(c, Calls[c.cmd].send) = o \o (p \o (q \o l))
    <2> HIDE DEF l
    <2>1. Message(c, <<"mode", "count", "type", "indices">>)
            = Encode(c, "mode") \o (Encode(c, "count") \o (Encode(c, "type") \o Encode(c, "indices")))
      BY <1>6, <1>7, <1>9, <1>10, Message4
    <2> QED
      BY <1>3, <1>6, <1>9, <2>1
  <1>13. Elements(b \o (l \o d)) = c.indices
    <2> HIDE DEF b
    <2> QED
      BY <1>2, <1>11, ElementsAt
  <1>14. (o \o (p \o (q \o l))) \o d = b \o (l \o d)
    <2> HIDE DEF l
    <2>1. p \o q \in Words
      BY <1>7, <1>10, WordsJoin
    <2>2. Associates(p, q, l) /\ Associates(o, p \o q, l) /\ Associates(b, l, d)
      BY Zenon, <1>7, <1>10, <1>11, <2>1, WordsAssociate
    <2> QED
      BY <2>2 DEF Associates
  <1> QED
    BY <1>12, <1>13, <1>14

-----------------------------------------------------------------------------
(* Of an application that takes no liberties.                              *)

\* Its attributes are enabled from 0 upwards; those it has specified are of the
\* buffer that is bound, and buffers are noted as soon as one is; and it binds
\* one before it specifies any.
Drawable ==
    /\ \A i \in 0..(NumAttribs - 1) : attribs[i].enabled =>
          \A j \in 0..(i - 1) : attribs[j].enabled
    /\ \A i \in 0..(NumAttribs - 1) : attribs[i].ptr # 0 =>
          attribs[i].index = i /\ attribs[i].buffer = bound
    /\ (buffers = {}) = (bound = 0)
    /\ cpc = "sending" /\ call.cmd = "glBindBuffer" =>
          call.buffer # 0 /\ \A i \in 0..(NumAttribs - 1) : attribs[i].ptr = 0

\* Position first + k - 1, or index k, as the handler counts it.
Position(cmd, a, k) ==
    IF cmd = "glDrawElements" THEN Elements(a)[k]
    ELSE (IF Val(a, "anyBufferBound") = 1 THEN Val(a, "first") ELSE 0) + k - 1

\* For each enabled attribute the handler fetches the n vertices of s.
Matches(cmd, a, g, n, s) ==
    \A i \in Enabled : \A k \in 1..n : Fetch(a, i, Position(cmd, a, k), g) = s[k]

LEMMA SameDraw ==
    ASSUME NEW cmd, NEW a, NEW g, NEW n \in Nat, NEW s, s = [k \in 1..n |-> s[k]],
           {a[q].val : q \in {r \in DOMAIN a : a[r].item = "index"}} = Enabled,
           Val(a, "count") = n, \A i \in Enabled : attribs[i].buffer = g,
           Matches(cmd, a, g, n, s)
    PROVE  DrawnByServer(cmd, a, g) = Draw(cmd, s)
  <1> DEFINE what(i) == [k \in 1..n |-> Fetch(a, i, Position(cmd, a, k), g)]
  <1>1. DrawnByServer(cmd, a, g)
          = [cmd |-> cmd, fetched |-> [i \in Enabled |-> [from |-> g, what |-> what(i)]]]
    BY DEF DrawnByServer, Position
  <1>2. ASSUME NEW i \in Enabled PROVE what(i) = s /\ attribs[i].buffer = g
    <2>1. what(i) = [k \in 1..n |-> s[k]]
      BY DEF Matches
    <2> QED
      BY <2>1
  <1> HIDE DEF what
  <1>3. [i \in Enabled |-> [from |-> g, what |-> what(i)]]
          = [i \in Enabled |-> [from |-> attribs[i].buffer, what |-> s]]
    BY <1>2
  <1> QED
    BY Zenon, <1>1, <1>3 DEF Draw

\* The server draws what a draw meant when it was issued, with the buffer that
\* was bound then.
LEMMA DrawMade ==
    ASSUME Sane, Drawable, NEW c \in AppCalls, c.cmd \in Draws, c.cmd \in DOMAIN Calls,
           Agreed(c), MayCall(c)
    PROVE  DrawnByServer(c.cmd, Arguments(c), bound) = Meant(c)
  <1> DEFINE b == Message(c, Calls[c.cmd].send)
             a == Arguments(c)
  <1>1. Heads(b, c)
    BY DrawHead
  <1>2. AttribsOK /\ bound \in Nat
    BY DEF Sane, AttribsOK
  <1>3. Enabled = 0..(numEnabled - 1)
    BY Zenon, EnabledPrefix DEF Drawable
  <1>4. \A i \in Enabled : attribs[i].index = i /\ attribs[i].buffer = bound
    BY DEF MayCall, Draws, Drawable, Enabled
  <1>5. WellFormed(c)
    BY Zenon, EglGlesAssumption
  <1>6. ASSUME NEW first \in Nat, NEW count \in Nat
        PROVE  /\ Found(b \o VertexAttribWords(first, count), first, count)
               /\ VertexAttribWords(first, count) \in Words
               /\ ~ HasNo(b, "count") => Val(b \o VertexAttribWords(first, count), "count") = Val(b, "count")
               /\ ~ HasNo(b, "first") => Val(b \o VertexAttribWords(first, count), "first") = Val(b, "first")
    <2>1. b \in Words
      BY Zenon, <1>1 DEF Heads
    <2>2. HasNo(b, "index") /\ HasNo(b, "numVertices") /\ HasNo(b, "anyBufferBound")
      BY Zenon, <1>1 DEF Heads
    <2> HIDE DEF b
    <2>3. VertexAttribWords(first, count) \in Words
      <3> DEFINE e == <<>>
      <3>1. e \in Words /\ HasNo(e, "numAttribs") /\ HasNo(e, "numVertices")
        BY Empty DEF HasNo
      <3> QED
        BY Zenon, <1>2, <3>1, VertexAttribWordsRead
    <2>4. Found(b \o VertexAttribWords(first, count), first, count)
      BY Zenon, <1>2, <1>3, <1>4, <2>1, <2>2, Fetched
    <2> QED
      BY <2>1, <2>3, <2>4, ValJoin
  <1>7. gvIsAnyBufferBound = (IF buffers # {} THEN 1 ELSE 0) /\ ((buffers = {}) = (bound = 0))
    BY Zenon DEF gvIsAnyBufferBound, Drawable
  <1>8. CASE c.cmd = "glDrawArrays"
    <2>1. c.first \in Nat /\ c.count \in Nat
      BY Zenon, <1>5, <1>8 DEF WellFormed
    <2>2. a = b \o VertexAttribWords(c.first, c.count)
      BY Zenon, <1>8 DEF Arguments, Passed
    <2>3. /\ ~ HasNo(b, "count") /\ Val(b, "count") = c.count
          /\ ~ HasNo(b, "first") /\ Val(b, "first") = c.first
      BY <1>1, <1>8 DEF Heads
    <2> HIDE DEF a, b
    <2>4. Found(a, c.first, c.count) /\ Val(a, "count") = c.count /\ Val(a, "first") = c.first
      BY Zenon, <1>6, <2>1, <2>2, <2>3
    <2> DEFINE s == [k \in 1..c.count |-> c.first + k - 1]
    <2>5. ASSUME NEW i \in Enabled, NEW k \in 1..c.count
          PROVE  Fetch(a, i, Position(c.cmd, a, k), bound) = s[k]
      <3>1. CASE buffers = {}
        <4>1. Position(c.cmd, a, k) = k - 1
          BY <1>7, <1>8, <2>1, <2>4, <3>1 DEF Position, Found
        <4>2. k - 1 \in Nat /\ k - 1 < c.count /\ c.first + (k - 1) = c.first + k - 1
          BY <2>1
        <4>3. Fetch(a, i, k - 1, bound) = c.first + (k - 1)
          BY <2>4, <3>1, <4>2 DEF Found
        <4> QED
          BY Zenon, <4>1, <4>2, <4>3
      <3>2. CASE buffers # {}
        <4>1. Position(c.cmd, a, k) = c.first + k - 1
          BY Zenon, <1>7, <1>8, <2>4, <3>2 DEF Position, Found
        <4>2. c.first + k - 1 \in Nat /\ bound # 0
          BY <1>7, <2>1, <3>2
        <4>3. Fetch(a, i, c.first + k - 1, bound) = c.first + k - 1
          BY Zenon, <2>4, <3>2, <4>2 DEF Found
        <4> QED
          BY Zenon, <4>1, <4>3
      <3> QED
        BY Zenon, <3>1, <3>2
    <2>6. s = [k \in 1..c.count |-> s[k]]
      OBVIOUS
    <2>7. Meant(c) = Draw(c.cmd, s)
      BY <1>8 DEF Meant
    <2>8. {a[q].val : q \in {r \in DOMAIN a : a[r].item = "index"}} = Enabled
      BY Zenon, <2>4 DEF Found
    <2> HIDE DEF s
    <2>9. DrawnByServer(c.cmd, a, bound) = Draw(c.cmd, s)
      <3>1. Matches(c.cmd, a, bound, c.count, s)
        BY Zenon, <2>5 DEF Matches
      <3>2. \A i \in Enabled : attribs[i].buffer = bound
        BY <1>4
      <3> QED
        BY <2>1, <2>4, <2>6, <2>8, <3>1, <3>2, SameDraw
    <2> QED
      BY <2>7, <2>9 DEF a
  <1>9. CASE c.cmd = "glDrawElements"
    <2> DEFINE m == NumVertices(c.indices)
               s == c.indices
    <2>1. s \in Seq(Nat) /\ c.count = Len(s) /\ Len(s) \in Nat
      BY Zenon, <1>5, <1>9, LenProperties DEF WellFormed
    <2>2. m \in Nat /\ \A k \in 1..Len(s) : s[k] < m
      BY Zenon, <2>1, NumVerticesType
    <2> HIDE DEF m
    <2>3. a = b \o VertexAttribWords(0, m)
      BY <1>9 DEF Arguments, Agreed, Passed, m
    <2>4. ~ HasNo(b, "count") /\ Val(b, "count") = c.count
      BY <1>1 DEF Heads
    <2>5. Found(a, 0, m) /\ Val(a, "count") = c.count
      <3> HIDE DEF a, b
      <3> QED
        BY <1>6, <2>2, <2>3, <2>4
    <2>6. Elements(a) = s
      <3>1. VertexAttribWords(0, m) \in Words
        BY Zenon, <1>6, <2>2
      <3> QED
        BY Zenon, <1>9, <2>3, <3>1, IndicesFound
    <2> HIDE DEF a, b, s
    <2>7. ASSUME NEW i \in Enabled, NEW k \in 1..Len(s)
          PROVE  Fetch(a, i, Position(c.cmd, a, k), bound) = s[k]
      <3>1. Position(c.cmd, a, k) = s[k]
        BY <1>9, <2>6 DEF Position
      <3>2. s[k] \in Nat /\ s[k] < m /\ 0 + s[k] = s[k]
        <4>1. s[k] \in Nat
          BY <2>1
        <4> QED
          BY <2>2, <4>1
      <3>3. Fetch(a, i, s[k], bound) = s[k]
        BY <1>7, <2>5, <3>2 DEF Found
      <3> QED
        BY Zenon, <3>1, <3>3
    <2>8. s = [k \in 1..Len(s) |-> s[k]]
      BY <2>1
    <2>9. Meant(c) = Draw(c.cmd, s)
      BY <1>9 DEF Meant, s
    <2>10. {a[q].val : q \in {r \in DOMAIN a : a[r].item = "index"}} = Enabled
      BY <2>5 DEF Found
    <2>11. DrawnByServer(c.cmd, a, bound) = Draw(c.cmd, s)
      <3>1. Matches(c.cmd, a, bound, Len(s), s)
        BY <2>7 DEF Matches
      <3>2. \A i \in Enabled : attribs[i].buffer = bound
        BY <1>4
      <3> QED
        BY <2>1, <2>5, <2>8, <2>10, <3>1, <3>2, SameDraw
    <2> QED
      BY <2>9, <2>11 DEF a
  <1> QED
    BY <1>8, <1>9 DEF Draws

\* What GL is asked for with command e.
Made(e) == MadeByServer(e.cmd, e.args, e.gl)

LEMMA IssuedMade ==
    ASSUME Sane, Drawable, cpc = "idle", NEW c \in AppCalls, c.cmd \in DOMAIN Calls,
           Agreed(c), Meaningful(c), MayCall(c)
    PROVE  Made(Issued(c)) = Meant(c)
  <1>1. Made(Issued(c)) = MadeByServer(c.cmd, Arguments(c), bound)
    <2>1. Fin = bound
      BY IssuedType
    <2> QED
      BY Zenon, <2>1 DEF Made, Issued
  <1>2. CASE c.cmd \in Draws
    <2>1. MadeByServer(c.cmd, Arguments(c), bound) = DrawnByServer(c.cmd, Arguments(c), bound)
      BY <1>2 DEF MadeByServer, Draws
    <2> QED
      BY Zenon, <1>1, <1>2, <2>1, DrawMade
  <1>3. CASE c.cmd \notin Draws
    <2>1. MadeByServer(c.cmd, Arguments(c), bound) = [cmd |-> c.cmd, args |-> Arguments(c)]
      BY Zenon, <1>3 DEF MadeByServer, Draws, Meaningful
    <2>2. CASE c.cmd = "glShaderSource"
      <3>1. c.strings \in Seq(Seq(Int))
        <4>1. WellFormed(c)
          BY Zenon, EglGlesAssumption
        <4> QED
          BY <2>2, <4>1 DEF WellFormed
      <3>2. [i \in DOMAIN c.strings |-> c.strings[1]] = [i \in DOMAIN c.strings |-> c.strings[i]]
        BY Zenon, <2>2 DEF Meaningful
      <3>3. [i \in DOMAIN c.strings |-> c.strings[i]] = c.strings
        BY <3>1
      <3>4. Arguments(c) = Message(c, Calls[c.cmd].send) \o ShaderSourceWords(c, c.strings)
        BY Zenon, <2>2, <3>2, <3>3 DEF Arguments, Passed
      <3>5. Meant(c) = [cmd |-> c.cmd, args |-> Message(c, Calls[c.cmd].send)
                                                \o ShaderSourceWords(c, c.strings)]
        BY <2>2 DEF Meant
      <3> QED
        BY Zenon, <1>1, <2>1, <3>4, <3>5
    <2>3. CASE c.cmd # "glShaderSource"
      <3>1. Meant(c) = [cmd |-> c.cmd, args |-> Arguments(c)]
        BY Zenon, <1>3, <2>3 DEF Meant, Draws
      <3> QED
        BY Zenon, <1>1, <2>1, <3>1
    <2> QED
      BY Zenon, <2>2, <2>3
  <1> QED
    BY Zenon, <1>2, <1>3

LEMMA InitDrawable ==
    ASSUME Init
    PROVE  Drawable
  BY Zenon DEF Init, Drawable

LEMMA DrawableStep ==
    ASSUME Sane, Drawable, Liberties = {}, [Next]_vars
    PROVE  Drawable'
  <1> DEFINE I == 0..(NumAttribs - 1)
  <1>1. attribs \in [I -> [enabled : BOOLEAN, index : Nat, ptr : {0, 1}, buffer : Nat]]
        /\ DOMAIN attribs = I /\ NumAttribs \in Nat
    BY Zenon, EglGlesAssumption DEF Sane, AttribsOK
  <1>2. ASSUME NEW c \in AppCalls, Issue(c) PROVE Drawable'
    <2>1. UNCHANGED <<attribs, buffers, bound>> /\ cpc' = "sending" /\ call' = c
      BY <1>2 DEF Issue
    <2>2. c.cmd = "glBindBuffer" => c.buffer # 0 /\ \A i \in I : attribs[i].ptr = 0
      BY <1>1, <1>2 DEF Issue, MayCall
    <2> QED
      BY Zenon, <2>1, <2>2 DEF Drawable
  <1>3. ASSUME NEW c \in AppCalls, VertexAttribPointer(c) PROVE Drawable'
    <2>1. UNCHANGED <<buffers, bound, cpc, call>> /\ cpc = "idle"
      BY Zenon, <1>3 DEF VertexAttribPointer
    <2>2. c.index \in I
      <3>1. WellFormed(c)
        BY Zenon, EglGlesAssumption
      <3> QED
        BY Zenon, <1>3, <3>1 DEF VertexAttribPointer, WellFormed
    <2> DEFINE j == c.index
    <2>3. attribs' = [attribs EXCEPT ![j].index = j, ![j].ptr = 1, ![j].buffer = bound]
      BY Zenon, <1>3 DEF VertexAttribPointer
    <2> HIDE DEF j
    <2>4. \A i \in I : /\ attribs'[i].enabled = attribs[i].enabled
                       /\ i # j => attribs'[i] = attribs[i]
                       /\ i = j => attribs'[i].index = i /\ attribs'[i].buffer = bound
      <3>1. j \in I
        BY <2>2 DEF j
      <3> QED
        BY Zenon, <1>1, <2>3, <3>1
    <2>5. \A i \in I : attribs'[i].enabled => \A k \in 0..(i - 1) : attribs'[k].enabled
      <3>1. \A i \in I : \A k \in 0..(i - 1) : k \in I
        BY <1>1
      <3> QED
        BY Zenon, <2>4, <3>1 DEF Drawable
    <2>6. \A i \in I : attribs'[i].ptr # 0 => attribs'[i].index = i /\ attribs'[i].buffer = bound
      BY <2>4 DEF Drawable
    <2> QED
      BY Zenon, <2>1, <2>5, <2>6 DEF Drawable
  <1>4. ASSUME NEW c \in AppCalls, EnableVertexAttribArray(c) PROVE Drawable'
    <2>1. UNCHANGED <<buffers, bound, cpc, call>> /\ cpc = "idle"
      BY Zenon, <1>4 DEF EnableVertexAttribArray
    <2>2. c.index \in I
      <3>1. WellFormed(c)
        BY EglGlesAssumption
      <3> QED
        BY Zenon, <1>4, <3>1 DEF EnableVertexAttribArray, WellFormed
    <2> DEFINE j == c.index
    <2>3. attribs' = [attribs EXCEPT ![j].enabled = TRUE]
          /\ \A k \in 0..(j - 1) : attribs[k].enabled
      BY <1>4 DEF EnableVertexAttribArray
    <2>4. j \in I
      BY <2>2
    <2> HIDE DEF j
    <2>5. \A i \in I : /\ attribs'[i].ptr = attribs[i].ptr /\ attribs'[i].index = attribs[i].index
                       /\ attribs'[i].buffer = attribs[i].buffer
                       /\ attribs'[i].enabled = (i = j \/ attribs[i].enabled)
      BY <1>1, <2>3, <2>4
    <2>6. \A i \in I : attribs'[i].enabled => \A k \in 0..(i - 1) : attribs'[k].enabled
      <3>1. \A i \in I : \A k \in 0..(i - 1) : k \in I
        BY <1>1
      <3> QED
        BY <2>3, <2>5, <3>1 DEF Drawable
    <2>7. \A i \in I : attribs'[i].ptr # 0 => attribs'[i].index = i /\ attribs'[i].buffer = bound
      BY <2>5 DEF Drawable
    <2> QED
      BY <2>1, <2>6, <2>7 DEF Drawable
  <1>5. CASE SendWord
    <2>1. attribs' = attribs /\ cpc = "sending"
      BY <1>5 DEF SendWord
    <2>2. CASE Len(out) # 1
      BY <1>5, <2>1, <2>2 DEF SendWord, Drawable
    <2>3. CASE Len(out) = 1
      <3>1. cpc' # "sending"
        BY Zenon, <1>5, <2>3 DEF SendWord
      <3>2. CASE call.cmd = "glBindBuffer"
        <4>1. buffers' = buffers \cup {call.buffer} /\ bound' = call.buffer
          BY Zenon, <1>5, <2>3, <3>2 DEF SendWord
        <4>2. call.buffer # 0 /\ \A i \in I : attribs[i].ptr = 0
          BY <2>1, <3>2 DEF Drawable
        <4> QED
          BY Zenon, <2>1, <3>1, <4>1, <4>2 DEF Drawable
      <3>3. CASE call.cmd # "glBindBuffer"
        <4>1. buffers' = buffers /\ bound' = bound
          BY Zenon, <1>5, <3>3 DEF SendWord
        <4> QED
          BY Zenon, <2>1, <3>1, <4>1 DEF Drawable
      <3> QED
        BY Zenon, <3>2, <3>3
    <2> QED
      BY <2>2, <2>3
  <1>6. CASE ReceiveWord
    <2>1. UNCHANGED <<attribs, buffers, bound>> /\ cpc' # "sending"
      BY Zenon, <1>6 DEF ReceiveWord
    <2> QED
      BY Zenon, <2>1 DEF Drawable
  <1>7. CASE ServerStep \/ UNCHANGED vars
    <2>1. UNCHANGED <<attribs, buffers, bound, cpc, call>>
      BY <1>7 DEF ServerStep, Dispatch, Receive, Execute, ReplyWord, vars, clientVars
    <2> QED
      BY Zenon, <2>1 DEF Drawable
  <1> QED
    BY Zenon, <1>2, <1>3, <1>4, <1>5, <1>6, <1>7 DEF Next, ClientStep

-----------------------------------------------------------------------------
(* The calls that are pending are those of the commands queued.            *)

\* P is what the commands of Q ask for.
Asks(P, Q) == P = [k \in 1..Len(Q) |-> Made(Q[k])]

LEMMA AsksAll ==
    ASSUME NEW Q \in Commands, NEW P, Asks(P, Q), NEW x
    PROVE  /\ Len(P) = Len(Q) /\ (P = <<>>) = (Q = <<>>) /\ Len(P) \in Nat
           /\ \E S : P \in Seq(S) /\ x \in S
  <1> DEFINE S == {Made(Q[k]) : k \in 1..Len(Q)} \cup {x}
             n == Len(Q)
  <1>1. n \in Nat
    BY LenProperties DEF Commands
  <1>2. P = [k \in 1..n |-> Made(Q[k])] /\ P \in [1..n -> S]
    BY Zenon DEF Asks
  <1> HIDE DEF S
  <1>3. P \in Seq(S) /\ Len(P) = n
    BY <1>1, <1>2
  <1>4. (P = <<>>) = (n = 0)
    BY <1>1, <1>3, EmptySeq
  <1>5. (Q = <<>>) = (n = 0)
    BY Zenon, EmptySeq DEF Commands
  <1>6. x \in S
    BY DEF S
  <1> QED
    BY <1>1, <1>3, <1>4, <1>5, <1>6

LEMMA AsksMore ==
    ASSUME NEW Q \in Commands, NEW P, Asks(P, Q), NEW e \in Command
    PROVE  /\ Asks(Append(P, Made(e)), Append(Q, e)) /\ Append(P, Made(e)) # <<>>
           /\ Len(Append(P, Made(e))) = Len(P) + 1
           /\ SubSeq(Append(P, Made(e)), 1, Len(P)) = P
  <1> DEFINE x == Made(e)
             R == Append(Q, e)
             T == Append(P, x)
             n == Len(Q)
  <1>1. /\ R \in Commands /\ Len(R) = n + 1 /\ R[n + 1] = e /\ n \in Nat
        /\ \A k \in 1..n : R[k] = Q[k]
    BY Zenon, StreamLast
  <1>2. PICK S : P \in Seq(S) /\ x \in S
    BY AsksAll
  <1>3. Len(P) = n
    BY Zenon, AsksAll
  <1>4. \A k \in 1..n : P[k] = Made(Q[k])
    BY DEF Asks
  <1> HIDE DEF n, R, x
  <1>5. /\ T \in Seq(S) /\ T # <<>> /\ Len(T) = n + 1 /\ T[n + 1] = x
        /\ \A k \in 1..n : T[k] = P[k]
    BY <1>2, <1>3, AppendProperties
  <1> HIDE DEF T
  <1>6. T = [k \in 1..(n + 1) |-> Made(R[k])]
    <2>1. T = [k \in 1..(n + 1) |-> T[k]]
      BY <1>5
    <2>2. \A k \in 1..(n + 1) : T[k] = Made(R[k])
      <3>1. \A k \in 1..(n + 1) : k \in 1..n \/ k = n + 1
        BY <1>1
      <3> QED
        BY Zenon, <1>1, <1>4, <1>5, <3>1 DEF x
    <2> QED
      BY Zenon, <2>1, <2>2
  <1>7. SubSeq(T, 1, n) = P
    <2>1. SubSeq(T, 1, n) = [k \in 1..n |-> T[k]]
      BY <1>1, <1>5
    <2>2. P = [k \in 1..n |-> P[k]]
      BY <1>2, <1>3
    <2> QED
      BY Zenon, <1>5, <2>1, <2>2
  <1>8. Asks(T, R)
    BY Zenon, <1>1, <1>6 DEF Asks
  <1> QED
    BY Zenon, <1>3, <1>5, <1>7, <1>8 DEF T, R, x

LEMMA AsksLess ==
    ASSUME NEW Q \in Commands, Q # <<>>, NEW P, Asks(P, Q)
    PROVE  P # <<>> /\ Head(P) = Made(Q[1]) /\ Asks(Tail(P), Tail(Q))
           /\ (Tail(P) = <<>>) = (Len(P) = 1)
  <1> DEFINE n == Len(Q)
             R == Tail(Q)
             T == Tail(P)
  <1>1. /\ R \in Commands /\ Len(R) = n - 1 /\ n \in Nat \ {0}
        /\ \A k \in 1..(n - 1) : R[k] = Q[k + 1]
    BY StreamFirst
  <1>2. PICK S : P \in Seq(S)
    BY Zenon, AsksAll
  <1>3. Len(P) = n /\ P # <<>>
    BY AsksAll
  <1>4. \A k \in 1..n : P[k] = Made(Q[k])
    BY Zenon DEF Asks
  <1> HIDE DEF n, R
  <1>5. /\ T \in Seq(S) /\ Len(T) = n - 1 /\ Head(P) = P[1]
        /\ \A k \in 1..(n - 1) : T[k] = P[k + 1]
    BY <1>2, <1>3, HeadTailProperties
  <1> HIDE DEF T
  <1>6. T = [k \in 1..(n - 1) |-> Made(R[k])]
    <2>1. T = [k \in 1..(n - 1) |-> T[k]]
      BY <1>5
    <2>2. \A k \in 1..(n - 1) : T[k] = Made(R[k])
      <3>1. \A k \in 1..(n - 1) : k + 1 \in 1..n
        BY <1>1
      <3> QED
        BY <1>1, <1>4, <1>5, <3>1
    <2> QED
      BY <2>1, <2>2
  <1>7. Asks(T, R)
    BY Zenon, <1>1, <1>6 DEF Asks
  <1>8. 1 \in 1..n
    BY <1>1
  <1>9. (T = <<>>) = (n = 1)
    BY <1>1, <1>5, EmptySeq
  <1> QED
    BY Zenon, <1>3, <1>4, <1>5, <1>7, <1>8, <1>9 DEF R, T

-----------------------------------------------------------------------------
(* EglGles implements CommandStream.                                       *)

\* The commands mean what the application means, in every call that it makes.
Straight == \A c \in AppCalls : Meaningful(c)

MeantInv == Sane /\ Drawable /\ \E Q : Queue(Q) /\ Asks(pending, Q)

\* The thread as CommandStream sees it.
Phase == IF cpc = "idle" \/ wants = <<>> THEN "free"
         ELSE IF pending = <<>> THEN "answered" ELSE "waiting"
Stutter == UNCHANGED <<pending, made, answer, Phase>>

\* A function waits for the last command queued, or for none.
LEMMA PhaseFollows ==
    ASSUME Sane, NEW Q, Queue(Q), Asks(pending, Q)
    PROVE  /\ NoAnswer(Q) => Phase = "free"
           /\ Unanswered(Q) => Phase = "waiting"
           /\ Answered(Q) => Phase = "answered"
           /\ Q \in Commands /\ Len(pending) = Len(Q)
           /\ (pending = <<>>) = (Q = <<>>)
  <1>1. Q \in Commands
    BY DEF Queue, Queued
  <1>2. Len(pending) = Len(Q) /\ (pending = <<>>) = (Q = <<>>)
    BY <1>1, AsksAll
  <1>3. Answered(Q) => wants # <<>>
    BY Zenon DEF Answered, Sane
  <1> QED
    BY Zenon, <1>1, <1>2, <1>3 DEF Phase, NoAnswer, Unanswered, Answered

LEMMA IssueMeans ==
    ASSUME Sane, Drawable, NEW Q, Queue(Q), Asks(pending, Q), NEW c \in AppCalls, Issue(c),
           Agreed(c), Meaningful(c)
    PROVE  Abstract!Issue /\ \E R : Queue(R)' /\ Asks(pending', R)
  <1>1. cpc = "idle" /\ c.cmd \in DOMAIN Calls /\ MayCall(c) /\ cpc' = "sending"
        /\ pending' = Append(pending, Meant(c)) /\ answer' = <<>> /\ made' = made
    BY Zenon DEF Issue
  <1>2. Issued(c) \in Command /\ Made(Issued(c)) = Meant(c)
    BY <1>1, IssuedType, IssuedMade
  <1>3. Q \in Commands
    BY DEF Queue, Queued
  <1>4. /\ Asks(pending', Append(Q, Issued(c))) /\ pending' # <<>>
        /\ Len(pending') = Len(pending) + 1 /\ SubSeq(pending', 1, Len(pending)) = pending
    BY <1>1, <1>2, <1>3, AsksMore
  <1>5. PICK R : R = Append(Q, Issued(c))
    OBVIOUS
  <1>6. Queue(R)'
    BY <1>5, IssueQueue
  <1>7. Phase = "free" /\ Phase' \in {"waiting", "free"}
    BY <1>1, <1>4 DEF Phase
  <1>8. Abstract!Issue
    BY <1>1, <1>4, <1>7 DEF Abstract!Issue, Phase
  <1> QED
    BY Zenon, <1>4, <1>5, <1>6, <1>8

LEMMA ExecuteMeans ==
    ASSUME Agreement, Sane, NEW Q, Queue(Q), Asks(pending, Q), Execute
    PROVE  Abstract!Execute /\ \E R : Queue(R)' /\ Asks(pending', R)
  <1>1. made' = <<MadeByServer(scmd, args, glBound)>> /\ pending' = Tail(pending)
        /\ cpc' = cpc /\ wants' = wants
    BY Zenon DEF Execute, clientVars
  <1>2. Q # <<>> /\ Q[1] \in Command /\ scmd = Q[1].cmd /\ args = Q[1].args
    BY Zenon, Executes
  <1>3. glBound = Q[1].gl
    BY Zenon, <1>2 DEF Queue, Linked
  <1>4. made' = <<Made(Q[1])>>
    BY Zenon, <1>1, <1>2, <1>3 DEF Made
  <1>5. Q \in Commands /\ Len(pending) = Len(Q)
    BY Zenon, PhaseFollows
  <1>6. /\ pending # <<>> /\ Head(pending) = Made(Q[1]) /\ Asks(pending', Tail(Q))
        /\ (pending' = <<>>) = (Len(pending) = 1)
    BY <1>1, <1>2, <1>5, AsksLess
  <1>7. PICK R : R = Tail(Q)
    OBVIOUS
  <1>8. Queue(R)'
    BY <1>7, ExecuteQueue
  <1>9. IF Phase = "waiting" /\ Len(pending) = 1
        THEN Phase' = "answered"
        ELSE UNCHANGED <<Phase, answer>>
    <2>1. CASE Phase = "waiting" /\ Len(pending) = 1
      BY <1>1, <1>6, <2>1 DEF Phase
    <2>2. CASE ~ (Phase = "waiting" /\ Len(pending) = 1)
      <3>1. Phase' = Phase
        BY Zenon, <1>1, <1>6, <2>2 DEF Phase
      <3>2. answer' = answer
        BY <1>5, <2>2, ExecuteReplies, PhaseFollows
      <3> QED
        BY Zenon, <2>2, <3>1, <3>2
    <2> QED
      BY <2>1, <2>2
  <1>10. Abstract!Execute
    BY Zenon, <1>1, <1>4, <1>6, <1>9 DEF Abstract!Execute, Phase
  <1> QED
    BY Zenon, <1>6, <1>7, <1>8, <1>10

LEMMA ReceiveMeans ==
    ASSUME Sane, NEW Q, Queue(Q), Asks(pending, Q), ReceiveWord
    PROVE  Abstract!Return \/ Stutter
  <1>1. UNCHANGED <<pending, made, answer>> /\ cpc = "receiving"
        /\ cpc' = IF wants' = <<>> THEN "idle" ELSE "receiving"
    BY Zenon DEF ReceiveWord, history
  <1>2. Q = <<>>
    BY Zenon, ClientReads
  <1>3. pending = <<>> /\ wants # <<>>
    BY Zenon, <1>1, <1>2, PhaseFollows DEF Sane
  <1>4. Phase = "answered"
    BY Zenon, <1>1, <1>3 DEF Phase
  <1>5. Phase' = IF wants' = <<>> THEN "free" ELSE "answered"
    BY Zenon, <1>1, <1>3 DEF Phase
  <1>6. CASE wants' = <<>>
    BY Zenon, <1>1, <1>4, <1>5, <1>6 DEF Abstract!Return, Phase
  <1>7. CASE wants' # <<>>
    BY Zenon, <1>1, <1>4, <1>5, <1>7 DEF Stutter
  <1> QED
    BY Zenon, <1>6, <1>7

LEMMA SendMeans ==
    ASSUME Sane, SendWord
    PROVE  Stutter
  <1>1. UNCHANGED <<pending, made, answer, wants>> /\ cpc = "sending"
        /\ (cpc' = "idle" => wants = <<>>)
    BY DEF SendWord, history
  <1> QED
    BY Zenon, <1>1 DEF Stutter, Phase

LEMMA MeantStep ==
    ASSUME Agreement, Straight, Liberties = {}, MeantInv, [Next]_vars
    PROVE  MeantInv' /\ (Abstract!Next \/ Stutter)
  <1>1. PICK Q : Queue(Q) /\ Asks(pending, Q)
    BY Zenon DEF MeantInv
  <1>2. Sane /\ Drawable
    BY Zenon DEF MeantInv
  <1>3. Drawable'
    BY <1>2, DrawableStep
  <1>4. Sane'
    <2>1. IInv
      BY Zenon, <1>1, <1>2 DEF IInv
    <2> QED
      BY Zenon, <2>1, IInvStep DEF IInv
  <1>5. ASSUME NEW c \in AppCalls, Issue(c) PROVE MeantInv' /\ Abstract!Next
    <2>1. Agreed(c) /\ Meaningful(c)
      BY Zenon DEF Agreement, Straight
    <2>2. Abstract!Issue /\ \E R : Queue(R)' /\ Asks(pending', R)
      BY Zenon, <1>1, <1>2, <1>5, <2>1, IssueMeans
    <2> QED
      BY Zenon, <1>3, <1>4, <2>2 DEF MeantInv, Abstract!Next
  <1>6. CASE Execute
    <2>1. Abstract!Execute /\ \E R : Queue(R)' /\ Asks(pending', R)
      BY Zenon, <1>1, <1>2, <1>6, ExecuteMeans
    <2> QED
      BY Zenon, <1>3, <1>4, <2>1 DEF MeantInv, Abstract!Next
  <1>7. ASSUME pending' = pending, Queue(Q)'
        PROVE  MeantInv'
    <2>1. Asks(pending', Q)
      BY Zenon, <1>1, <1>7
    <2> QED
      BY Zenon, <1>3, <1>4, <1>7, <2>1 DEF MeantInv
  <1>8. CASE ReceiveWord
    <2>1. pending' = pending /\ Queue(Q)'
      BY <1>1, <1>2, <1>8, ReceiveWordQueue DEF ReceiveWord, history
    <2>2. Abstract!Return \/ Stutter
      BY <1>1, <1>2, <1>8, ReceiveMeans
    <2> QED
      BY Zenon, <1>7, <2>1, <2>2 DEF Abstract!Next
  <1>9. CASE SendWord
    <2>1. pending' = pending /\ Queue(Q)'
      BY Zenon, <1>1, <1>2, <1>9, SendWordQueue DEF SendWord, history
    <2> QED
      BY Zenon, <1>2, <1>7, <1>9, <2>1, SendMeans
  <1>10. ASSUME UNCHANGED <<cpc, wants, pending, made, answer>>, Queue(Q)'
         PROVE  MeantInv' /\ Stutter
    <2>1. Stutter
      BY Zenon, <1>10 DEF Stutter, Phase
    <2> QED
      BY <1>7, <1>10, <2>1
  <1>11. ASSUME NEW c \in AppCalls, VertexAttribPointer(c) \/ EnableVertexAttribArray(c)
         PROVE  MeantInv' /\ Stutter
    <2>1. Queue(Q)'
      BY Zenon, <1>1, <1>2, <1>11, PointerKeeps
    <2>2. UNCHANGED <<cpc, wants, pending, made, answer>>
      BY Zenon, <1>11 DEF VertexAttribPointer, EnableVertexAttribArray, history
    <2> QED
      BY Zenon, <1>10, <2>1, <2>2
  <1>12. CASE Dispatch
    BY Zenon, <1>1, <1>2, <1>10, <1>12, DispatchKeeps DEF Dispatch, clientVars, history
  <1>13. CASE Receive
    BY Zenon, <1>1, <1>2, <1>10, <1>13, ReceiveKeeps DEF Receive, clientVars, history
  <1>14. CASE ReplyWord
    BY <1>1, <1>2, <1>10, <1>14, ReplyWordKeeps DEF ReplyWord, clientVars, history
  <1>15. CASE UNCHANGED vars
    BY Zenon, <1>1, <1>2, <1>10, <1>15, Stutters DEF vars, clientVars, history
  <1> QED
    BY Zenon, <1>5, <1>6, <1>8, <1>9, <1>11, <1>12, <1>13, <1>14, <1>15
    DEF Next, ClientStep, ServerStep

\* The promise of the remoting: the server makes the application's calls, each
\* once, in order, with the arguments and the vertices that the application
\* meant, and a function with a result returns after its call was made.  For
\* calls on whose messages both sides agree, of which the server does not make
\* others (glShaderSource with different strings, glGetProgramInfoLog), and an
\* application that takes no liberties with its vertex arrays.
THEOREM EglGlesIsCommandStream ==
    ASSUME Agreement, Straight, Liberties = {}
    PROVE  Spec => ImplementsCommandStream
  <1>1. Init => MeantInv
    <2> SUFFICES ASSUME Init PROVE MeantInv
      OBVIOUS
    <2> DEFINE Q == <<>>
    <2>1. Queue(Q)
      BY Zenon, InitQueue
    <2>2. Asks(pending, Q)
      BY DEF Init, Asks
    <2> QED
      BY Zenon, <2>1, <2>2, InitSane, InitDrawable DEF MeantInv
  <1>2. MeantInv /\ [Next]_vars => MeantInv'
    BY MeantStep
  <1>3. Init => Abstract!Init
    BY DEF Init, Abstract!Init
  <1>4. MeantInv /\ [Next]_vars
          => [Abstract!Next]_<<pending, made, Phase, answer>>
    BY MeantStep DEF Stutter
  <1> QED
    BY <1>1, <1>2, <1>3, <1>4, PTL DEF Spec, ImplementsCommandStream, Abstract!Spec, Phase
=============================================================================
