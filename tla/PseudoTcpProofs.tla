---------------------------- MODULE PseudoTcpProofs ----------------------------
(***************************************************************************)
(* The streams of PseudoTcp are in order, its windows are kept and neither *)
(* end waits for nothing, for buffers, windows and segments of every size, *)
(* however packets are lost, held back and doubled.                        *)
(*                                                                         *)
(* TcpInv ties the two ends and the packets between them together: Fine is *)
(* what an end and its peer agree on, and each function of the code keeps  *)
(* it; Phase, Progress and Content are what a call leaves of an end when   *)
(* it is over.  What a packet says of its sender's past must remain true   *)
(* for as long as it is on its way: Grows is the order in which an end may *)
(* change, and packets, acknowledgements and windows are bounded by what   *)
(* only grows.                                                             *)
(*                                                                         *)
(* The loops of the code are recursive functions of the number of passes.  *)
(* That every pass keeps what the first one found is proved with the least *)
(* pass that does not, Least.                                              *)
(***************************************************************************)
EXTENDS PseudoTcp, WellFoundedInduction, FiniteSetTheorems, SequenceTheorems, TLAPS

-------------------------------------------------------------------------------
\* Lists, segments and sequence numbers.

\* A set of naturals has a least member.
LEMMA Least ==
  ASSUME NEW T, T \subseteq Nat, T # {}
  PROVE  \E x \in T : \A y \in T : x <= y
<1>1. IsWellFoundedOn(OpToRel(<, Nat), Nat)
  BY NatLessThanWellFounded
<1>2. PICK x \in T : \A y \in T : ~ (<<y, x>> \in OpToRel(<, Nat))
  BY <1>1, WFMin
<1>3. \A y \in Nat : y < x => <<y, x>> \in OpToRel(<, Nat)
  BY DEF OpToRel
<1>4. \A y \in T : ~ (y < x)
  BY <1>2, <1>3
<1>5. \A y \in T : x <= y
  BY <1>4
<1> QED
  BY <1>5

\* r is l with x before its member i.
InsertedAt(l, i, x, r) ==
  /\ Len(r) = Len(l) + 1
  /\ \A k \in 1..i - 1 : r[k] = l[k]
  /\ r[i] = x
  /\ \A k \in i + 1..Len(l) + 1 : r[k] = l[k - 1]

\* What InsertAt and RemoveAt do to a list.
LEMMA Inserting ==
  ASSUME NEW S, NEW l \in Seq(S), NEW i \in 1..Len(l) + 1, NEW x \in S
  PROVE  InsertAt(l, i, x) \in Seq(S) /\ InsertedAt(l, i, x, InsertAt(l, i, x))
<1>0. Len(l) \in Nat /\ \A k \in 1..Len(l) : l[k] \in S
  BY LenProperties, ElementOfSeq
<1>a. PICK a : a = SubSeq(l, 1, i - 1)
  OBVIOUS
<1>b. PICK b : b = SubSeq(l, i, Len(l))
  OBVIOUS
<1>1. a \in Seq(S) /\ Len(a) = i - 1 /\ \A k \in 1..i - 1 : a[k] = l[k]
  BY <1>0, <1>a, SubSeqProperties
<1>2. b \in Seq(S) /\ Len(b) = Len(l) - i + 1 /\ \A k \in 1..Len(l) - i + 1 : b[k] = l[i + k - 1]
  BY <1>0, <1>b, SubSeqProperties
<1>3. <<x>> \in Seq(S) /\ Len(<<x>>) = 1 /\ <<x>>[1] = x
  OBVIOUS
<1>4. PICK c : c = a \o <<x>>
  OBVIOUS
<1>5. /\ c \in Seq(S) /\ Len(c) = Len(a) + 1
      /\ \A k \in 1..Len(a) + 1 : c[k] = IF k <= Len(a) THEN a[k] ELSE <<x>>[k - Len(a)]
  BY <1>1, <1>3, <1>4, ConcatProperties
<1>6. Len(c) = i /\ (\A k \in 1..i - 1 : c[k] = l[k]) /\ c[i] = x
  BY <1>1, <1>3, <1>5
<1>7. PICK d : d = c \o b
  OBVIOUS
<1>8. /\ d \in Seq(S) /\ Len(d) = Len(c) + Len(b)
      /\ \A k \in 1..Len(c) + Len(b) : d[k] = IF k <= Len(c) THEN c[k] ELSE b[k - Len(c)]
  BY <1>2, <1>5, <1>7, ConcatProperties
<1>9. \A k \in i + 1..Len(l) + 1 : d[k] = l[k - 1]
  <2> TAKE k \in i + 1..Len(l) + 1
  <2>1. d[k] = b[k - i]
    BY <1>0, <1>2, <1>6, <1>8
  <2>2. k - i \in 1..Len(l) - i + 1 /\ i + (k - i) - 1 = k - 1
    BY <1>0
  <2> QED
    BY <1>2, <2>1, <2>2
<1>10. (\A k \in 1..i - 1 : d[k] = l[k]) /\ d[i] = x
  BY <1>0, <1>2, <1>6, <1>8
<1>11. InsertAt(l, i, x) = d
  BY <1>a, <1>b, <1>4, <1>7 DEF InsertAt
<1>12. Len(d) = Len(l) + 1
  BY <1>0, <1>2, <1>6, <1>8
<1>13. InsertedAt(l, i, x, d)
  BY <1>9, <1>10, <1>12 DEF InsertedAt
<1> QED
  BY <1>8, <1>11, <1>13

\* What is left of a list without one of its members is a list of the same kind.
LEMMA Removing ==
  ASSUME NEW S, NEW l \in Seq(S), NEW i \in 1..Len(l)
  PROVE  RemoveAt(l, i) \in Seq(S)
<1>0. Len(l) \in Nat /\ \A k \in 1..Len(l) : l[k] \in S
  BY LenProperties, ElementOfSeq
<1>1. SubSeq(l, 1, i - 1) \in Seq(S)
  BY <1>0, SubSeqProperties
<1>2. SubSeq(l, i + 1, Len(l)) \in Seq(S)
  BY <1>0, SubSeqProperties
<1> QED
  BY <1>1, <1>2, ConcatProperties DEF RemoveAt

\* Arithmetic that does not wrap.
LEMMA NoWrapping ==
  ASSUME NEW a \in Nat, NEW b \in Nat
  PROVE  /\ a + b < SeqRange => Plus(a, b) = a + b
         /\ b <= a /\ a < SeqRange => Minus(a, b) = a - b
<1>1. SeqRange \in Nat \ {0}
  BY PseudoTcpAssumption
<1>2. \A n \in Nat : n < SeqRange => n % SeqRange = n
  BY <1>1
<1> QED
  BY <1>1, <1>2 DEF Plus, Minus

-------------------------------------------------------------------------------
\* The members of m_slist.
SegType == [seq : Nat, len : Nat \ {0}, ctrl : BOOLEAN, xmit : Nat]

\* Where segment k begins, or what follows the last one.
At(l, total, k) == IF k <= Len(l) THEN l[k].seq ELSE total

\* The first m segments have been sent, and no other: snd_nxt is where they end.
SentTo(l, nxt, total, m) ==
  /\ \A k \in 1..Len(l) : l[k].xmit > 0 <=> k <= m
  /\ At(l, total, m + 1) = nxt

\* The segments of list l cover una..total - 1, and those up to nxt have been sent;
\* the connect message, and nothing else, is control data.
SegsOK(l, una, nxt, total) ==
  /\ l \in Seq(SegType)
  /\ At(l, total, 1) = una
  /\ \A k \in 1..Len(l) : At(l, total, k + 1) = l[k].seq + l[k].len
  /\ \A k \in 1..Len(l) : (l[k].ctrl <=> l[k].seq = 0) /\ (l[k].ctrl => l[k].len = 1)
  /\ \E m \in 0..Len(l) : SentTo(l, nxt, total, m)

\* What an acknowledgement may say: no segment that has been sent has an end between.
Pts(l, una, nxt, total) ==
  {a \in Nat : a <= una \/ (a <= nxt /\ \E k \in 1..Len(l) + 1 : a = At(l, total, k))}

\* What Split, Transmit and Queue make of a list of segments.
SplitAt(l, i, n) ==
  InsertAt([l EXCEPT ![i].len = n], i + 1,
           Segment(l[i].seq + n, l[i].len - n, l[i].ctrl, l[i].xmit))

\* Segment i is sent once more.
Resent(l, i) == [l EXCEPT ![i].xmit = @ + 1]

\* n more units of data, or the connect message, as a segment behind the last one.
Further(l, total, n, ctrl) == Append(l, Segment(total, n, ctrl, 0))

\* Each segment begins behind those before it.
LEMMA AtIncreases ==
  ASSUME NEW l, NEW una, NEW nxt, NEW total \in Nat, SegsOK(l, una, nxt, total)
  PROVE  /\ \A k \in 1..Len(l) + 1 : At(l, total, k) \in Nat
         /\ \A k \in 1..Len(l) + 1 : \A j \in 1..k - 1 : At(l, total, j) < At(l, total, k)
<1>0. Len(l) \in Nat /\ \A k \in 1..Len(l) : l[k] \in SegType
  BY LenProperties, ElementOfSeq DEF SegsOK
<1>1. \A k \in 1..Len(l) + 1 : At(l, total, k) \in Nat
  BY <1>0 DEF At, SegType
<1>2. \A k \in 1..Len(l) : At(l, total, k) < At(l, total, k + 1)
  <2> TAKE k \in 1..Len(l)
  <2>1. At(l, total, k) = l[k].seq
    BY <1>0 DEF At
  <2>2. At(l, total, k + 1) = l[k].seq + l[k].len
    BY DEF SegsOK
  <2>3. l[k].seq \in Nat /\ l[k].len \in Nat \ {0}
    BY <1>0 DEF SegType
  <2> QED
    BY <2>1, <2>2, <2>3
<1> DEFINE T == {k \in 1..Len(l) + 1 : ~ \A j \in 1..k - 1 : At(l, total, j) < At(l, total, k)}
<1>3. T = {}
  <2> SUFFICES ASSUME T # {} PROVE FALSE
    OBVIOUS
  <2>1. T \subseteq Nat
    OBVIOUS
  <2>2. PICK k \in T : \A y \in T : k <= y
    BY <2>1, Least
  <2>3. PICK j \in 1..k - 1 : ~ (At(l, total, j) < At(l, total, k))
    BY <2>2
  <2>4. k - 1 \in 1..Len(l) /\ ~ (k <= k - 1)
    BY <1>0, <2>2, <2>3
  <2> HIDE DEF T
  <2>8. k - 1 \notin T
    BY <2>2, <2>4
  <2> USE DEF T
  <2>5. At(l, total, k - 1) < At(l, total, k)
    BY <1>2, <2>4
  <2>6. j = k - 1 \/ At(l, total, j) < At(l, total, k - 1)
    BY <2>3, <2>4, <2>8
  <2>7. At(l, total, j) \in Nat /\ At(l, total, k) \in Nat /\ At(l, total, k - 1) \in Nat
    BY <1>0, <1>1, <2>3, <2>4
  <2> QED
    BY <2>3, <2>5, <2>6, <2>7
<1> QED
  BY <1>1, <1>3

\* A segment in two.
LEMMA SplitSegs ==
  ASSUME NEW l, NEW una, NEW nxt, NEW total \in Nat, SegsOK(l, una, nxt, total),
         NEW i \in 1..Len(l), NEW len \in 1..l[i].len - 1,
         NEW r
  PROVE  r = SplitAt(l, i, len) =>
         /\ SegsOK(r, una, nxt, total) /\ Pts(l, una, nxt, total) \subseteq Pts(r, una, nxt, total)
         /\ Len(r) = Len(l) + 1 /\ At(r, total, i) = At(l, total, i)
         /\ r[i] = [l[i] EXCEPT !.len = len]
         /\ \A m \in 0..Len(l) : SentTo(l, nxt, total, m) =>
              SentTo(r, nxt, total, IF i <= m THEN m + 1 ELSE m)
<1> DEFINE h == [l EXCEPT ![i].len = len]
           x == Segment(l[i].seq + len, l[i].len - len, l[i].ctrl, l[i].xmit)
<1>a. SUFFICES ASSUME r = InsertAt(h, i + 1, x)
               PROVE  /\ SegsOK(r, una, nxt, total)
                      /\ Pts(l, una, nxt, total) \subseteq Pts(r, una, nxt, total)
                      /\ Len(r) = Len(l) + 1 /\ At(r, total, i) = At(l, total, i)
                      /\ r[i] = [l[i] EXCEPT !.len = len]
                      /\ \A m \in 0..Len(l) : SentTo(l, nxt, total, m) =>
                           SentTo(r, nxt, total, IF i <= m THEN m + 1 ELSE m)
  BY DEF SplitAt
<1>0. Len(l) \in Nat /\ l \in Seq(SegType) /\ \A k \in 1..Len(l) : l[k] \in SegType
  BY LenProperties, ElementOfSeq DEF SegsOK
<1>1. /\ l[i].seq \in Nat /\ l[i].len \in Nat \ {0} /\ l[i].ctrl \in BOOLEAN /\ l[i].xmit \in Nat
      /\ len \in Nat \ {0} /\ l[i].len - len \in Nat \ {0}
  <2>1. l[i] \in SegType
    BY <1>0
  <2>2. l[i].seq \in Nat /\ l[i].len \in Nat \ {0} /\ l[i].ctrl \in BOOLEAN /\ l[i].xmit \in Nat
    BY ONLY <2>1 DEF SegType
  <2>3. PICK n \in Nat \ {0} : n = l[i].len
    BY <2>2
  <2>4. len \in Nat \ {0} /\ n - len \in Nat \ {0}
    BY <2>3
  <2> QED
    BY <2>2, <2>3, <2>4
<1>2. [l[i] EXCEPT !.len = len] \in SegType /\ [l[i] EXCEPT !.len = len].len = len
      /\ [l[i] EXCEPT !.len = len].seq = l[i].seq /\ [l[i] EXCEPT !.len = len].ctrl = l[i].ctrl
      /\ [l[i] EXCEPT !.len = len].xmit = l[i].xmit
  BY <1>0, <1>1 DEF SegType
<1>3. x \in SegType /\ x.seq = l[i].seq + len /\ x.len = l[i].len - len /\ x.ctrl = l[i].ctrl
      /\ x.xmit = l[i].xmit
  BY <1>1 DEF SegType, Segment
<1>4. /\ h \in Seq(SegType) /\ Len(h) = Len(l)
      /\ \A k \in 1..Len(l) : h[k] = IF k = i THEN [l[i] EXCEPT !.len = len] ELSE l[k]
  <2>1. h = [l EXCEPT ![i] = [l[i] EXCEPT !.len = len]]
    OBVIOUS
  <2> QED
    BY <1>0, <1>2, <2>1, ExceptSeq
<1> HIDE DEF h, x
<1>5. r = InsertAt(h, i + 1, x)
  BY <1>a
<1>6. /\ r \in Seq(SegType) /\ Len(r) = Len(l) + 1
      /\ \A k \in 1..i : r[k] = h[k]
      /\ r[i + 1] = x
      /\ \A k \in i + 2..Len(l) + 1 : r[k] = h[k - 1]
  <2>1. i + 1 \in 1..Len(h) + 1
    BY <1>0, <1>4
  <2>2. /\ r \in Seq(SegType) /\ Len(r) = Len(h) + 1
        /\ \A k \in 1..(i + 1) - 1 : r[k] = h[k]
        /\ r[i + 1] = x
        /\ \A k \in (i + 1) + 1..Len(h) + 1 : r[k] = h[k - 1]
    <3>1. x \in SegType /\ h \in Seq(SegType)
      BY <1>3, <1>4
    <3>2. PICK j \in 1..Len(h) + 1 : j = i + 1
      BY <2>1
    <3>3. /\ InsertAt(h, j, x) \in Seq(SegType) /\ Len(InsertAt(h, j, x)) = Len(h) + 1
          /\ \A k \in 1..j - 1 : InsertAt(h, j, x)[k] = h[k]
          /\ InsertAt(h, j, x)[j] = x
          /\ \A k \in j + 1..Len(h) + 1 : InsertAt(h, j, x)[k] = h[k - 1]
      <4>1. InsertAt(h, j, x) \in Seq(SegType) /\ InsertedAt(h, j, x, InsertAt(h, j, x))
        BY ONLY <3>1, j \in 1..Len(h) + 1, Inserting
      <4> QED
        BY ONLY <4>1 DEF InsertedAt
    <3> QED
      BY <1>5, <3>2, <3>3
  <2>3. (i + 1) - 1 = i /\ (i + 1) + 1 = i + 2
    OBVIOUS
  <2> QED
    BY <1>4, <2>2, <2>3
<1>7. (\A k \in 1..i - 1 : r[k] = l[k]) /\ r[i] = [l[i] EXCEPT !.len = len]
      /\ (\A k \in i + 2..Len(l) + 1 : r[k] = l[k - 1])
  <2>1. \A k \in 1..i - 1 : r[k] = l[k]
    <3> TAKE k \in 1..i - 1
    <3>1. k \in 1..i /\ k \in 1..Len(l) /\ k # i
      BY <1>0
    <3> QED
      BY <1>4, <1>6, <3>1
  <2>2. r[i] = [l[i] EXCEPT !.len = len]
    <3>1. i \in 1..i
      OBVIOUS
    <3> QED
      BY <1>4, <1>6, <3>1
  <2>3. \A k \in i + 2..Len(l) + 1 : r[k] = l[k - 1]
    <3> TAKE k \in i + 2..Len(l) + 1
    <3>1. k - 1 \in 1..Len(l) /\ k - 1 # i
      BY <1>0
    <3> QED
      BY <1>4, <1>6, <3>1
  <2> QED
    BY <2>1, <2>2, <2>3
<1>8. /\ \A k \in 1..i : At(r, total, k) = At(l, total, k)
      /\ At(r, total, i + 1) = l[i].seq + len
      /\ \A k \in i + 2..Len(l) + 2 : At(r, total, k) = At(l, total, k - 1)
  <2>1. \A k \in 1..i - 1 : At(r, total, k) = At(l, total, k)
    <3> TAKE k \in 1..i - 1
    <3>1. k <= Len(l) /\ k <= Len(r)
      BY <1>0, <1>6
    <3> QED
      BY <1>7, <3>1 DEF At
  <2>2. At(r, total, i) = At(l, total, i)
    BY <1>0, <1>2, <1>6, <1>7 DEF At
  <2>3. At(r, total, i + 1) = l[i].seq + len
    BY <1>0, <1>3, <1>6 DEF At
  <2>4. \A k \in i + 2..Len(l) + 2 : At(r, total, k) = At(l, total, k - 1)
    <3> TAKE k \in i + 2..Len(l) + 2
    <3>1. k <= Len(r) <=> k - 1 <= Len(l)
      BY <1>0, <1>6
    <3>2. CASE k <= Len(r)
      <4>1. k \in i + 2..Len(l) + 1
        BY <1>0, <1>6, <3>2
      <4> QED
        BY <1>7, <3>1, <3>2, <4>1 DEF At
    <3>3. CASE ~ (k <= Len(r))
      BY <3>1, <3>3 DEF At
    <3> QED
      BY <3>2, <3>3
  <2>5. \A k \in 1..i : k = i \/ k \in 1..i - 1
    OBVIOUS
  <2> QED
    BY <2>1, <2>2, <2>3, <2>4, <2>5
<1>9. \A k \in 1..Len(l) : At(l, total, k + 1) = l[k].seq + l[k].len
  BY DEF SegsOK
<1>10. \A k \in 1..Len(r) : At(r, total, k + 1) = r[k].seq + r[k].len
  <2> TAKE k \in 1..Len(r)
  <2>1. CASE k < i
    <3>0. k \in 1..i - 1 /\ k \in 1..Len(l) /\ k + 1 \in 1..i
      BY <1>0, <1>6, <2>1
    <3>1. At(r, total, k + 1) = At(l, total, k + 1) /\ r[k] = l[k] /\ k \in 1..Len(l)
      BY <1>7, <1>8, <3>0
    <3> QED
      BY <1>9, <3>1
  <2>2. CASE k = i
    BY <1>2, <1>7, <1>8, <2>2
  <2>3. CASE k = i + 1
    <3>1. At(r, total, k + 1) = At(l, total, i + 1) /\ r[k] = x
      BY <1>0, <1>6, <1>8, <2>3
    <3>2. At(l, total, i + 1) = l[i].seq + l[i].len
      BY <1>9
    <3> QED
      <4>1. x.seq + x.len = l[i].seq + l[i].len
        <5>1. PICK a \in Nat, b \in Nat : a = l[i].seq /\ b = l[i].len
          BY <1>1
        <5>2. x.seq = a + len /\ x.len = b - len
          BY <1>3, <5>1
        <5>3. \A c \in Int : (a + c) + (b - c) = a + b
          OBVIOUS
        <5>4. len \in Int
          BY <1>1
        <5>5. (a + len) + (b - len) = a + b
          BY <5>3, <5>4
        <5> QED
          BY <5>1, <5>2, <5>5
      <4> QED
        BY <3>1, <3>2, <4>1
  <2>4. CASE k > i + 1
    <3>0. k \in i + 2..Len(l) + 1 /\ k + 1 \in i + 2..Len(l) + 2 /\ (k + 1) - 1 = k /\ k - 1 \in 1..Len(l)
      BY <1>0, <1>6, <2>4
    <3>1. At(r, total, k + 1) = At(l, total, k) /\ r[k] = l[k - 1] /\ k - 1 \in 1..Len(l)
      BY <1>7, <1>8, <3>0
    <3>2. At(l, total, (k - 1) + 1) = l[k - 1].seq + l[k - 1].len /\ (k - 1) + 1 = k
      BY <1>9, <3>1
    <3> QED
      BY <3>1, <3>2
  <2> QED
    BY <1>0, <2>1, <2>2, <2>3, <2>4
<1>11. \A k \in 1..Len(l) : (l[k].ctrl <=> l[k].seq = 0) /\ (l[k].ctrl => l[k].len = 1)
  BY DEF SegsOK
<1>12. ~ l[i].ctrl /\ l[i].seq # 0
  BY <1>1, <1>11
<1>13. \A k \in 1..Len(r) : (r[k].ctrl <=> r[k].seq = 0) /\ (r[k].ctrl => r[k].len = 1)
  <2> TAKE k \in 1..Len(r)
  <2>1. CASE k < i
    BY <1>0, <1>7, <1>11, <2>1
  <2>2. CASE k = i
    BY <1>2, <1>7, <1>12, <2>2
  <2>3. CASE k = i + 1
    BY <1>1, <1>3, <1>6, <1>12, <2>3, SMTT(30)
  <2>4. CASE k > i + 1
    <3>1. k \in i + 2..Len(l) + 1 /\ k - 1 \in 1..Len(l)
      BY <1>0, <1>6, <2>4
    <3> QED
      BY <1>7, <1>11, <3>1, SMTT(30)
  <2> QED
    BY <1>0, <2>1, <2>2, <2>3, <2>4
<1>14. \A m \in 0..Len(l) : SentTo(l, nxt, total, m) =>
         SentTo(r, nxt, total, IF i <= m THEN m + 1 ELSE m)
  <2> SUFFICES ASSUME NEW m \in 0..Len(l), SentTo(l, nxt, total, m)
               PROVE  SentTo(r, nxt, total, IF i <= m THEN m + 1 ELSE m)
    OBVIOUS
  <2> DEFINE n == IF i <= m THEN m + 1 ELSE m
  <2>1. (\A k \in 1..Len(l) : l[k].xmit > 0 <=> k <= m) /\ At(l, total, m + 1) = nxt
    BY DEF SentTo
  <2>2. At(r, total, n + 1) = nxt
    BY <1>0, <1>8, <2>1
  <2>3. \A k \in 1..Len(r) : r[k].xmit > 0 <=> k <= n
    <3> TAKE k \in 1..Len(r)
    <3>1. CASE k < i
      BY <1>0, <1>7, <2>1, <3>1
    <3>2. CASE k = i
      <4>1. r[k].xmit = l[i].xmit
        BY <1>2, <1>7, <3>2
      <4>2. k <= n <=> i <= m
        BY <3>2
      <4> QED
        BY <2>1, <4>1, <4>2
    <3>3. CASE k = i + 1
      BY <1>0, <1>3, <1>6, <2>1, <3>3
    <3>4. CASE k > i + 1
      <4>1. k \in i + 2..Len(l) + 1 /\ k - 1 \in 1..Len(l)
        BY <1>0, <1>6, <3>4
      <4>2. r[k].xmit > 0 <=> k - 1 <= m
        BY <1>7, <2>1, <4>1
      <4>3. k <= n <=> k - 1 <= m
        BY <3>4, <4>1
      <4> QED
        BY <4>2, <4>3
    <3> QED
      BY <1>0, <3>1, <3>2, <3>3, <3>4
  <2> QED
    BY <2>2, <2>3 DEF SentTo
<1>15. SegsOK(r, una, nxt, total)
  <2>1. At(r, total, 1) = una
    BY <1>0, <1>8 DEF SegsOK
  <2>2. PICK m \in 0..Len(l) : SentTo(l, nxt, total, m)
    BY DEF SegsOK
  <2>3. (IF i <= m THEN m + 1 ELSE m) \in 0..Len(r)
    BY <1>0, <1>6
  <2> QED
    BY <1>6, <1>10, <1>13, <1>14, <2>1, <2>2, <2>3 DEF SegsOK
<1>16. Pts(l, una, nxt, total) \subseteq Pts(r, una, nxt, total)
  <2> SUFFICES ASSUME NEW k \in 1..Len(l) + 1
               PROVE  \E j \in 1..Len(r) + 1 : At(l, total, k) = At(r, total, j)
    BY DEF Pts
  <2>1. CASE k <= i
    BY <1>0, <1>6, <1>8, <2>1
  <2>2. CASE k > i
    <3>1. k + 1 \in i + 2..Len(l) + 2 /\ (k + 1) - 1 = k /\ k + 1 \in 1..Len(r) + 1
      BY <1>0, <1>6, <2>2
    <3> QED
      BY <1>8, <3>1
  <2> QED
    BY <1>0, <2>1, <2>2
<1> QED
  BY <1>6, <1>7, <1>8, <1>14, <1>15, <1>16

\* The first segment that has not been sent, or one that has, is sent.
LEMMA SendSegs ==
  ASSUME NEW l, NEW una \in Nat, NEW nxt \in Nat, NEW total \in Nat, SegsOK(l, una, nxt, total),
         NEW m \in 0..Len(l), SentTo(l, nxt, total, m),
         NEW i \in 1..Len(l), i <= m + 1,
         NEW r, NEW n
  PROVE  r = Resent(l, i) /\ (l[i].xmit = 0 => n = nxt + l[i].len) /\ (l[i].xmit # 0 => n = nxt) =>
         /\ SegsOK(r, una, n, total) /\ Pts(l, una, nxt, total) \subseteq Pts(r, una, n, total)
         /\ n \in Nat /\ nxt <= n /\ n <= total
         /\ l[i].seq + l[i].len \in Pts(r, una, n, total)
         /\ l[i].xmit = 0 => l[i].seq = nxt
<1>a. SUFFICES ASSUME r = [l EXCEPT ![i].xmit = @ + 1], n = IF l[i].xmit = 0 THEN nxt + l[i].len ELSE nxt
               PROVE  /\ SegsOK(r, una, n, total) /\ Pts(l, una, nxt, total) \subseteq Pts(r, una, n, total)
                      /\ n \in Nat /\ nxt <= n /\ n <= total
                      /\ l[i].seq + l[i].len \in Pts(r, una, n, total)
                      /\ l[i].xmit = 0 => l[i].seq = nxt
  BY DEF Resent
<1>0. Len(l) \in Nat /\ l \in Seq(SegType) /\ \A k \in 1..Len(l) : l[k] \in SegType
  BY LenProperties, ElementOfSeq DEF SegsOK
<1>1. /\ l[i].seq \in Nat /\ l[i].len \in Nat \ {0} /\ l[i].ctrl \in BOOLEAN /\ l[i].xmit \in Nat
  BY <1>0 DEF SegType
<1>2. [l[i] EXCEPT !.xmit = @ + 1] \in SegType /\ [l[i] EXCEPT !.xmit = @ + 1].len = l[i].len
      /\ [l[i] EXCEPT !.xmit = @ + 1].seq = l[i].seq /\ [l[i] EXCEPT !.xmit = @ + 1].ctrl = l[i].ctrl
      /\ [l[i] EXCEPT !.xmit = @ + 1].xmit > 0
  <2>1. \A y \in SegType : /\ [y EXCEPT !.xmit = @ + 1] \in SegType
                            /\ [y EXCEPT !.xmit = @ + 1].len = y.len
                            /\ [y EXCEPT !.xmit = @ + 1].seq = y.seq
                            /\ [y EXCEPT !.xmit = @ + 1].ctrl = y.ctrl
                            /\ [y EXCEPT !.xmit = @ + 1].xmit = y.xmit + 1
                            /\ y.xmit + 1 > 0
    BY DEF SegType
  <2> QED
    BY <1>0, <2>1
<1>3. /\ r \in Seq(SegType) /\ Len(r) = Len(l)
      /\ \A k \in 1..Len(l) : r[k] = IF k = i THEN [l[i] EXCEPT !.xmit = @ + 1] ELSE l[k]
  <2>1. r = [l EXCEPT ![i] = [l[i] EXCEPT !.xmit = @ + 1]]
    BY <1>a
  <2> QED
    BY <1>0, <1>2, <2>1, ExceptSeq
<1>4. \A k \in 1..Len(l) : r[k].seq = l[k].seq /\ r[k].len = l[k].len /\ r[k].ctrl = l[k].ctrl
                           /\ (k # i => r[k].xmit = l[k].xmit)
  BY <1>2, <1>3
<1>5. \A k \in 1..Len(l) + 1 : At(r, total, k) = At(l, total, k)
  BY <1>0, <1>3, <1>4 DEF At
<1>6. At(l, total, i) = l[i].seq /\ At(l, total, i + 1) = l[i].seq + l[i].len
  BY <1>0 DEF SegsOK, At
<1>7. /\ \A k \in 1..Len(l) + 1 : At(l, total, k) \in Nat
      /\ \A k \in 1..Len(l) + 1 : \A j \in 1..k - 1 : At(l, total, j) < At(l, total, k)
  BY AtIncreases
<1>8. (\A k \in 1..Len(l) : l[k].xmit > 0 <=> k <= m) /\ At(l, total, m + 1) = nxt
  BY DEF SentTo
<1>9. At(l, total, Len(l) + 1) = total
  BY <1>0 DEF At
<1>10. l[i].seq + l[i].len <= total
  <2>1. i + 1 = Len(l) + 1 \/ i + 1 \in 1..(Len(l) + 1) - 1
    BY <1>0
  <2>2. i + 1 \in 1..Len(l) + 1 /\ Len(l) + 1 \in 1..Len(l) + 1
    BY <1>0
  <2>3. At(l, total, i + 1) = At(l, total, Len(l) + 1) \/ At(l, total, i + 1) < At(l, total, Len(l) + 1)
    BY <1>7, <2>1, <2>2
  <2> QED
    BY <1>1, <1>6, <1>9, <2>3
<1>11. nxt <= total
  <2>1. m + 1 = Len(l) + 1 \/ m + 1 \in 1..(Len(l) + 1) - 1
    BY <1>0
  <2>2. Len(l) + 1 \in 1..Len(l) + 1
    BY <1>0
  <2>3. At(l, total, m + 1) = At(l, total, Len(l) + 1) \/ At(l, total, m + 1) < At(l, total, Len(l) + 1)
    BY <1>7, <2>1, <2>2
  <2> QED
    BY <1>8, <1>9, <2>3
<1>12. CASE i = m + 1
  <2>1. l[i].xmit = 0
    BY <1>1, <1>8, <1>12
  <2>2. n = nxt + l[i].len /\ l[i].seq = nxt
    BY <1>a, <1>6, <1>8, <1>12, <2>1
  <2>3. SentTo(r, n, total, m + 1)
    <3>1. At(r, total, (m + 1) + 1) = n
      BY <1>0, <1>5, <1>6, <1>12, <2>2
    <3>2. \A k \in 1..Len(r) : r[k].xmit > 0 <=> k <= m + 1
      <4> TAKE k \in 1..Len(r)
      <4>1. CASE k = i
        BY <1>2, <1>3, <1>12, <4>1
      <4>2. CASE k # i
        <5>1. r[k].xmit = l[k].xmit /\ k \in 1..Len(l)
          BY <1>3, <1>4, <4>2
        <5>2. k <= m + 1 <=> k <= m
          BY <1>12, <4>2
        <5> QED
          BY <1>8, <5>1, <5>2
      <4> QED
        BY <4>1, <4>2
    <3> QED
      BY <3>1, <3>2 DEF SentTo
  <2>4. m + 1 \in 0..Len(r)
    BY <1>0, <1>3, <1>12
  <2>5. SegsOK(r, una, n, total)
    <3>1. \A k \in 1..Len(r) : At(r, total, k + 1) = r[k].seq + r[k].len
      <4> TAKE k \in 1..Len(r)
      <4>1. k \in 1..Len(l) /\ k + 1 \in 1..Len(l) + 1
        BY <1>0, <1>3
      <4>2. At(l, total, k + 1) = l[k].seq + l[k].len
        BY <4>1 DEF SegsOK
      <4> QED
        BY <1>4, <1>5, <4>1, <4>2
    <3>2. \A k \in 1..Len(r) : (r[k].ctrl <=> r[k].seq = 0) /\ (r[k].ctrl => r[k].len = 1)
      BY <1>3, <1>4 DEF SegsOK
    <3>3. At(r, total, 1) = una
      BY <1>0, <1>5 DEF SegsOK
    <3> QED
      BY <1>3, <2>3, <2>4, <3>1, <3>2, <3>3 DEF SegsOK
  <2>6. Pts(l, una, nxt, total) \subseteq Pts(r, una, n, total)
    BY <1>1, <1>3, <1>5, <2>2 DEF Pts
  <2>7. i + 1 \in 1..Len(r) + 1 /\ At(r, total, i + 1) = n
    BY <1>0, <1>3, <1>5, <1>6, <2>2
  <2>8. n \in Pts(r, una, n, total)
    BY <1>1, <2>2, <2>7, SMTT(30) DEF Pts
  <2> QED
    BY <1>1, <1>10, <2>1, <2>2, <2>5, <2>6, <2>8
<1>13. CASE i <= m
  <2>1. l[i].xmit > 0 /\ n = nxt
    BY <1>a, <1>1, <1>8, <1>13
  <2>2. SentTo(r, n, total, m)
    <3>1. At(r, total, m + 1) = n
      BY <1>0, <1>5, <1>8, <2>1
    <3>2. \A k \in 1..Len(r) : r[k].xmit > 0 <=> k <= m
      BY <1>0, <1>2, <1>3, <1>8, <1>13
    <3> QED
      BY <3>1, <3>2 DEF SentTo
  <2>5. SegsOK(r, una, n, total)
    <3>1. \A k \in 1..Len(r) : At(r, total, k + 1) = r[k].seq + r[k].len
      <4> TAKE k \in 1..Len(r)
      <4>1. k \in 1..Len(l) /\ k + 1 \in 1..Len(l) + 1
        BY <1>0, <1>3
      <4>2. At(l, total, k + 1) = l[k].seq + l[k].len
        BY <4>1 DEF SegsOK
      <4> QED
        BY <1>4, <1>5, <4>1, <4>2
    <3>2. \A k \in 1..Len(r) : (r[k].ctrl <=> r[k].seq = 0) /\ (r[k].ctrl => r[k].len = 1)
      BY <1>3, <1>4 DEF SegsOK
    <3>3. At(r, total, 1) = una
      BY <1>0, <1>5 DEF SegsOK
    <3>4. m \in 0..Len(r)
      BY <1>3
    <3> QED
      BY <1>3, <2>2, <3>1, <3>2, <3>3, <3>4 DEF SegsOK
  <2>6. Pts(l, una, nxt, total) \subseteq Pts(r, una, n, total)
    BY <1>3, <1>5, <2>1 DEF Pts
  <2>7. i + 1 \in 1..Len(r) + 1 /\ At(r, total, i + 1) = l[i].seq + l[i].len
    BY <1>0, <1>3, <1>5, <1>6
  <2>8. l[i].seq + l[i].len <= nxt
    <3>1. i + 1 = m + 1 \/ i + 1 \in 1..(m + 1) - 1
      BY <1>0, <1>13
    <3>2. m + 1 \in 1..Len(l) + 1
      BY <1>0
    <3>3. At(l, total, i + 1) = At(l, total, m + 1) \/ At(l, total, i + 1) < At(l, total, m + 1)
      BY <1>7, <3>1, <3>2
    <3>4. PICK y \in Nat : y = l[i].seq + l[i].len
      BY <1>1
    <3>5. y = nxt \/ y < nxt
      BY <1>6, <1>8, <3>3, <3>4
    <3> QED
      BY <3>4, <3>5
  <2>9. l[i].seq + l[i].len \in Pts(r, una, n, total)
    BY <1>1, <2>1, <2>7, <2>8 DEF Pts
  <2> QED
    BY <1>1, <1>11, <2>1, <2>5, <2>6, <2>9
<1> QED
  BY <1>0, <1>12, <1>13

\* Data behind the last segment, as a segment of its own.
LEMMA AppendSegs ==
  ASSUME NEW l, NEW una \in Nat, NEW nxt \in Nat, NEW total \in Nat, SegsOK(l, una, nxt, total),
         NEW n \in Nat \ {0}, NEW ctrl \in BOOLEAN, ctrl <=> total = 0, ctrl => n = 1,
         NEW r
  PROVE  r = Further(l, total, n, ctrl) =>
         SegsOK(r, una, nxt, total + n) /\ Pts(l, una, nxt, total) \subseteq Pts(r, una, nxt, total + n)
<1> DEFINE x == Segment(total, n, ctrl, 0)
<1>a. SUFFICES ASSUME r = Append(l, x)
               PROVE  /\ SegsOK(r, una, nxt, total + n)
                      /\ Pts(l, una, nxt, total) \subseteq Pts(r, una, nxt, total + n)
  BY DEF Further
<1>0. Len(l) \in Nat /\ l \in Seq(SegType) /\ \A k \in 1..Len(l) : l[k] \in SegType
  BY LenProperties, ElementOfSeq DEF SegsOK
<1>1. x \in SegType /\ x.seq = total /\ x.len = n /\ x.ctrl = ctrl /\ x.xmit = 0
  BY DEF Segment, SegType
<1> HIDE DEF x
<1>2. r \in Seq(SegType) /\ Len(r) = Len(l) + 1 /\ (\A k \in 1..Len(l) : r[k] = l[k]) /\ r[Len(l) + 1] = x
  BY <1>a, <1>0, <1>1, AppendProperties
<1>3. /\ \A k \in 1..Len(l) + 1 : At(r, total + n, k) = At(l, total, k)
      /\ At(r, total + n, Len(l) + 2) = total + n
  <2>1. \A k \in 1..Len(l) : At(r, total + n, k) = At(l, total, k)
    BY <1>0, <1>2 DEF At
  <2>2. At(r, total + n, Len(l) + 1) = At(l, total, Len(l) + 1)
    BY <1>0, <1>1, <1>2 DEF At
  <2>3. At(r, total + n, Len(l) + 2) = total + n
    BY <1>0, <1>2 DEF At
  <2>4. \A k \in 1..Len(l) + 1 : k \in 1..Len(l) \/ k = Len(l) + 1
    BY <1>0
  <2> QED
    BY <2>1, <2>2, <2>3, <2>4
<1>4. \A k \in 1..Len(r) : At(r, total + n, k + 1) = r[k].seq + r[k].len
  <2> TAKE k \in 1..Len(r)
  <2>1. CASE k \in 1..Len(l)
    <3>1. k + 1 \in 1..Len(l) + 1 /\ At(l, total, k + 1) = l[k].seq + l[k].len
      BY <1>0, <2>1 DEF SegsOK
    <3> QED
      BY <1>2, <1>3, <2>1, <3>1
  <2>2. CASE k = Len(l) + 1
    <3>1. k + 1 = Len(l) + 2
      BY <1>0, <2>2
    <3> QED
      BY <1>1, <1>2, <1>3, <2>2, <3>1
  <2> QED
    BY <1>0, <1>2, <2>1, <2>2
<1>5. \A k \in 1..Len(r) : (r[k].ctrl <=> r[k].seq = 0) /\ (r[k].ctrl => r[k].len = 1)
  <2> TAKE k \in 1..Len(r)
  <2>1. CASE k \in 1..Len(l)
    BY <1>2, <2>1 DEF SegsOK
  <2>2. CASE k = Len(l) + 1
    BY <1>1, <1>2, <2>2
  <2> QED
    BY <1>0, <1>2, <2>1, <2>2
<1>6. PICK m \in 0..Len(l) : SentTo(l, nxt, total, m)
  BY DEF SegsOK
<1>7. SentTo(r, nxt, total + n, m)
  <2>1. m + 1 \in 1..Len(l) + 1
    BY <1>0
  <2>2. At(r, total + n, m + 1) = nxt
    BY <1>3, <1>6, <2>1 DEF SentTo
  <2>3. \A k \in 1..Len(r) : r[k].xmit > 0 <=> k <= m
    <3> TAKE k \in 1..Len(r)
    <3>1. CASE k \in 1..Len(l)
      BY <1>2, <1>6, <3>1 DEF SentTo
    <3>2. CASE k = Len(l) + 1
      BY <1>0, <1>1, <1>2, <3>2
    <3> QED
      BY <1>0, <1>2, <3>1, <3>2
  <2> QED
    BY <2>2, <2>3 DEF SentTo
<1>8. SegsOK(r, una, nxt, total + n)
  <2>1. At(r, total + n, 1) = una
    BY <1>0, <1>3 DEF SegsOK
  <2>2. m \in 0..Len(r)
    BY <1>0, <1>2
  <2> QED
    BY <1>2, <1>4, <1>5, <1>7, <2>1, <2>2 DEF SegsOK
<1>9. \A k \in 1..Len(l) + 1 : k \in 1..Len(r) + 1 /\ At(l, total, k) = At(r, total + n, k)
  BY <1>0, <1>2, <1>3
<1>10. Pts(l, una, nxt, total) \subseteq Pts(r, una, nxt, total + n)
  BY <1>9 DEF Pts
<1> QED
  BY <1>8, <1>10

\* The same as a part of the last segment, which has not been sent.
LEMMA JoinSegs ==
  ASSUME NEW l, NEW una \in Nat, NEW nxt \in Nat, NEW total \in Nat, SegsOK(l, una, nxt, total),
         NEW n \in Nat \ {0}, Len(l) > 0, l[Len(l)].xmit = 0, ~ l[Len(l)].ctrl,
         NEW r
  PROVE  r = Longer(l, n) =>
         SegsOK(r, una, nxt, total + n) /\ Pts(l, una, nxt, total) \subseteq Pts(r, una, nxt, total + n)
<1>a. SUFFICES ASSUME r = [l EXCEPT ![Len(l)].len = @ + n]
               PROVE  /\ SegsOK(r, una, nxt, total + n)
                      /\ Pts(l, una, nxt, total) \subseteq Pts(r, una, nxt, total + n)
  BY DEF Longer
<1>0. Len(l) \in Nat \ {0} /\ l \in Seq(SegType) /\ \A k \in 1..Len(l) : l[k] \in SegType
  BY LenProperties, ElementOfSeq DEF SegsOK
<1>1. PICK z \in 1..Len(l) : z = Len(l)
  BY <1>0
<1>2. /\ [l[z] EXCEPT !.len = @ + n] \in SegType /\ [l[z] EXCEPT !.len = @ + n].len = l[z].len + n
      /\ [l[z] EXCEPT !.len = @ + n].seq = l[z].seq /\ [l[z] EXCEPT !.len = @ + n].ctrl = l[z].ctrl
      /\ [l[z] EXCEPT !.len = @ + n].xmit = l[z].xmit
  <2>1. \A y \in SegType : /\ [y EXCEPT !.len = @ + n] \in SegType
                           /\ [y EXCEPT !.len = @ + n].len = y.len + n
                           /\ [y EXCEPT !.len = @ + n].seq = y.seq
                           /\ [y EXCEPT !.len = @ + n].ctrl = y.ctrl
                           /\ [y EXCEPT !.len = @ + n].xmit = y.xmit
    BY DEF SegType
  <2> QED
    BY <1>0, <2>1
<1>3. /\ r \in Seq(SegType) /\ Len(r) = Len(l)
      /\ \A k \in 1..Len(l) : r[k] = IF k = z THEN [l[z] EXCEPT !.len = @ + n] ELSE l[k]
  <2>1. r = [l EXCEPT ![z] = [l[z] EXCEPT !.len = @ + n]]
    BY <1>a, <1>1
  <2> QED
    BY <1>0, <1>2, <2>1, ExceptSeq
<1>4. \A k \in 1..Len(l) : r[k].seq = l[k].seq /\ r[k].xmit = l[k].xmit /\ r[k].ctrl = l[k].ctrl
                           /\ (k # z => r[k].len = l[k].len)
  BY <1>2, <1>3
<1>5. \A k \in 1..Len(l) : At(r, total + n, k) = At(l, total, k)
  BY <1>0, <1>3, <1>4 DEF At
<1>6. At(r, total + n, Len(l) + 1) = total + n /\ At(l, total, Len(l) + 1) = total
  BY <1>0, <1>3 DEF At
<1>7. \A k \in 1..Len(r) : At(r, total + n, k + 1) = r[k].seq + r[k].len
  <2> TAKE k \in 1..Len(r)
  <2>1. k \in 1..Len(l) /\ At(l, total, k + 1) = l[k].seq + l[k].len
    BY <1>3 DEF SegsOK
  <2>2. CASE k # z
    <3>1. k + 1 \in 1..Len(l)
      BY <1>0, <1>1, <2>1, <2>2
    <3> QED
      BY <1>4, <1>5, <2>1, <2>2, <3>1
  <2>3. CASE k = z
    <3>1. At(l, total, k + 1) = total /\ At(r, total + n, k + 1) = total + n
      BY <1>1, <1>6, <2>3
    <3>2. r[k].seq = l[k].seq /\ r[k].len = l[k].len + n
      BY <1>2, <1>3, <2>3
    <3>3. l[k].seq \in Nat /\ l[k].len \in Nat
      BY <1>0, <2>1 DEF SegType
    <3> QED
      <4>1. PICK a \in Nat, b \in Nat : a = l[k].seq /\ b = l[k].len
        BY <3>3
      <4>2. total = a + b /\ r[k].seq = a /\ r[k].len = b + n
        BY <2>1, <3>1, <3>2, <4>1
      <4>3. a + (b + n) = (a + b) + n
        OBVIOUS
      <4> QED
        BY <3>1, <4>2, <4>3
  <2> QED
    BY <2>2, <2>3
<1>8. \A k \in 1..Len(r) : (r[k].ctrl <=> r[k].seq = 0) /\ (r[k].ctrl => r[k].len = 1)
  <2> TAKE k \in 1..Len(r)
  <2>1. k \in 1..Len(l) /\ (l[k].ctrl <=> l[k].seq = 0) /\ (l[k].ctrl => l[k].len = 1)
    BY <1>3 DEF SegsOK
  <2>2. ~ l[z].ctrl
    BY <1>1
  <2> QED
    BY <1>4, <2>1, <2>2
<1>9. PICK m \in 0..Len(l) : SentTo(l, nxt, total, m)
  BY DEF SegsOK
<1>10. m < z
  BY <1>0, <1>1, <1>9 DEF SentTo
<1>11. SentTo(r, nxt, total + n, m)
  <2>1. m + 1 \in 1..Len(l)
    BY <1>0, <1>1, <1>10
  <2>2. At(r, total + n, m + 1) = nxt
    BY <1>5, <1>9, <2>1 DEF SentTo
  <2>3. \A k \in 1..Len(r) : r[k].xmit > 0 <=> k <= m
    BY <1>3, <1>4, <1>9 DEF SentTo
  <2> QED
    BY <2>2, <2>3 DEF SentTo
<1>12. SegsOK(r, una, nxt, total + n)
  <2>1. At(r, total + n, 1) = una
    BY <1>0, <1>5 DEF SegsOK
  <2> QED
    BY <1>3, <1>7, <1>8, <1>11, <2>1 DEF SegsOK
<1>13. \A a \in Nat : a <= nxt /\ (\E k \in 1..Len(l) + 1 : a = At(l, total, k)) =>
                      \E k \in 1..Len(l) : a = At(l, total, k)
  <2> SUFFICES ASSUME nxt >= total PROVE FALSE
    <3> TAKE a \in Nat
    <3> HAVE a <= nxt /\ (\E k \in 1..Len(l) + 1 : a = At(l, total, k))
    <3>1. PICK k \in 1..Len(l) + 1 : a = At(l, total, k)
      OBVIOUS
    <3>2. CASE k = Len(l) + 1
      BY <1>6, <3>1, <3>2
    <3>3. CASE k # Len(l) + 1
      BY <1>0, <3>1, <3>3
    <3> QED
      BY <3>2, <3>3
  <2>1. \A k \in 1..Len(l) + 1 : \A j \in 1..k - 1 : At(l, total, j) < At(l, total, k)
    BY AtIncreases
  <2>2. m + 1 \in 1..(Len(l) + 1) - 1 /\ Len(l) + 1 \in 1..Len(l) + 1
    BY <1>0, <1>1, <1>10
  <2>3. At(l, total, m + 1) < At(l, total, Len(l) + 1)
    BY <2>1, <2>2
  <2>4. At(l, total, m + 1) = nxt
    BY <1>9 DEF SentTo
  <2> QED
    BY <1>6, <2>3, <2>4
<1>14. \A k \in 1..Len(l) : k \in 1..Len(r) + 1 /\ At(l, total, k) = At(r, total + n, k)
  BY <1>0, <1>3, <1>5
<1>15. Pts(l, una, nxt, total) \subseteq Pts(r, una, nxt, total + n)
  BY <1>13, <1>14 DEF Pts
<1> QED
  BY <1>12, <1>15

\* What a pass over the segments leaves follows from what the last one has left.
LEMMA FreePassesDef ==
  ASSUME NEW l, Len(l) \in Nat, NEW n
  PROVE  FreePasses(l, n) = [k \in 0..Len(l) |-> IF k = 0 THEN [slist |-> l, n |-> n]
                                                  ELSE FreeFirst(FreePasses(l, n)[k - 1])]
<1> DEFINE Is(g, m) == g = [k \in 0..m |-> IF k = 0 THEN [slist |-> l, n |-> n]
                                            ELSE FreeFirst(g[k - 1])]
           T == {m \in Nat : ~ \E g : Is(g, m)}
<1>1. T = {}
  <2> SUFFICES ASSUME T # {} PROVE FALSE
    OBVIOUS
  <2>1. PICK m \in T : \A y \in T : m <= y
    BY Least
  <2>2. CASE m = 0
    <3> DEFINE g == [k \in 0..0 |-> [slist |-> l, n |-> n]]
    <3>1. Is(g, 0)
      OBVIOUS
    <3> QED
      BY <2>1, <2>2, <3>1
  <2>3. CASE m # 0
    <3>1. m - 1 \in Nat /\ m - 1 \notin T
      BY <2>1, <2>3, SMTT(30)
    <3>2. PICK h : Is(h, m - 1)
      BY <3>1
    <3> DEFINE g == [k \in 0..m |-> IF k = m THEN FreeFirst(h[m - 1]) ELSE h[k]]
    <3>3. \A k \in 0..m - 1 : g[k] = h[k]
      BY <2>1
    <3>4. g[m] = FreeFirst(h[m - 1])
      BY <2>1
    <3>5. \A k \in 0..m : g[k] = IF k = 0 THEN [slist |-> l, n |-> n] ELSE FreeFirst(g[k - 1])
      BY <2>1, <2>3, <3>2, <3>3, <3>4
    <3>6. Is(g, m)
      BY <3>5
    <3> QED
      BY <2>1, <3>6
  <2> QED
    BY <2>2, <2>3
<1>2. \E g : Is(g, Len(l))
  BY <1>1
<1> QED
  BY <1>2 DEF FreePasses

\* An acknowledgement that ends where a segment does frees those before it.
LEMMA FreeSegs ==
  ASSUME NEW l, NEW una \in Nat, NEW nxt \in Nat, NEW total \in Nat, SegsOK(l, una, nxt, total),
         NEW a \in Pts(l, una, nxt, total), a > una
  PROVE  /\ SegsOK(Acked(l, a - una), a, nxt, total)
         /\ Pts(l, una, nxt, total) \subseteq Pts(Acked(l, a - una), a, nxt, total)
         /\ a \in Nat /\ a <= nxt /\ nxt <= total
<1>0. Len(l) \in Nat /\ l \in Seq(SegType) /\ \A k \in 1..Len(l) : l[k] \in SegType
  BY LenProperties, ElementOfSeq DEF SegsOK
<1>1. a \in Nat /\ a <= nxt /\ \E k \in 1..Len(l) + 1 : a = At(l, total, k)
  BY DEF Pts
<1>2. PICK z \in 1..Len(l) + 1 : a = At(l, total, z)
  BY <1>1
<1>3. /\ \A k \in 1..Len(l) + 1 : At(l, total, k) \in Nat
      /\ \A k \in 1..Len(l) + 1 : \A j \in 1..k - 1 : At(l, total, j) < At(l, total, k)
  BY AtIncreases
<1>4. At(l, total, 1) = una /\ \A k \in 1..Len(l) : At(l, total, k + 1) = l[k].seq + l[k].len
  BY DEF SegsOK
<1>5. z > 1
  BY <1>0, <1>2, <1>4
<1>p. PICK pass : pass = FreePasses(l, a - una)
  OBVIOUS
<1> DEFINE i(k) == IF k <= z - 1 THEN k ELSE z - 1
           Good(k) == pass[k] = [slist |-> SubSeq(l, i(k) + 1, Len(l)),
                                 n |-> a - At(l, total, i(k) + 1)]
           T == {k \in 0..Len(l) : ~ Good(k)}
<1>6. pass = [k \in 0..Len(l) |-> IF k = 0 THEN [slist |-> l, n |-> a - una]
                                  ELSE FreeFirst(pass[k - 1])]
  <2>1. PICK n : n = a - una
    OBVIOUS
  <2>2. FreePasses(l, n) = [k \in 0..Len(l) |-> IF k = 0 THEN [slist |-> l, n |-> n]
                                                ELSE FreeFirst(FreePasses(l, n)[k - 1])]
    BY <1>0, FreePassesDef
  <2> QED
    BY <1>p, <2>1, <2>2
<1>7. Good(0)
  <2>1. pass[0] = [slist |-> l, n |-> a - una]
    BY <1>0, <1>6
  <2>2. SubSeq(l, 1, Len(l)) = l
    BY <1>0, SubSeqFull
  <2>3. i(0) = 0
    BY <1>5
  <2> QED
    BY <1>4, <2>1, <2>2, <2>3
<1>8. \A k \in 1..Len(l) : Good(k - 1) => Good(k)
  <2>s. SUFFICES ASSUME NEW k \in 1..Len(l), Good(k - 1) PROVE Good(k)
    OBVIOUS
  <2>0. k \in 0..Len(l) /\ k # 0 /\ k - 1 \in 0..Len(l)
    BY <1>0, <2>s
  <2>x. PICK x : x = pass[k - 1]
    OBVIOUS
  <2>1. pass[k] = FreeFirst(x)
    BY <1>6, <2>0, <2>x
  <2>g. x = [slist |-> SubSeq(l, i(k - 1) + 1, Len(l)), n |-> a - At(l, total, i(k - 1) + 1)]
    BY <2>s, <2>x
  <2>2. CASE k <= z - 1
    <3>1. i(k - 1) = k - 1 /\ i(k) = k
      BY <2>2
    <3>2. x = [slist |-> SubSeq(l, k, Len(l)), n |-> a - At(l, total, k)]
      <4>1. i(k - 1) + 1 = k
        BY <2>0, <3>1
      <4> QED
        BY <2>g, <4>1
    <3>3. Head(x.slist) = l[k] /\ Tail(x.slist) = SubSeq(l, k + 1, Len(l))
      <4>1. Len(l) \in k..Len(l)
        BY <1>0
      <4> QED
        BY <1>0, <3>2, <4>1, HeadTailOfSubSeq
    <3>4. At(l, total, k) = l[k].seq /\ At(l, total, k + 1) = l[k].seq + l[k].len
      BY <1>0, <1>4 DEF At
    <3>5. At(l, total, k + 1) <= a
      <4>1. k + 1 = z \/ k + 1 \in 1..z - 1
        BY <2>2
      <4> QED
        BY <1>2, <1>3, <4>1
    <3>6. l[k].seq \in Nat /\ l[k].len \in Nat \ {0}
      BY <1>0 DEF SegType
    <3>7. x.n > 0 /\ ~ (x.n < Head(x.slist).len) /\ x.n - Head(x.slist).len = a - At(l, total, k + 1)
      <4>1. x.n = a - At(l, total, k) /\ Head(x.slist).len = l[k].len
        BY <3>2, <3>3
      <4>2. PICK b \in Nat, d \in Nat \ {0} : b = l[k].seq /\ d = l[k].len
        BY <3>6
      <4>3. x.n = a - b /\ Head(x.slist).len = d /\ At(l, total, k + 1) = b + d /\ b + d <= a
        BY <3>4, <3>5, <4>1, <4>2
      <4>4. a - b > 0 /\ ~ (a - b < d) /\ (a - b) - d = a - (b + d)
        <5>1. \A u, v \in Nat : \A w \in Nat \ {0} :
                 v + w <= u => u - v > 0 /\ ~ (u - v < w) /\ (u - v) - w = u - (v + w)
          OBVIOUS
        <5>2. a \in Nat /\ b + d <= a
          BY <1>1, <4>3
        <5>3. a - b > 0
          BY <5>1, <5>2
        <5>4. ~ (a - b < d)
          BY <5>1, <5>2
        <5>5. (a - b) - d = a - (b + d)
          BY <5>1, <5>2
        <5> QED
          BY <5>3, <5>4, <5>5
      <4>5. x.n - Head(x.slist).len = (a - b) - d
        BY <4>3
      <4>6. a - At(l, total, k + 1) = a - (b + d)
        BY <4>3
      <4> QED
        BY <4>3, <4>4, <4>5, <4>6
    <3>8. FreeFirst(x) = [slist |-> Tail(x.slist), n |-> x.n - Head(x.slist).len]
      BY <3>7 DEF FreeFirst
    <3>9. pass[k] = [slist |-> SubSeq(l, k + 1, Len(l)), n |-> a - At(l, total, k + 1)]
      BY <2>1, <3>3, <3>7, <3>8
    <3> QED
      BY <3>1, <3>9
  <2>3. CASE ~ (k <= z - 1)
    <3>1. i(k - 1) = z - 1 /\ i(k) = z - 1
      BY <2>3
    <3>2. x.n = 0
      <4>1. i(k - 1) + 1 = z
        BY <3>1
      <4>2. x.n = a - At(l, total, z)
        BY <2>g, <4>1
      <4> QED
        BY <1>1, <1>2, <4>2
    <3>3. FreeFirst(x) = x
      BY <3>2 DEF FreeFirst
    <3> QED
      <4>1. i(k - 1) = i(k)
        BY <3>1
      <4>2. pass[k] = x
        BY <2>1, <3>3
      <4> QED
        BY <2>g, <4>1, <4>2
  <2> QED
    BY <2>2, <2>3
<1> HIDE DEF Good
<1>9. T = {}
  <2> SUFFICES ASSUME T # {} PROVE FALSE
    OBVIOUS
  <2>0. T \subseteq Nat
    OBVIOUS
  <2>1. PICK k \in T : \A y \in T : k <= y
    BY <2>0, Least
  <2>2. k # 0
    BY <1>7
  <2>3. k \in 1..Len(l) /\ k - 1 \in 0..Len(l) /\ ~ (k <= k - 1)
    BY <1>0, <2>2
  <2>4. Good(k - 1)
    BY <2>1, <2>3
  <2> QED
    BY <1>8, <2>3, <2>4
<1>10. Good(Len(l))
  BY <1>0, <1>9
<1>11. PICK r : r = SubSeq(l, z, Len(l))
  OBVIOUS
<1>12. Acked(l, a - una) = r
  <2>1. i(Len(l)) = z - 1 /\ i(Len(l)) + 1 = z
    BY <1>0
  <2>2. pass[Len(l)].slist = SubSeq(l, z, Len(l))
    <3>1. pass[Len(l)] = [slist |-> SubSeq(l, i(Len(l)) + 1, Len(l)),
                          n |-> a - At(l, total, i(Len(l)) + 1)]
      BY <1>10 DEF Good
    <3>2. PICK q, y : pass[Len(l)] = [slist |-> q, n |-> y] /\ q = SubSeq(l, i(Len(l)) + 1, Len(l))
      BY <3>1
    <3>3. pass[Len(l)].slist = q
      BY ONLY <3>2
    <3> QED
      BY <2>1, <3>2, <3>3
  <2> QED
    BY <1>11, <1>p, <2>2 DEF Acked
<1>13. r \in Seq(SegType) /\ Len(r) = Len(l) - z + 1 /\ \A k \in 1..Len(l) - z + 1 : r[k] = l[z + k - 1]
  BY <1>0, <1>11, SubSeqProperties
<1>14. \A k \in 1..Len(r) + 1 : z + k - 1 \in 1..Len(l) + 1 /\ At(r, total, k) = At(l, total, z + k - 1)
  <2> TAKE k \in 1..Len(r) + 1
  <2>1. z + k - 1 \in 1..Len(l) + 1
    BY <1>0, <1>13
  <2>2. k <= Len(r) <=> z + k - 1 <= Len(l)
    BY <1>0, <1>13
  <2>3. CASE k <= Len(r)
    <3>1. k \in 1..Len(l) - z + 1
      BY <1>0, <1>13, <2>3
    <3> QED
      BY <1>13, <2>1, <2>2, <2>3, <3>1 DEF At
  <2>4. CASE ~ (k <= Len(r))
    BY <2>1, <2>2, <2>4 DEF At
  <2> QED
    BY <2>3, <2>4
<1>15. \A k \in 1..Len(r) : z + k - 1 \in 1..Len(l) /\ r[k] = l[z + k - 1] /\ z + (k + 1) - 1 = (z + k - 1) + 1
                             /\ k + 1 \in 1..Len(r) + 1
  BY <1>0, <1>13
<1>16. \A k \in 1..Len(r) : At(r, total, k + 1) = r[k].seq + r[k].len
  BY <1>4, <1>14, <1>15
<1>17. \A k \in 1..Len(r) : (r[k].ctrl <=> r[k].seq = 0) /\ (r[k].ctrl => r[k].len = 1)
  <2>1. \A k \in 1..Len(l) : (l[k].ctrl <=> l[k].seq = 0) /\ (l[k].ctrl => l[k].len = 1)
    BY DEF SegsOK
  <2> TAKE k \in 1..Len(r)
  <2>2. PICK j \in 1..Len(l) : r[k] = l[j]
    BY <1>15
  <2> QED
    BY <2>1, <2>2
<1>18. PICK m \in 0..Len(l) : SentTo(l, nxt, total, m)
  BY DEF SegsOK
<1>19. z <= m + 1
  <2> SUFFICES ASSUME z > m + 1 PROVE FALSE
    BY <1>0
  <2>1. m + 1 \in 1..z - 1
    OBVIOUS
  <2>2. At(l, total, m + 1) < a
    BY <1>2, <1>3, <2>1
  <2> QED
    BY <1>1, <1>18, <2>2 DEF SentTo
<1>20. SentTo(r, nxt, total, m - (z - 1)) /\ m - (z - 1) \in 0..Len(r)
  <2>1. m - (z - 1) \in 0..Len(r) /\ m - (z - 1) + 1 \in 1..Len(r) + 1
         /\ z + (m - (z - 1) + 1) - 1 = m + 1
    <3>0. PICK n \in Nat : n = Len(l)
      BY <1>0
    <3>1. PICK p \in Nat : p = Len(r)
      BY ONLY <1>13, LenProperties
    <3>2. p = n - z + 1 /\ z \in 1..n + 1 /\ m \in 0..n /\ z <= m + 1
      BY <1>0, <1>13, <1>19, <3>0, <3>1
    <3>3. m - (z - 1) \in 0..p /\ m - (z - 1) + 1 \in 1..p + 1 /\ z + (m - (z - 1) + 1) - 1 = m + 1
      BY ONLY n \in Nat, p \in Nat, <3>2
    <3> QED
      BY <3>0, <3>1, <3>3
  <2>2. At(r, total, m - (z - 1) + 1) = nxt
    BY <1>14, <1>18, <2>1 DEF SentTo
  <2>3. \A k \in 1..Len(r) : r[k].xmit > 0 <=> k <= m - (z - 1)
    <3> TAKE k \in 1..Len(r)
    <3>1. r[k].xmit > 0 <=> z + k - 1 <= m
      BY <1>15, <1>18 DEF SentTo
    <3> QED
      BY <1>0, <3>1
  <2> QED
    BY <2>1, <2>2, <2>3 DEF SentTo
<1>21. At(r, total, 1) = a
  <2>1. 1 \in 1..Len(r) + 1 /\ z + 1 - 1 = z
    BY <1>0, <1>13
  <2> QED
    BY <1>2, <1>14, <2>1
<1>22. SegsOK(r, a, nxt, total)
  BY <1>13, <1>16, <1>17, <1>20, <1>21 DEF SegsOK
<1>23. \A k \in 1..Len(l) + 1 : At(l, total, k) <= a \/
         \E j \in 1..Len(r) + 1 : At(l, total, k) = At(r, total, j)
  <2> TAKE k \in 1..Len(l) + 1
  <2>1. CASE k < z
    <3>1. k \in 1..z - 1
      BY <2>1
    <3> QED
      BY <1>2, <1>3, <3>1
  <2>2. CASE k >= z
    <3>1. k - z + 1 \in 1..Len(r) + 1 /\ z + (k - z + 1) - 1 = k
      BY <1>0, <1>13, <2>2
    <3> QED
      BY <1>14, <3>1
  <2> QED
    BY <2>1, <2>2
<1>24. \A y \in Nat : y <= una => y <= a
  BY <1>1
<1>25. Pts(l, una, nxt, total) \subseteq Pts(r, a, nxt, total)
  BY <1>23, <1>24 DEF Pts
<1>26. nxt <= total
  <2>1. m + 1 = Len(l) + 1 \/ m + 1 \in 1..(Len(l) + 1) - 1
    BY <1>0
  <2>2. Len(l) + 1 \in 1..Len(l) + 1 /\ At(l, total, Len(l) + 1) = total
    BY <1>0 DEF At
  <2>3. At(l, total, m + 1) = At(l, total, Len(l) + 1) \/ At(l, total, m + 1) < At(l, total, Len(l) + 1)
    BY <1>3, <2>1, <2>2
  <2> QED
    BY <1>18, <2>2, <2>3 DEF SentTo
<1> QED
  BY <1>1, <1>12, <1>22, <1>25, <1>26

-------------------------------------------------------------------------------
\* The invariant of the two ends, and of the network between them.

\* The members of m_rlist, and what goes over the network.
RangeType == [seq : Nat, len : Nat \ {0}]
Packet == [seq : Nat, ack : Nat, ctrl : BOOLEAN, wnd : Nat, data : Seq(Nat)]

\* The control block of an end.
Tcb ==
  [state : States, shutdown : BOOLEAN,
   slist : Seq(SegType), sbuf : Seq(Nat),
   una : Nat, nxt : Nat, wnd : Nat, scaled : BOOLEAN,
   rto : BOOLEAN, probes : Nat,
   cwnd : Nat \ {0}, ssthresh : Nat \ {0}, dups : 0..4, recover : Nat,
   mss : Nat \ {0}, level : Nat \ {0},
   rnxt : Nat, rwnd : Nat, rlist : Seq(RangeType), rbuf : Seq(Int), stash : Seq(Int),
   tack : BOOLEAN, lastack : Nat, readEnable : BOOLEAN, writeEnable : BOOLEAN,
   out : Seq(Packet), readable : BOOLEAN, writable : BOOLEAN]

\* Its fields.
Fields ==
  {"state", "shutdown", "slist", "sbuf", "una", "nxt", "wnd", "scaled", "rto", "probes",
   "cwnd", "ssthresh", "dups", "recover", "mss", "level", "rnxt", "rwnd", "rlist",
   "rbuf", "stash", "tack", "lastack", "readEnable", "writeEnable", "out", "readable",
   "writable"}

\* t has the fields of s but for F.
Frame(s, t, F) == \A f \in Fields \ F : t[f] = s[f]

\* The end of what has been written, the right edge of the receiver's window, and what may
\* be acknowledged.
Total(s)  == s.una + Len(s.sbuf)
Edge(s)   == s.rnxt + s.rwnd
Points(s) == Pts(s.slist, s.una, s.nxt, Total(s))

\* The sender's half of an end.
SndOK(s) ==
  /\ s.una <= s.nxt /\ s.nxt <= Total(s) /\ Total(s) < SeqRange
  /\ Len(s.sbuf) <= SndBuf
  /\ \A i \in 1..Len(s.sbuf) : s.sbuf[i] = s.una + i - 1
  /\ SegsOK(s.slist, s.una, s.nxt, Total(s))
  /\ s.rto <=> s.nxt > s.una
  /\ s.recover <= s.nxt

\* The congestion window, and the segment size, which is a level of PACKET_MAXIMUMS.
CcOK(s) ==
  /\ s.cwnd <= MaxCwnd
  /\ \E i \in 1..Len(Levels) : s.mss = Levels[i]
  /\ s.level <= Len(Levels)
  /\ s.mss > PathMss => s.mss = Levels[s.level]

\* The receiver's.
RcvOK(s) ==
  /\ s.rwnd + Len(s.rbuf) <= RcvBuf
  /\ Len(s.stash) + Len(s.rbuf) <= RcvBuf
  /\ s.rnxt = 0 => s.rwnd = RcvBuf

\* What s has sent to r, and what r has of it.
Peered(s, r) ==
  /\ s.nxt <= Edge(r) /\ s.una + s.wnd <= Edge(r) /\ s.una <= r.rnxt
  /\ r.rnxt \in Points(s)
  /\ \A i \in 1..Len(r.rlist) : r.rlist[i].seq + r.rlist[i].len \in Points(s)

\* The packets that s, which is the opener if o, may have sent to r.
FromTo(o, s, r) ==
  {p \in Packet :
     /\ p.ack <= s.rnxt /\ p.ack \in Points(r) /\ p.ack + p.wnd * WndUnit <= Edge(s)
     /\ p.data = <<>> => p.seq <= s.nxt /\ ~ p.ctrl
     /\ p.data # <<>> => /\ p.seq + Len(p.data) \in Points(s)
                         /\ p.ctrl <=> p.seq = 0
                         /\ p.ctrl => Len(p.data) = 1
     /\ \A i \in 1..Len(p.data) : p.data[i] = p.seq + i - 1
     /\ o /\ p.ctrl => p.ack = 0 /\ p.wnd >= 1
     /\ o \/ p.ack >= 1}

\* What is known of an end by itself.
Half(s) == s \in Tcb /\ SndOK(s) /\ CcOK(s) /\ RcvOK(s)

\* An end and its peer agree, whatever the first is about: it is kept by every function that
\* works on its control block.
Fine(o, s, r) ==
  /\ Half(s) /\ Half(r) /\ Peered(s, r) /\ Peered(r, s)
  /\ s.out \in Seq(FromTo(o, s, r))
  /\ o /\ s.rnxt >= 1 => s.una >= 1

-------------------------------------------------------------------------------
\* What is known of an end between two calls.
Initial(s) ==
  /\ s.nxt = 0 /\ s.una = 0 /\ s.sbuf = <<>> /\ s.rnxt = 0 /\ s.rlist = <<>> /\ s.rbuf = <<>>
  /\ s.wnd = 1 /\ ~ s.tack /\ ~ s.shutdown /\ s.dups = 0

\* The progress of the connection: w is what the application has written, c what has been
\* acknowledged to the peer and delivered to, or kept for, the application.
Phase(o, s, w, c) ==
  /\ Total(s) = w + (IF s.state = "listen" THEN 0 ELSE 1)
  /\ s.state = "listen" => Initial(s)
  /\ s.state # "listen" => s.nxt >= 1
  /\ s.state = "syn_sent" => o /\ s.rnxt = 0
  /\ s.state = "syn_received" => ~ o /\ s.una = 0
  /\ s.state = "established" \/ w > 0 => s.rnxt >= 1
  /\ ~ o /\ s.state # "listen" => s.rnxt >= 1
  /\ s.shutdown => s.state \in {"established", "closed", "destroyed"}
  /\ s.rnxt = 0 => c = 0
  /\ s.rnxt > 0 => c + 1 <= s.rnxt /\ (~ s.shutdown => c + 1 = s.rnxt)
  /\ s.state = "destroyed" => s.una = w + 1

\* Nobody waits for nothing: what has not been sent waits for the peer's window, and an
\* application that has not been told of data or of space has been blocked for a reason.
Progress(s, read, write) ==
  /\ s.state \notin {"closed", "destroyed"} /\ s.una = s.nxt /\ s.sbuf # <<>> => s.wnd = 0
  /\ s.rbuf # <<>> \/ ~ s.readEnable => read
  /\ s.state = "established" /\ ~ write =>
       s.writeEnable /\ Len(s.sbuf) >= Smaller(SndBuf, (SndBuf + RcvBuf) \div 2)

\* What a call has to say has gone to the network and to the application.
AtRest(s) == s.out = <<>> /\ ~ s.readable /\ ~ s.writable

\* x is where it belongs in m_rbuf.
Held(s, x) == x - s.rnxt + 1 <= Len(s.stash) /\ s.stash[x - s.rnxt + 1] = x

\* So is all that has been kept from m on.
Kept(s, m) ==
  \A i \in 1..Len(s.rlist) :
    \A x \in s.rlist[i].seq..s.rlist[i].seq + s.rlist[i].len - 1 : x >= m => Held(s, x)

\* m_rbuf has what follows c units of the stream.
Stream(s, c) == \A i \in 1..Len(s.rbuf) : s.rbuf[i] = c + i

\* What the application has read, g, what waits for it and what is kept for later are the
\* beginning of the stream.
Content(s, g) ==
  /\ \A i \in 1..Len(g) : g[i] = i
  /\ Stream(s, Len(g))
  /\ ~ s.shutdown => Kept(s, s.rnxt + 1)

\* The end that connects.
Opens(e) == e = Opener

\* An end: m is what its application may write, k holds if what it reads is known, n are the
\* packets on their way to its peer r; w, g, read and write are what its application has done.
Whole(o, m, k, s, r, n, w, g, read, write) ==
  /\ Fine(o, s, r) /\ AtRest(s) /\ n \in Seq(FromTo(o, s, r))
  /\ w \in 0..m /\ g \in Seq(Int) /\ read \in BOOLEAN /\ write \in BOOLEAN
  /\ Phase(o, s, w, Len(g) + Len(s.rbuf))
  /\ Progress(s, read, write)
  /\ k => Content(s, g)

\* The ends that read in order: the one that answers, and with both the opener too.
Reads(e, both) == e # Opener \/ both

\* The invariant of an end.
EndInv(e, both) ==
  Whole(Opens(e), ToSend[e], Reads(e, both), tcb[e], tcb[Peer(e)], net[Peer(e)], written[e], got[e],
        toRead[e], toWrite[e])

\* The variables are functions of the two ends.
Shaped ==
  /\ tcb = [e \in Ends |-> tcb[e]] /\ net = [e \in Ends |-> net[e]]
  /\ written = [e \in Ends |-> written[e]] /\ got = [e \in Ends |-> got[e]]
  /\ toRead = [e \in Ends |-> toRead[e]] /\ toWrite = [e \in Ends |-> toWrite[e]]

\* Until the opener connects there is nothing, and until the other end has heard its connect
\* message nothing else is on its way.
Handshake ==
  /\ tcb[Opener].state = "listen" => \A e \in Ends : net[e] = <<>> /\ tcb[e].state = "listen"
  /\ tcb[Peer(Opener)].state = "listen" =>
       /\ net[Opener] = <<>> /\ ~ tcb[Opener].tack /\ tcb[Opener].wnd = 1
       /\ \A i \in 1..Len(net[Peer(Opener)]) : net[Peer(Opener)][i].ctrl

\* The inductive invariant, with what is said of the opener's reading only if both holds.
TcpInv(both) ==
  /\ Shaped
  /\ \A e \in Ends : EndInv(e, both)
  /\ Handshake
  /\ faults \in 0..MaxFaults

-------------------------------------------------------------------------------
\* What an end says, and what cannot become false.

\* Sequence numbers do not wrap while the applications write what they have to.
NoWrap == \A e \in Ends : ToSend[e] + 1 < SeqRange

\* No data is kept that has come before the peer's connect message.
InTurn(s) == s.rnxt = 0 => s.rlist = <<>>

\* The connect message of the end that answers comes before its data.
ConnectFirst == InTurn(tcb[Opener])

\* Nothing that has been said becomes false.
Grows(s, t) ==
  /\ s.rnxt <= t.rnxt /\ Edge(s) <= Edge(t) /\ s.nxt <= t.nxt /\ s.una <= t.una
  /\ Points(s) \subseteq Points(t)

\* What is on neither side of the windows.
Soft == {"state", "shutdown", "scaled", "probes", "cwnd", "ssthresh", "dups", "recover", "mss", "level",
         "tack", "lastack", "readEnable", "writeEnable", "readable", "writable"}

\* It acknowledges without data, or is about to.
Acks(s) == s.tack \/ \E i \in 1..Len(s.out) : s.out[i].data = <<>>

\* What the assumption says of each constant.
LEMMA Consts ==
  /\ SeqRange \in Nat \ {0} /\ SndBuf \in Nat \ {0} /\ RcvBuf \in Nat \ {0} /\ WndUnit \in Nat \ {0}
  /\ WndUnit <= RcvBuf /\ PathMss \in Nat \ {0} /\ Chunk \in Nat \ {0}
  /\ Len(Levels) \in Nat \ {0} /\ (\A i \in 1..Len(Levels) : Levels[i] \in Nat \ {0})
  /\ Levels[Len(Levels)] <= PathMss /\ MaxCwnd \in Nat \ {0}
<1>1. /\ SeqRange \in Nat \ {0} /\ SndBuf \in Nat \ {0} /\ RcvBuf \in Nat \ {0} /\ WndUnit \in Nat \ {0}
      /\ WndUnit <= RcvBuf /\ PathMss \in Nat \ {0} /\ Chunk \in Nat \ {0}
  BY PseudoTcpAssumption
<1>2. Levels \in Seq(Nat \ {0}) /\ Levels # <<>> /\ Levels[Len(Levels)] \in 1..PathMss
  BY PseudoTcpAssumption
<1>3. Len(Levels) \in Nat \ {0} /\ (\A i \in 1..Len(Levels) : Levels[i] \in Nat \ {0})
  BY <1>2, LenProperties, ElementOfSeq, EmptySeq
<1>4. Levels[1] \in Nat
  BY <1>3
<1>5. MaxCwnd \in Nat \ {0}
  BY <1>1, <1>4 DEF MaxCwnd
<1> QED
  BY <1>1, <1>2, <1>3, <1>5

\* A list of a set's members is a list of a larger set's.
LEMMA SeqMono ==
  ASSUME NEW S, NEW T, S \subseteq T, NEW l \in Seq(S)
  PROVE  l \in Seq(T)
<1>1. Len(l) \in Nat /\ l \in [1..Len(l) -> S]
  BY LenProperties, ElementOfSeq
<1> QED
  BY <1>1, SeqDef

\* What may be acknowledged has been sent.
LEMMA PtsFacts ==
  ASSUME NEW l, NEW una \in Nat, NEW nxt \in Nat, NEW total \in Nat, una <= nxt,
         SegsOK(l, una, nxt, total), NEW a \in Pts(l, una, nxt, total)
  PROVE  a \in Nat /\ a <= nxt
  BY DEF Pts

\* The same of an end.
LEMMA PointsFacts ==
  ASSUME NEW s, Half(s), NEW a \in Points(s)
  PROVE  a \in Nat /\ a <= s.nxt
<1>1. s.una \in Nat /\ s.nxt \in Nat /\ s.una <= s.nxt
  BY DEF Half, Tcb, SndOK
<1> QED
  BY <1>1 DEF Points, Pts

\* What has been acknowledged before may be acknowledged again.
LEMMA LowPoints ==
  ASSUME NEW s, NEW a \in Nat, a <= s.una
  PROVE  a \in Points(s)
  BY DEF Points, Pts

\* The types of the fields, one by one.
LEMMA TcbTypes ==
  ASSUME NEW s \in Tcb
  PROVE  /\ s.una \in Nat /\ s.nxt \in Nat /\ s.wnd \in Nat /\ s.rnxt \in Nat /\ s.rwnd \in Nat
         /\ Edge(s) \in Nat /\ s.cwnd \in Nat \ {0} /\ s.mss \in Nat \ {0} /\ s.dups \in 0..4
         /\ s.ssthresh \in Nat \ {0} /\ s.recover \in Nat /\ s.level \in Nat \ {0}
         /\ s.sbuf \in Seq(Nat) /\ Len(s.sbuf) \in Nat /\ Total(s) \in Nat
         /\ s.rbuf \in Seq(Int) /\ Len(s.rbuf) \in Nat
         /\ s.stash \in Seq(Int) /\ Len(s.stash) \in Nat
         /\ s.rlist \in Seq(RangeType) /\ Len(s.rlist) \in Nat
         /\ s.slist \in Seq(SegType) /\ Len(s.slist) \in Nat
         /\ s.out \in Seq(Packet) /\ Len(s.out) \in Nat /\ s.probes \in Nat
<1>1. /\ s.una \in Nat /\ s.nxt \in Nat /\ s.wnd \in Nat /\ s.rnxt \in Nat /\ s.rwnd \in Nat
      /\ s.cwnd \in Nat \ {0} /\ s.mss \in Nat \ {0} /\ s.dups \in 0..4
      /\ s.ssthresh \in Nat \ {0} /\ s.recover \in Nat /\ s.level \in Nat \ {0} /\ s.probes \in Nat
  BY DEF Tcb
<1>2. /\ s.sbuf \in Seq(Nat) /\ s.rbuf \in Seq(Int) /\ s.stash \in Seq(Int)
      /\ s.rlist \in Seq(RangeType) /\ s.slist \in Seq(SegType) /\ s.out \in Seq(Packet)
  BY DEF Tcb
<1>3. /\ Len(s.sbuf) \in Nat /\ Len(s.rbuf) \in Nat /\ Len(s.stash) \in Nat /\ Len(s.rlist) \in Nat
      /\ Len(s.slist) \in Nat /\ Len(s.out) \in Nat
  BY <1>2, LenProperties
<1>4. Edge(s) \in Nat /\ Total(s) \in Nat
  <2>1. s.rnxt + s.rwnd \in Nat
    BY <1>1
  <2>2. s.una + Len(s.sbuf) \in Nat
    <3>1. PICK a \in Nat, n \in Nat : a = s.una /\ n = Len(s.sbuf)
      BY <1>1, <1>3
    <3> QED
      BY <3>1
  <2> QED
    BY <2>1, <2>2 DEF Edge, Total
<1> QED
  BY <1>1, <1>2, <1>3, <1>4

\* Nothing has been unsaid when nothing has changed.
LEMMA GrowsRefl ==
  ASSUME NEW s \in Tcb
  PROVE  Grows(s, s)
  BY TcbTypes DEF Grows

\* Nor after two steps, if neither has unsaid anything.
LEMMA GrowsTrans ==
  ASSUME NEW s \in Tcb, NEW t \in Tcb, NEW u \in Tcb, Grows(s, t), Grows(t, u)
  PROVE  Grows(s, u)
<1>1. /\ s.rnxt <= t.rnxt /\ Edge(s) <= Edge(t) /\ s.nxt <= t.nxt /\ s.una <= t.una
      /\ Points(s) \subseteq Points(t)
  BY DEF Grows
<1>2. /\ t.rnxt <= u.rnxt /\ Edge(t) <= Edge(u) /\ t.nxt <= u.nxt /\ t.una <= u.una
      /\ Points(t) \subseteq Points(u)
  BY DEF Grows
<1>3. \A x \in {s, t, u} : x.rnxt \in Nat /\ Edge(x) \in Nat /\ x.nxt \in Nat /\ x.una \in Nat
  BY TcbTypes
<1>4. Points(s) \subseteq Points(u)
  BY <1>1, <1>2
<1> HIDE DEF Grows
<1>5. s.rnxt <= u.rnxt /\ Edge(s) <= Edge(u)
  BY <1>1, <1>2, <1>3
<1>6. s.nxt <= u.nxt /\ s.una <= u.una
  BY <1>1, <1>2, <1>3
<1> QED
  BY <1>4, <1>5, <1>6 DEF Grows

\* What is on its way remains what an end may have sent.
LEMMA FromToGrows ==
  ASSUME NEW o, NEW s \in Tcb, NEW t \in Tcb, NEW r \in Tcb, Grows(s, t)
  PROVE  FromTo(o, s, r) \subseteq FromTo(o, t, r) /\ FromTo(o, r, s) \subseteq FromTo(o, r, t)
<1>1. /\ s.rnxt \in Nat /\ t.rnxt \in Nat /\ Edge(s) \in Nat /\ Edge(t) \in Nat
      /\ s.nxt \in Nat /\ t.nxt \in Nat /\ WndUnit \in Nat
  BY Consts, TcbTypes
<1>2. /\ s.rnxt <= t.rnxt /\ Edge(s) <= Edge(t) /\ s.nxt <= t.nxt
      /\ Points(s) \subseteq Points(t)
  BY DEF Grows
<1>3. ASSUME NEW p \in FromTo(o, s, r) PROVE p \in FromTo(o, t, r)
  <2>1. p.ack \in Nat /\ p.wnd \in Nat /\ p.seq \in Nat
    BY DEF FromTo, Packet
  <2>2. p.wnd * WndUnit \in Nat
    BY <1>1, <2>1
  <2>3. p.ack <= t.rnxt
    BY <1>1, <1>2, <2>1 DEF FromTo
  <2>4. p.ack + p.wnd * WndUnit <= Edge(t)
    BY <1>1, <1>2, <2>1, <2>2 DEF FromTo
  <2>5. p.data = <<>> => p.seq <= t.nxt /\ ~ p.ctrl
    BY <1>1, <1>2, <2>1 DEF FromTo
  <2>6. p.data # <<>> => p.seq + Len(p.data) \in Points(t)
    BY <1>2 DEF FromTo
  <2> QED
    BY <2>3, <2>4, <2>5, <2>6 DEF FromTo
<1>4. ASSUME NEW p \in FromTo(o, r, s) PROVE p \in FromTo(o, r, t)
  BY <1>2 DEF FromTo
<1> QED
  BY <1>3, <1>4

\* What a frame leaves.
LEMMA SoftFine ==
  ASSUME NEW o, NEW s, NEW r, Fine(o, s, r), NEW t \in Tcb, Frame(s, t, Soft),
         CcOK(t), t.recover <= t.nxt
  PROVE  Fine(o, t, r) /\ Grows(s, t)
<1>1. /\ t.slist = s.slist /\ t.sbuf = s.sbuf /\ t.una = s.una /\ t.nxt = s.nxt /\ t.wnd = s.wnd
      /\ t.rto = s.rto
  BY DEF Frame, Fields, Soft
<1>2. /\ t.rnxt = s.rnxt /\ t.rwnd = s.rwnd /\ t.rlist = s.rlist
      /\ t.rbuf = s.rbuf /\ t.stash = s.stash /\ t.out = s.out
  BY DEF Frame, Fields, Soft
<1>3. Total(t) = Total(s) /\ Edge(t) = Edge(s) /\ Points(t) = Points(s)
  BY <1>1, <1>2 DEF Total, Edge, Points
<1>4. Grows(s, t)
  <2>1. s \in Tcb
    BY DEF Fine, Half
  <2> QED
    BY <1>1, <1>2, <1>3, <2>1, GrowsRefl DEF Grows
<1>5. Half(t)
  <2>1. SndOK(t)
    BY <1>1, <1>3 DEF Fine, Half, SndOK
  <2>2. RcvOK(t)
    BY <1>2 DEF Fine, Half, RcvOK
  <2> QED
    BY <2>1, <2>2 DEF Half
<1>6. Peered(t, r) /\ Peered(r, t)
  BY <1>1, <1>2, <1>3 DEF Fine, Peered
<1>7. t.out \in Seq(FromTo(o, t, r))
  <2>1. s \in Tcb /\ r \in Tcb
    BY DEF Fine, Half
  <2>2. FromTo(o, s, r) \subseteq FromTo(o, t, r)
    BY <1>4, <2>1, FromToGrows
  <2>3. s.out \in Seq(FromTo(o, s, r))
    BY DEF Fine
  <2> QED
    BY <1>2, <2>2, <2>3, SeqMono
<1>8. o /\ t.rnxt >= 1 => t.una >= 1
  BY <1>1, <1>2 DEF Fine
<1> QED
  BY <1>4, <1>5, <1>6, <1>7, <1>8 DEF Fine

\* A window of congestion is within its bound.
LEMMA WithCwndOK ==
  ASSUME NEW s \in Tcb, NEW n \in Nat \ {0}
  PROVE  /\ WithCwnd(s, n) \in Tcb /\ Frame(s, WithCwnd(s, n), {"cwnd"})
         /\ WithCwnd(s, n).cwnd <= MaxCwnd
<1>1. PICK m : m = Smaller(n, MaxCwnd)
  OBVIOUS
<1>2. m \in Nat \ {0} /\ m <= MaxCwnd
  BY <1>1, Consts DEF Smaller
<1>3. [s EXCEPT !.cwnd = m] \in Tcb /\ [s EXCEPT !.cwnd = m].cwnd = m
  BY <1>2 DEF Tcb
<1>4. Frame(s, [s EXCEPT !.cwnd = m], {"cwnd"})
  BY DEF Frame, Fields, Tcb
<1> QED
  BY <1>1, <1>2, <1>3, <1>4 DEF WithCwnd

-------------------------------------------------------------------------------
\* Sending: transmit, packet and attemptSend.

\* What sending something changes.
Sent == {"slist", "nxt", "rto", "cwnd", "mss", "level", "tack", "lastack", "out"}

\* A division of naturals.
LEMMA Div ==
  ASSUME NEW a \in Nat, NEW w \in Nat \ {0}
  PROVE  a \div w \in Nat /\ (a \div w) * w <= a /\ (w <= a => a \div w >= 1)
<1>1. a \div w \in Nat
  OBVIOUS
<1>2. (a \div w) * w <= a
  OBVIOUS
<1>3. w <= a => a \div w >= 1
  OBVIOUS
<1> QED
  BY <1>1, <1>2, <1>3

\* Segments lie between what has been acknowledged and what has been written.
LEMMA SegBounds ==
  ASSUME NEW l, NEW una \in Nat, NEW nxt \in Nat, NEW total \in Nat, SegsOK(l, una, nxt, total),
         NEW i \in 1..Len(l)
  PROVE  /\ l[i] \in SegType /\ l[i].seq \in Nat /\ l[i].len \in Nat \ {0} /\ l[i].ctrl \in BOOLEAN
         /\ l[i].xmit \in Nat /\ una <= l[i].seq /\ l[i].seq + l[i].len <= total
         /\ l[i].xmit > 0 => una < nxt
<1>0. Len(l) \in Nat /\ \A k \in 1..Len(l) : l[k] \in SegType
  BY LenProperties, ElementOfSeq DEF SegsOK
<1>1. l[i] \in SegType /\ l[i].seq \in Nat /\ l[i].len \in Nat \ {0} /\ l[i].ctrl \in BOOLEAN /\ l[i].xmit \in Nat
  BY <1>0 DEF SegType
<1>2. /\ \A k \in 1..Len(l) + 1 : At(l, total, k) \in Nat
      /\ \A k \in 1..Len(l) + 1 : \A j \in 1..k - 1 : At(l, total, j) < At(l, total, k)
  BY AtIncreases
<1>3. At(l, total, 1) = una /\ At(l, total, i) = l[i].seq /\ At(l, total, i + 1) = l[i].seq + l[i].len
      /\ At(l, total, Len(l) + 1) = total
  BY <1>0 DEF SegsOK, At
<1>4. una <= l[i].seq
  <2>1. i = 1 \/ (1 \in 1..i - 1 /\ i \in 1..Len(l) + 1)
    BY <1>0
  <2> QED
    BY <1>1, <1>2, <1>3, <2>1
<1>5. l[i].seq + l[i].len <= total
  <2>1. i = Len(l) \/ (i + 1 \in 1..(Len(l) + 1) - 1 /\ Len(l) + 1 \in 1..Len(l) + 1)
    BY <1>0
  <2>2. l[i].seq + l[i].len \in Nat
    BY <1>1
  <2>3. CASE i = Len(l)
    BY <1>3, <2>3
  <2>4. CASE i # Len(l)
    BY <1>2, <1>3, <2>1, <2>2, <2>4
  <2> QED
    BY <2>3, <2>4
<1>6. l[i].xmit > 0 => una < nxt
  <2> SUFFICES ASSUME l[i].xmit > 0 PROVE una < nxt
    OBVIOUS
  <2>1. PICK m \in 0..Len(l) : SentTo(l, nxt, total, m)
    BY DEF SegsOK
  <2>2. i <= m
    BY <2>1 DEF SentTo
  <2>3. 1 \in 1..(m + 1) - 1 /\ m + 1 \in 1..Len(l) + 1
    BY <1>0, <2>2
  <2>4. At(l, total, 1) < At(l, total, m + 1)
    BY <1>2, <2>3
  <2> QED
    BY <1>3, <2>1, <2>4 DEF SentTo
<1> QED
  BY <1>1, <1>4, <1>5, <1>6

\* What Split leaves: segment i is no longer than len.
SplitFine(s, t, i, len) ==
  /\ t \in Tcb /\ Frame(s, t, {"slist"})
  /\ SegsOK(t.slist, s.una, s.nxt, Total(s))
  /\ Points(s) \subseteq Pts(t.slist, s.una, s.nxt, Total(s))
  /\ i \in 1..Len(t.slist)
  /\ t.slist[i] = [s.slist[i] EXCEPT !.len = Smaller(len, s.slist[i].len)]
  /\ \A m \in 0..Len(s.slist) : SentTo(s.slist, s.nxt, Total(s), m) /\ i <= m + 1 =>
       \E k \in 0..Len(t.slist) : SentTo(t.slist, s.nxt, Total(s), k) /\ i <= k + 1

\* Splitting a segment, as transmit does to send the first part of it, changes nothing else:
\* what may be acknowledged, and how far has been sent, stay the same.
LEMMA SplitOK ==
  ASSUME NEW s \in Tcb, SegsOK(s.slist, s.una, s.nxt, Total(s)), Total(s) < SeqRange,
         NEW i \in 1..Len(s.slist), NEW len \in Nat \ {0}, NEW t
  PROVE  t = Split(s, i, len) => SplitFine(s, t, i, len)
<1>a. SUFFICES ASSUME t = Split(s, i, len)
      PROVE  /\ t \in Tcb /\ Frame(s, t, {"slist"})
             /\ SegsOK(t.slist, s.una, s.nxt, Total(s))
             /\ Points(s) \subseteq Pts(t.slist, s.una, s.nxt, Total(s))
             /\ i \in 1..Len(t.slist)
             /\ t.slist[i] = [s.slist[i] EXCEPT !.len = Smaller(len, s.slist[i].len)]
             /\ \A m \in 0..Len(s.slist) : SentTo(s.slist, s.nxt, Total(s), m) /\ i <= m + 1 =>
                  \E k \in 0..Len(t.slist) : SentTo(t.slist, s.nxt, Total(s), k) /\ i <= k + 1
  BY DEF SplitFine
<1>0. /\ s.una \in Nat /\ s.nxt \in Nat /\ Total(s) \in Nat /\ Len(s.slist) \in Nat
      /\ SeqRange \in Nat
  BY TcbTypes, Consts
<1>b. PICK total \in Nat, una \in Nat, nxt \in Nat : total = Total(s) /\ una = s.una /\ nxt = s.nxt
  BY <1>0
<1>c. PICK l : l = s.slist
  OBVIOUS
<1>d. PICK seg : seg = l[i]
  OBVIOUS
<1>1. /\ l = s.slist /\ total = Total(s) /\ seg = l[i] /\ una = s.una /\ nxt = s.nxt
      /\ SegsOK(l, una, nxt, total) /\ i \in 1..Len(l)
  BY <1>b, <1>c, <1>d
<1>2. /\ seg \in SegType /\ seg.seq \in Nat /\ seg.len \in Nat \ {0} /\ seg.seq + seg.len <= total
  BY <1>0, <1>1, SegBounds
<1>3. CASE len >= seg.len
  <2>1. t = s
    BY <1>a, <1>1, <1>3 DEF Split
  <2>2. Smaller(len, seg.len) = seg.len
    BY <1>2, <1>3 DEF Smaller
  <2>3. [seg EXCEPT !.len = seg.len] = seg
    BY <1>2 DEF SegType
  <2>4. Frame(s, t, {"slist"})
    BY <2>1 DEF Frame
  <2>5. Points(s) \subseteq Pts(s.slist, s.una, s.nxt, Total(s))
    BY DEF Points
  <2> QED
    BY <1>1, <2>1, <2>2, <2>3, <2>4, <2>5
<1>4. CASE ~ (len >= seg.len)
  <2>1. len \in 1..seg.len - 1 /\ Smaller(len, seg.len) = len /\ Plus(seg.seq, len) = seg.seq + len
    <3>1. len \in 1..seg.len - 1 /\ Smaller(len, seg.len) = len
      BY <1>2, <1>4 DEF Smaller
    <3>2. seg.seq + len < SeqRange
      <4>1. PICK a \in Nat, b \in Nat : a = seg.seq /\ b = seg.len
        BY <1>2
      <4>2. a + b <= total /\ total < SeqRange /\ len < b
        BY <1>1, <1>2, <1>4, <4>1
      <4> QED
        BY <1>0, <4>1, <4>2
    <3> QED
      BY <1>2, <3>1, <3>2, NoWrapping
  <2>2. PICK r : r = SplitAt(l, i, len)
    OBVIOUS
  <2>3. t = [s EXCEPT !.slist = r]
    BY <1>a, <1>1, <1>4, <2>1, <2>2 DEF Split, SplitAt
  <2>4. /\ SegsOK(r, una, nxt, total) /\ Pts(l, una, nxt, total) \subseteq Pts(r, una, nxt, total)
        /\ Len(r) = Len(l) + 1 /\ r[i] = [l[i] EXCEPT !.len = len]
        /\ \A m \in 0..Len(l) : SentTo(l, nxt, total, m) =>
             SentTo(r, nxt, total, IF i <= m THEN m + 1 ELSE m)
    <3>1. SegsOK(l, una, nxt, total) /\ i \in 1..Len(l) /\ len \in 1..l[i].len - 1
      BY <1>1, <2>1
    <3> QED
      BY <2>2, <3>1, SplitSegs
  <2>5. r \in Seq(SegType)
    BY <2>4 DEF SegsOK
  <2>6. t \in Tcb /\ t.slist = r /\ Frame(s, t, {"slist"})
    <3>1. [s EXCEPT !.slist = r] \in Tcb /\ [s EXCEPT !.slist = r].slist = r
      BY <2>5 DEF Tcb
    <3>2. Frame(s, [s EXCEPT !.slist = r], {"slist"})
      BY DEF Frame, Fields, Tcb
    <3> QED
      BY <2>3, <3>1, <3>2
  <2>7. i \in 1..Len(r)
    BY <1>0, <1>1, <2>4
  <2>8. \A m \in 0..Len(l) : SentTo(l, nxt, total, m) /\ i <= m + 1 =>
          \E k \in 0..Len(r) : SentTo(r, nxt, total, k) /\ i <= k + 1
    <3> TAKE m \in 0..Len(l)
    <3> HAVE SentTo(l, nxt, total, m) /\ i <= m + 1
    <3>1. PICK k : k = IF i <= m THEN m + 1 ELSE m
      OBVIOUS
    <3>2. SentTo(r, nxt, total, k)
      BY <2>4, <3>1
    <3>3. k \in 0..Len(r) /\ i <= k + 1
      BY <1>0, <1>1, <2>4, <3>1
    <3> QED
      BY <3>2, <3>3
  <2> QED
    BY <1>1, <2>1, <2>4, <2>6, <2>7, <2>8 DEF Points
<1> QED
  BY <1>3, <1>4

\* What an end writes in a packet about what it has received.
LEMMA PacketFine ==
  ASSUME NEW o \in BOOLEAN, NEW s, NEW r, Half(s), s.rnxt \in Points(r), o \/ s.rnxt >= 1,
         NEW seq \in Nat, NEW ctrl \in BOOLEAN, NEW data \in Seq(Nat),
         data = <<>> => seq <= s.nxt /\ ~ ctrl,
         data # <<>> => seq + Len(data) \in Points(s) /\ (ctrl <=> seq = 0) /\ (ctrl => Len(data) = 1),
         \A i \in 1..Len(data) : data[i] = seq + i - 1,
         o /\ ctrl => s.rnxt = 0
  PROVE  [seq |-> seq, ack |-> s.rnxt, ctrl |-> ctrl, wnd |-> s.rwnd \div WndUnit, data |-> data]
           \in FromTo(o, s, r)
<1>1. PICK ack \in Nat, w \in Nat, b \in Nat \ {0} : ack = s.rnxt /\ w = s.rwnd /\ b = WndUnit
  BY TcbTypes, Consts DEF Half
<1>2. w \div b \in Nat /\ (w \div b) * b <= w /\ (b <= w => w \div b >= 1)
  BY Div
<1>3. PICK v \in Nat : v = w \div b
  BY <1>2
<1>4. ack + v * b <= Edge(s)
  <2>1. PICK y \in Nat : y = v * b
    OBVIOUS
  <2>2. y <= w
    BY <1>2, <1>3, <2>1
  <2>3. Edge(s) = ack + w
    BY <1>1 DEF Edge
  <2> QED
    BY <2>1, <2>2, <2>3
<1>5. o /\ ctrl => ack = 0 /\ v >= 1
  <2> SUFFICES ASSUME o /\ ctrl PROVE ack = 0 /\ v >= 1
    OBVIOUS
  <2>1. ack = 0 /\ w = RcvBuf
    BY <1>1 DEF Half, RcvOK
  <2> QED
    BY <1>1, <1>2, <1>3, <2>1, Consts
<1> DEFINE p == [seq |-> seq, ack |-> ack, ctrl |-> ctrl, wnd |-> v, data |-> data]
<1>6. p \in Packet /\ p.seq = seq /\ p.ack = ack /\ p.ctrl = ctrl /\ p.wnd = v /\ p.data = data
  BY DEF Packet
<1> HIDE DEF p
<1>7. p.ack <= s.rnxt /\ p.ack \in Points(r) /\ p.ack + p.wnd * WndUnit <= Edge(s)
  BY <1>1, <1>4, <1>6
<1>8. p \in FromTo(o, s, r)
  BY <1>1, <1>5, <1>6, <1>7 DEF FromTo
<1> QED
  BY <1>1, <1>3, <1>8 DEF p

\* Writing a packet changes what is said of acknowledgements, and nothing else.
LEMMA WrittenType ==
  ASSUME NEW s \in Tcb, NEW seq \in Nat, NEW ctrl \in BOOLEAN, NEW data \in Seq(Nat), NEW t
  PROVE  t = Written(s, seq, ctrl, data) =>
         /\ t \in Tcb /\ Frame(s, t, {"out", "tack", "lastack"}) /\ ~ t.tack
         /\ t.out = Append(s.out, [seq |-> seq, ack |-> s.rnxt, ctrl |-> ctrl,
                                   wnd |-> s.rwnd \div WndUnit, data |-> data])
<1>a. SUFFICES ASSUME t = Written(s, seq, ctrl, data)
      PROVE  /\ t \in Tcb /\ Frame(s, t, {"out", "tack", "lastack"}) /\ ~ t.tack
             /\ t.out = Append(s.out, [seq |-> seq, ack |-> s.rnxt, ctrl |-> ctrl,
                                       wnd |-> s.rwnd \div WndUnit, data |-> data])
  OBVIOUS
<1>0. PICK v \in Nat : v = s.rwnd \div WndUnit
  BY TcbTypes, Consts, Div
<1>1. PICK p : p = [seq |-> seq, ack |-> s.rnxt, ctrl |-> ctrl, wnd |-> v, data |-> data]
  OBVIOUS
<1>2. p \in Packet
  BY <1>1 DEF Tcb, Packet
<1>3. PICK q : q = Append(s.out, p)
  OBVIOUS
<1>4. q \in Seq(Packet)
  BY <1>2, <1>3 DEF Tcb
<1>5. t = [s EXCEPT !.out = q, !.tack = FALSE, !.lastack = s.rnxt]
  BY <1>a, <1>0, <1>1, <1>3 DEF Written
<1>6. t \in Tcb /\ t.out = q /\ ~ t.tack
  BY <1>4, <1>5 DEF Tcb
<1>7. Frame(s, t, {"out", "tack", "lastack"})
  BY <1>5 DEF Tcb, Fields, Frame
<1> QED
  BY <1>0, <1>1, <1>3, <1>6, <1>7

\* transmit goes down in PACKET_MAXIMUMS until a packet passes: the last level does.
LEMMA LowerMssOK ==
  ASSUME NEW s \in Tcb, CcOK(s), s.mss > PathMss, NEW t
  PROVE  t = LowerMss(s) =>
         /\ t \in Tcb /\ Frame(s, t, {"cwnd", "mss", "level"})
         /\ CcOK(t) /\ t.mss <= PathMss
<1>a. SUFFICES ASSUME t = LowerMss(s)
      PROVE  /\ t \in Tcb /\ Frame(s, t, {"cwnd", "mss", "level"})
             /\ CcOK(t) /\ t.mss <= PathMss
  OBVIOUS
<1>0. PICK n \in Nat \ {0}, level \in Nat \ {0}, path \in Nat \ {0} :
        n = Len(Levels) /\ level = s.level /\ path = PathMss
  BY Consts, TcbTypes
<1> DEFINE S == {k \in level + 1..n : Levels[k] <= path}
<1>1. n \in S
  <2>1. level # n
    <3> SUFFICES ASSUME level = n PROVE FALSE
      OBVIOUS
    <3>1. s.mss = Levels[n]
      BY <1>0 DEF CcOK
    <3>2. Levels[n] <= path
      BY <1>0, Consts
    <3>3. s.mss > path /\ s.mss \in Nat
      BY <1>0, TcbTypes
    <3> QED
      BY <3>1, <3>2, <3>3
  <2>2. level <= n
    BY <1>0 DEF CcOK
  <2>3. n \in level + 1..n
    BY <2>1, <2>2
  <2> QED
    BY <1>0, <2>3, Consts
<1>2. \E x \in S : \A y \in S : x <= y
  <2>1. S \subseteq Nat /\ S # {}
    BY <1>1
  <2> HIDE DEF S
  <2> QED
    BY <2>1, Least
<1>3. PICK l : l = Min(S)
  OBVIOUS
<1>4. l \in S
  BY <1>2, <1>3 DEF Min
<1>5. l \in 1..n /\ l \in Nat \ {0} /\ Levels[l] \in Nat \ {0} /\ Levels[l] <= path
  BY <1>0, <1>4, Consts
<1>6. PICK u : u = [s EXCEPT !.level = l, !.mss = Levels[l]]
  OBVIOUS
<1>7. u \in Tcb /\ u.level = l /\ u.mss = Levels[l]
  BY <1>5, <1>6 DEF Tcb
<1>8. Frame(s, u, {"mss", "level"})
  BY <1>6 DEF Frame, Fields, Tcb
<1>9. t = WithCwnd(u, 2 * Levels[l])
  BY <1>a, <1>0, <1>3, <1>6 DEF LowerMss
<1>10. 2 * Levels[l] \in Nat \ {0}
  BY <1>5
<1>11. t \in Tcb /\ Frame(u, t, {"cwnd"}) /\ t.cwnd <= MaxCwnd
  BY <1>7, <1>9, <1>10, WithCwndOK
<1>12. t.level = l /\ t.mss = Levels[l]
  BY <1>7, <1>11 DEF Frame, Fields
<1>13. Frame(s, t, {"cwnd", "mss", "level"})
  BY <1>8, <1>11 DEF Frame
<1> QED
  BY <1>0, <1>5, <1>11, <1>12, <1>13 DEF CcOK

\* The data of a packet is the part of m_sbuf that its sequence number says.
LEMMA PayloadOK ==
  ASSUME NEW s \in Tcb, SndOK(s), NEW seq \in Nat, s.una <= seq, NEW n \in Nat,
         seq + n <= Total(s), NEW d
  PROVE  d = Payload(s, Minus(seq, s.una), n) =>
         d \in Seq(Nat) /\ Len(d) = n /\ \A j \in 1..n : d[j] = seq + j - 1
<1>a. SUFFICES ASSUME d = Payload(s, Minus(seq, s.una), n)
      PROVE  d \in Seq(Nat) /\ Len(d) = n /\ \A j \in 1..n : d[j] = seq + j - 1
  OBVIOUS
<1>0. PICK una \in Nat, m \in Nat : una = s.una /\ m = Len(s.sbuf)
  BY TcbTypes
<1>1. una + m < SeqRange /\ seq + n <= una + m /\ una <= seq
  BY <1>0 DEF SndOK, Total
<1>2. Minus(seq, s.una) = seq - una
  BY <1>0, <1>1, NoWrapping, Consts
<1>3. PICK off \in Nat : off = seq - una
  BY <1>1
<1>4. d = [j \in 1..n |-> IF off + j <= m THEN s.sbuf[off + j] ELSE Garbage]
  BY <1>a, <1>0, <1>2, <1>3 DEF Payload
<1>5. \A j \in 1..n : off + j \in 1..m /\ una + (off + j) - 1 = seq + j - 1
  BY <1>1, <1>3
<1>6. \A i \in 1..m : s.sbuf[i] = una + i - 1
  BY <1>0 DEF SndOK
<1>7. \A j \in 1..n : d[j] = seq + j - 1 /\ seq + j - 1 \in Nat
  <2> TAKE j \in 1..n
  <2>1. PICK k \in 1..m : k = off + j /\ una + k - 1 = seq + j - 1
    BY <1>5
  <2>2. d[j] = s.sbuf[k]
    BY <1>4, <2>1
  <2> QED
    BY <1>6, <2>1, <2>2
<1>8. d \in [1..n -> Nat]
  BY <1>4, <1>7
<1>9. d \in Seq(Nat) /\ Len(d) = n
  BY <1>8, SeqDef, LenProperties
<1> QED
  BY <1>7, <1>9

\* An end that has sent one packet more, which is within the peer's window, agrees with it.
LEMMA SentFine ==
  ASSUME NEW o \in BOOLEAN, NEW s, NEW r, Fine(o, s, r), NEW t \in Tcb, Frame(s, t, Sent),
         SndOK(t), CcOK(t), Points(s) \subseteq Points(t), s.nxt <= t.nxt, t.nxt <= Edge(r),
         t.out = s.out \/ \E p \in FromTo(o, t, r) : t.out = Append(s.out, p)
  PROVE  Fine(o, t, r) /\ Grows(s, t)
<1>1. /\ t.sbuf = s.sbuf /\ t.una = s.una /\ t.wnd = s.wnd /\ t.rnxt = s.rnxt /\ t.rwnd = s.rwnd
      /\ t.rlist = s.rlist /\ t.rbuf = s.rbuf /\ t.stash = s.stash
  BY DEF Frame, Fields, Sent
<1>2. Edge(t) = Edge(s) /\ Total(t) = Total(s)
  BY <1>1 DEF Edge, Total
<1>3. s \in Tcb /\ r \in Tcb
  BY DEF Fine, Half
<1>4. Grows(s, t)
  <2>1. s.rnxt \in Nat /\ Edge(s) \in Nat /\ s.una \in Nat
    BY <1>3, TcbTypes
  <2>2. s.rnxt <= t.rnxt /\ Edge(s) <= Edge(t) /\ s.una <= t.una
    BY <1>1, <1>2, <2>1
  <2> QED
    BY <2>2 DEF Grows
<1>5. Half(t)
  BY <1>1 DEF Fine, Half, RcvOK
<1>6. Peered(t, r) /\ Peered(r, t)
  BY <1>1, <1>2 DEF Fine, Peered
<1>7. t.out \in Seq(FromTo(o, t, r))
  <2>1. FromTo(o, s, r) \subseteq FromTo(o, t, r)
    BY <1>3, <1>4, FromToGrows
  <2>2. s.out \in Seq(FromTo(o, s, r))
    BY DEF Fine
  <2>3. s.out \in Seq(FromTo(o, t, r))
    BY <2>1, <2>2, SeqMono
  <2>4. ASSUME NEW p \in FromTo(o, t, r), t.out = Append(s.out, p)
        PROVE  t.out \in Seq(FromTo(o, t, r))
    BY <2>3, <2>4, AppendProperties
  <2> QED
    BY <2>3, <2>4
<1>8. o /\ t.rnxt >= 1 => t.una >= 1
  BY <1>1 DEF Fine
<1> QED
  BY <1>4, <1>5, <1>6, <1>7, <1>8 DEF Fine

\* The segments before this one have been sent.
Ready(s, i) ==
  /\ i \in 1..Len(s.slist)
  /\ \E m \in 0..Len(s.slist) : SentTo(s.slist, s.nxt, Total(s), m) /\ i <= m + 1

\* Sending a segment, for the first time within the window or again, leaves the ends in
\* agreement and something in flight; it takes the place of an acknowledgement.
LEMMA TransmitFine ==
  ASSUME NEW o \in BOOLEAN, NEW s, NEW r, Fine(o, s, r), o \/ s.rnxt >= 1,
         NEW i, Ready(s, i), s.slist[i].xmit = 0 => s.nxt + s.slist[i].len <= Edge(r), NEW t
  PROVE  t = Transmit(s, i) =>
         Fine(o, t, r) /\ Grows(s, t) /\ Frame(s, t, Sent) /\ t.nxt > t.una /\ (Acks(t) => Acks(s))
<1>a. SUFFICES ASSUME t = Transmit(s, i)
      PROVE  Fine(o, t, r) /\ Grows(s, t) /\ Frame(s, t, Sent) /\ t.nxt > t.una /\ (Acks(t) => Acks(s))
  OBVIOUS
<1>0. s \in Tcb /\ SndOK(s) /\ CcOK(s) /\ r \in Tcb
  BY DEF Fine, Half
<1>1. PICK una \in Nat, nxt \in Nat, total \in Nat : una = s.una /\ nxt = s.nxt /\ total = Total(s)
  BY <1>0, TcbTypes
<1>2. PICK l : l = s.slist
  OBVIOUS
<1>3. SegsOK(l, una, nxt, total) /\ i \in 1..Len(l) /\ total < SeqRange /\ una <= nxt /\ nxt <= total
  BY <1>0, <1>1, <1>2 DEF SndOK, Ready
<1>4. PICK m \in 0..Len(l) : SentTo(l, nxt, total, m) /\ i <= m + 1
  BY <1>1, <1>2 DEF Ready
<1>5. PICK seg : seg = l[i]
  OBVIOUS
<1>6. PICK seq \in Nat, len \in Nat \ {0} : seq = seg.seq /\ len = seg.len
  BY <1>3, <1>5, SegBounds
<1>7. /\ seg \in SegType /\ seg.ctrl \in BOOLEAN /\ seg.xmit \in Nat
      /\ una <= seq /\ seq + len <= total /\ (seg.xmit > 0 => una < nxt)
  BY <1>3, <1>5, <1>6, SegBounds
<1>8. PICK mss \in Nat \ {0}, path \in Nat \ {0} : mss = s.mss /\ path = PathMss
  BY <1>0, TcbTypes, Consts
<1>9. PICK wanted : wanted = Smaller(len, mss)
  OBVIOUS
<1>10. wanted \in Nat \ {0} /\ wanted <= len /\ wanted <= mss
  BY <1>9 DEF Smaller
<1>11. PICK u : u = IF wanted <= path THEN s ELSE LowerMss(s)
  OBVIOUS
<1>12. PICK n : n = IF wanted <= path THEN wanted ELSE u.mss
  OBVIOUS
<1>13. u \in Tcb /\ Frame(s, u, {"cwnd", "mss", "level"}) /\ CcOK(u) /\ n \in Nat \ {0} /\ n <= len
  <2>1. CASE wanted <= path
    <3>1. u = s /\ n = wanted
      BY <1>11, <1>12, <2>1
    <3> QED
      BY <1>0, <1>10, <3>1 DEF Frame
  <2>2. CASE ~ (wanted <= path)
    <3>1. u = LowerMss(s) /\ n = u.mss
      BY <1>11, <1>12, <2>2
    <3>2. s.mss > PathMss
      BY <1>8, <1>10, <2>2
    <3>3. u \in Tcb /\ Frame(s, u, {"cwnd", "mss", "level"}) /\ CcOK(u) /\ u.mss <= path
      BY <1>0, <1>8, <3>1, <3>2, LowerMssOK
    <3>4. n \in Nat \ {0} /\ n <= path
      BY <3>1, <3>3, TcbTypes
    <3> QED
      BY <1>10, <2>2, <3>3, <3>4
  <2> QED
    BY <2>1, <2>2
<1>14. PICK d : d = Payload(s, Minus(seq, s.una), n)
  OBVIOUS
<1>15. d \in Seq(Nat) /\ Len(d) = n /\ \A j \in 1..n : d[j] = seq + j - 1
  <2>1. seq + n <= Total(s) /\ s.una <= seq
    BY <1>1, <1>7, <1>13
  <2> QED
    BY <1>0, <1>13, <1>14, <2>1, PayloadOK
<1>16. PICK w : w = Written(u, seq, seg.ctrl, d)
  OBVIOUS
<1>17. /\ w \in Tcb /\ Frame(u, w, {"out", "tack", "lastack"})
       /\ w.out = Append(u.out, [seq |-> seq, ack |-> u.rnxt, ctrl |-> seg.ctrl,
                                 wnd |-> u.rwnd \div WndUnit, data |-> d])
  BY <1>7, <1>13, <1>15, <1>16, WrittenType
<1>18. PICK v : v = Split(w, i, n)
  OBVIOUS
<1>19. w.slist = l /\ w.una = una /\ w.nxt = nxt /\ w.sbuf = s.sbuf /\ Total(w) = total
  <2>1. u.slist = l /\ u.una = una /\ u.nxt = nxt /\ u.sbuf = s.sbuf
    BY <1>1, <1>2, <1>13 DEF Frame, Fields
  <2>2. w.slist = u.slist /\ w.una = u.una /\ w.nxt = u.nxt /\ w.sbuf = u.sbuf
    BY <1>17 DEF Frame, Fields
  <2> QED
    BY <1>1, <2>1, <2>2 DEF Total
<1>20. /\ v \in Tcb /\ Frame(w, v, {"slist"})
       /\ SegsOK(v.slist, una, nxt, total)
       /\ Points(w) \subseteq Pts(v.slist, una, nxt, total)
       /\ i \in 1..Len(v.slist)
       /\ v.slist[i] = [l[i] EXCEPT !.len = Smaller(n, l[i].len)]
       /\ \A k \in 0..Len(l) : SentTo(l, nxt, total, k) /\ i <= k + 1 =>
            \E j \in 0..Len(v.slist) : SentTo(v.slist, nxt, total, j) /\ i <= j + 1
  <2>1. SegsOK(w.slist, w.una, w.nxt, Total(w)) /\ Total(w) < SeqRange /\ i \in 1..Len(w.slist)
    BY <1>3, <1>19
  <2>2. /\ v \in Tcb /\ Frame(w, v, {"slist"})
        /\ SegsOK(v.slist, w.una, w.nxt, Total(w))
        /\ Points(w) \subseteq Pts(v.slist, w.una, w.nxt, Total(w))
        /\ i \in 1..Len(v.slist)
        /\ v.slist[i] = [w.slist[i] EXCEPT !.len = Smaller(n, w.slist[i].len)]
        /\ \A k \in 0..Len(w.slist) : SentTo(w.slist, w.nxt, Total(w), k) /\ i <= k + 1 =>
             \E j \in 0..Len(v.slist) : SentTo(v.slist, w.nxt, Total(w), j) /\ i <= j + 1
    <3>1. w \in Tcb /\ n \in Nat \ {0}
      BY <1>13, <1>17
    <3>2. SplitFine(w, v, i, n)
      BY ONLY <1>18, <2>1, <3>1, SplitOK
    <3> QED
      BY ONLY <3>2 DEF SplitFine
  <2> QED
    BY <1>19, <2>2
<1>21. v.slist[i].len = n /\ v.slist[i].seq = seq /\ v.slist[i].ctrl = seg.ctrl /\ v.slist[i].xmit = seg.xmit
  <2>1. Smaller(n, l[i].len) = n
    BY <1>5, <1>6, <1>13 DEF Smaller
  <2>2. v.slist[i] = [seg EXCEPT !.len = n]
    BY <1>5, <1>20, <2>1
  <2>3. /\ [seg EXCEPT !.len = n].len = n /\ [seg EXCEPT !.len = n].seq = seg.seq
        /\ [seg EXCEPT !.len = n].ctrl = seg.ctrl /\ [seg EXCEPT !.len = n].xmit = seg.xmit
    BY <1>7 DEF SegType
  <2> QED
    BY <1>6, <2>2, <2>3
<1>22. PICK r2 : r2 = Resent(v.slist, i)
  OBVIOUS
<1>23. PICK nx : nx = IF seg.xmit = 0 THEN nxt + n ELSE nxt
  OBVIOUS
<1>24. /\ SegsOK(r2, una, nx, total) /\ Pts(v.slist, una, nxt, total) \subseteq Pts(r2, una, nx, total)
       /\ nx \in Nat /\ nxt <= nx /\ nx <= total
       /\ seq + n \in Pts(r2, una, nx, total)
       /\ seg.xmit = 0 => seq = nxt
  <2>1. PICK j \in 0..Len(v.slist) : SentTo(v.slist, nxt, total, j) /\ i <= j + 1
    BY <1>4, <1>20
  <2>2. PICK q : q = v.slist
    OBVIOUS
  <2>3. SegsOK(q, una, nxt, total) /\ j \in 0..Len(q) /\ SentTo(q, nxt, total, j) /\ i \in 1..Len(q) /\ i <= j + 1
    BY <1>20, <2>1, <2>2
  <2>4. r2 = Resent(q, i) /\ (q[i].xmit = 0 => nx = nxt + q[i].len)
        /\ (q[i].xmit # 0 => nx = nxt)
    BY <1>21, <1>22, <1>23, <2>2
  <2>5. /\ SegsOK(r2, una, nx, total) /\ Pts(q, una, nxt, total) \subseteq Pts(r2, una, nx, total)
        /\ nx \in Nat /\ nxt <= nx /\ nx <= total
        /\ q[i].seq + q[i].len \in Pts(r2, una, nx, total)
        /\ q[i].xmit = 0 => q[i].seq = nxt
    BY ONLY una \in Nat, nxt \in Nat, total \in Nat, <2>3, <2>4, SendSegs, SMTT(30)
  <2> QED
    BY <1>21, <2>2, <2>5
<1>25. t = [v EXCEPT !.slist = r2, !.nxt = nx, !.rto = TRUE]
  <2>1. t = Transmitted(v, i, n)
    BY <1>a, <1>2, <1>5, <1>6, <1>8, <1>9, <1>11, <1>12, <1>14, <1>16, <1>18 DEF Transmit
  <2>2. v.nxt = nxt
    BY <1>19, <1>20 DEF Frame, Fields
  <2>3. seg.xmit = 0 => Plus(v.nxt, n) = nxt + n
    <3>1. seg.xmit = 0 => nxt + n < SeqRange
      BY <1>3, <1>23, <1>24, Consts
    <3> QED
      BY <1>13, <2>2, <3>1, NoWrapping
  <2>4. v.slist[i].xmit = seg.xmit
    BY <1>21
  <2>5. t = [v EXCEPT !.slist = Resent(@, i),
                      !.nxt = IF v.slist[i].xmit = 0 THEN Plus(@, n) ELSE @, !.rto = TRUE]
    BY <2>1 DEF Transmitted, Resent
  <2> QED
    BY <1>22, <1>23, <2>2, <2>3, <2>4, <2>5
<1>26. t \in Tcb /\ t.slist = r2 /\ t.nxt = nx /\ t.rto = TRUE
  <2>1. r2 \in Seq(SegType)
    BY <1>24 DEF SegsOK
  <2> QED
    BY <1>20, <1>24, <1>25, <2>1 DEF Tcb
<1>27. Frame(v, t, {"slist", "nxt", "rto"})
  BY <1>20, <1>25 DEF Frame, Fields, Tcb
<1>28. Frame(s, t, Sent)
  BY <1>13, <1>17, <1>20, <1>27 DEF Frame, Sent
<1>29. t.una = una /\ t.sbuf = s.sbuf /\ Total(t) = total /\ t.rnxt = s.rnxt /\ t.rwnd = s.rwnd /\ t.recover = s.recover
       /\ t.rbuf = s.rbuf /\ t.stash = s.stash
  <2>1. t.una = s.una /\ t.sbuf = s.sbuf /\ t.rnxt = s.rnxt /\ t.rwnd = s.rwnd /\ t.recover = s.recover
        /\ t.rbuf = s.rbuf /\ t.stash = s.stash
    BY <1>28 DEF Frame, Fields, Sent
  <2> QED
    BY <1>1, <2>1 DEF Total
<1>30. nx > una
  BY <1>7, <1>23, <1>3, <1>13
<1>31. SndOK(t)
  <2>1. s.recover \in Nat /\ s.recover <= nx
    <3>1. s.recover \in Nat /\ s.recover <= nxt
      BY <1>0, <1>1, TcbTypes DEF SndOK
    <3> QED
      BY <1>24, <3>1
  <2>2. /\ t.una <= t.nxt /\ t.nxt <= Total(t) /\ Total(t) < SeqRange
    BY <1>3, <1>24, <1>26, <1>29, <1>30
  <2>3. Len(t.sbuf) <= SndBuf /\ \A k \in 1..Len(t.sbuf) : t.sbuf[k] = t.una + k - 1
    BY <1>0, <1>1, <1>29 DEF SndOK
  <2>4. SegsOK(t.slist, t.una, t.nxt, Total(t))
    BY <1>24, <1>26, <1>29
  <2>5. t.rto <=> t.nxt > t.una
    BY <1>26, <1>29, <1>30
  <2> QED
    BY <1>26, <1>29, <2>1, <2>2, <2>3, <2>4, <2>5 DEF SndOK
<1>32. CcOK(t)
  <2>1. t.mss = u.mss /\ t.level = u.level /\ t.cwnd = u.cwnd
    BY <1>17, <1>20, <1>27 DEF Frame, Fields
  <2> QED
    BY <1>13, <2>1 DEF CcOK
<1>33. Points(s) \subseteq Points(t) /\ seq + n \in Points(t)
  <2>1. Points(s) = Pts(l, una, nxt, total) /\ Points(w) = Points(s) /\ Points(t) = Pts(r2, una, nx, total)
    BY <1>1, <1>2, <1>19, <1>26, <1>29 DEF Points
  <2> QED
    BY <1>20, <1>24, <2>1
<1>34. s.nxt <= t.nxt /\ t.nxt <= Edge(r)
  <2>1. PICK x \in Nat : x = Edge(r)
    BY <1>0, TcbTypes
  <2>2. nxt <= x /\ (seg.xmit = 0 => nxt + len <= x)
    BY <1>1, <1>2, <1>5, <1>6, <2>1 DEF Fine, Peered
  <2>3. nx <= x
    BY <1>13, <1>23, <2>2
  <2> QED
    BY <1>1, <1>24, <1>26, <2>1, <2>3
<1>35. Half(t)
  <2>1. RcvOK(t)
    BY <1>29 DEF Fine, Half, RcvOK
  <2> QED
    BY <1>26, <1>31, <1>32, <2>1 DEF Half
<1>36. \E p \in FromTo(o, t, r) : t.out = Append(s.out, p) /\ p.data # <<>>
  <2>1. t.rnxt \in Points(r) /\ (o \/ t.rnxt >= 1)
    BY <1>29 DEF Fine, Peered
  <2>2. d # <<>>
    BY <1>13, <1>15
  <2>3. (seg.ctrl <=> seq = 0) /\ (seg.ctrl => n = 1)
    <3>1. (seg.ctrl <=> seq = 0) /\ (seg.ctrl => len = 1)
      BY <1>3, <1>5, <1>6 DEF SegsOK
    <3> QED
      BY <1>13, <3>1
  <2>4. o /\ seg.ctrl => t.rnxt = 0
    <3>1. o /\ s.rnxt >= 1 => s.una >= 1
      BY DEF Fine
    <3>2. s.rnxt \in Nat
      BY <1>0, TcbTypes
    <3> QED
      BY <1>1, <1>7, <1>29, <2>3, <3>1, <3>2
  <2>5. [seq |-> seq, ack |-> t.rnxt, ctrl |-> seg.ctrl, wnd |-> t.rwnd \div WndUnit, data |-> d]
          \in FromTo(o, t, r)
    BY <1>7, <1>15, <1>33, <1>35, <2>1, <2>2, <2>3, <2>4, PacketFine
  <2>6. t.out = w.out /\ u.out = s.out /\ u.rnxt = t.rnxt /\ u.rwnd = t.rwnd
    <3>1. t.out = w.out
      BY <1>20, <1>27 DEF Frame, Fields
    <3>2. u.out = s.out /\ u.rnxt = s.rnxt /\ u.rwnd = s.rwnd
      BY <1>13 DEF Frame, Fields
    <3> QED
      BY <1>29, <3>1, <3>2
  <2> QED
    BY <1>17, <2>2, <2>5, <2>6
<1>b. Acks(t) => Acks(s)
  <2>1. PICK p \in FromTo(o, t, r) : t.out = Append(s.out, p) /\ p.data # <<>>
    BY <1>36
  <2>2. PICK x, y : x = s.out /\ y = t.out
    OBVIOUS
  <2>3. x \in Seq(Packet) /\ y = Append(x, p) /\ Len(x) \in Nat
    BY <1>0, <2>1, <2>2, TcbTypes
  <2>4. Len(y) = Len(x) + 1 /\ (\A k \in 1..Len(x) : y[k] = x[k]) /\ y[Len(x) + 1] = p
    <3>1. p \in Packet
      BY DEF FromTo
    <3> QED
      BY ONLY <2>3, <3>1, AppendProperties
  <2>5. ASSUME NEW k \in 1..Len(y), y[k].data = <<>> PROVE k \in 1..Len(x) /\ x[k].data = <<>>
    <3>1. k = Len(x) + 1 \/ k \in 1..Len(x)
      BY <2>3, <2>4
    <3> QED
      BY <2>1, <2>4, <2>5, <3>1
  <2>6. ~ t.tack
    <3>1. ~ w.tack
      BY <1>7, <1>13, <1>15, <1>16, WrittenType
    <3> QED
      BY <1>20, <1>27, <3>1 DEF Frame, Fields
  <2> QED
    BY <2>2, <2>5, <2>6 DEF Acks
<1>37. Fine(o, t, r) /\ Grows(s, t)
  BY <1>26, <1>28, <1>31, <1>32, <1>33, <1>34, <1>36, SentFine
<1> QED
  BY <1>26, <1>28, <1>29, <1>30, <1>37, <1>b

\* SendFlags: sfNone, sfDelayedAck, sfImmediateAck.
Flags == {"none", "delayed", "immediate"}

\* attemptSend sends nothing behind the data or the window, and stops with nothing in flight
\* only when there is no data or no window.
LEMMA AvailableFacts ==
  ASSUME NEW s \in Tcb, SndOK(s), NEW a
  PROVE  a = Available(s) =>
         /\ a \in Nat /\ s.nxt + a <= Total(s)
         /\ a > 0 => s.nxt + a <= s.una + s.wnd
         /\ a = 0 /\ s.nxt = s.una /\ s.sbuf # <<>> => s.wnd = 0
<1>a. SUFFICES ASSUME a = Available(s)
      PROVE  /\ a \in Nat /\ s.nxt + a <= Total(s)
             /\ a > 0 => s.nxt + a <= s.una + s.wnd
             /\ a = 0 /\ s.nxt = s.una /\ s.sbuf # <<>> => s.wnd = 0
  OBVIOUS
<1>0. PICK una \in Nat, nxt \in Nat, len \in Nat, wnd \in Nat, mss \in Nat \ {0}, c0 \in Nat \ {0}, dups \in 0..4 :
        una = s.una /\ nxt = s.nxt /\ len = Len(s.sbuf) /\ wnd = s.wnd /\ mss = s.mss /\ c0 = s.cwnd /\ dups = s.dups
  BY TcbTypes
<1>1. una <= nxt /\ nxt <= una + len /\ una + len < SeqRange /\ Total(s) = una + len
  BY <1>0 DEF SndOK, Total
<1>2. PICK fl \in Nat : fl = nxt - una
  BY <1>1
<1>3. InFlight(s) = fl /\ fl <= len
  <2>1. nxt < SeqRange
    BY <1>1, Consts
  <2>2. Minus(nxt, una) = nxt - una
    BY <1>1, <2>1, NoWrapping
  <2> QED
    BY <1>0, <1>1, <1>2, <2>2 DEF InFlight
<1>4. Minus(Len(s.sbuf), InFlight(s)) = len - fl
  <2>1. len < SeqRange
    BY <1>1, Consts
  <2> QED
    BY <1>0, <1>3, <2>1, NoWrapping
<1>5. PICK cw : cw = s.cwnd + (IF s.dups \in {1, 2} THEN s.dups * s.mss ELSE 0)
  OBVIOUS
<1>6. cw \in Nat \ {0}
  <2>1. CASE dups = 1
    BY <1>0, <1>5, <2>1
  <2>2. CASE dups = 2
    <3>1. cw = c0 + 2 * mss
      BY <1>0, <1>5, <2>2
    <3> QED
      BY <3>1
  <2>3. CASE dups \notin {1, 2}
    BY <1>0, <1>5, <2>3
  <2> QED
    BY <2>1, <2>2, <2>3
<1>7. PICK w : w = Smaller(wnd, cw)
  OBVIOUS
<1>8. w \in Nat /\ w <= wnd /\ (w = 0 => wnd = 0)
  BY <1>6, <1>7 DEF Smaller
<1>9. PICK use : use = Larger(0, w - fl)
  OBVIOUS
<1>10. use \in Nat /\ (use > 0 => use = w - fl) /\ (fl = 0 => use = w)
  BY <1>8, <1>9 DEF Larger
<1>11. PICK av : av = Smaller(len - fl, mss)
  OBVIOUS
<1>12. av \in Nat /\ av <= len - fl /\ (len - fl > 0 => av > 0)
  BY <1>3, <1>11 DEF Smaller
<1>13. a = IF av <= use THEN av ELSE IF use * 4 < w THEN 0 ELSE use
  BY <1>a, <1>0, <1>3, <1>4, <1>5, <1>7, <1>9, <1>11 DEF Available
<1>14. a \in Nat /\ a <= len - fl /\ a <= use
  BY <1>3, <1>8, <1>10, <1>12, <1>13
<1>15. nxt + a <= una + len
  BY <1>1, <1>2, <1>14
<1>16. a > 0 => nxt + a <= una + wnd
  BY <1>1, <1>2, <1>8, <1>10, <1>14
<1>17. a = 0 /\ nxt = una /\ s.sbuf # <<>> => wnd = 0
  <2> SUFFICES ASSUME a = 0, nxt = una, s.sbuf # <<>> PROVE wnd = 0
    OBVIOUS
  <2>1. len > 0
    BY <1>0, EmptySeq, TcbTypes
  <2>2. fl = 0 /\ av > 0 /\ use = w
    BY <1>2, <1>10, <1>12, <2>1
  <2>3. ~ (w * 4 < w)
    BY <1>8
  <2>4. a = IF av <= w THEN av ELSE w
    BY <1>13, <2>2, <2>3
  <2>5. w = 0
    BY <1>8, <1>12, <2>2, <2>4
  <2> QED
    BY <1>8, <2>5
<1> QED
  BY <1>0, <1>1, <1>14, <1>15, <1>16, <1>17

\* A bare acknowledgement leaves the ends in agreement.
LEMMA AckFine ==
  ASSUME NEW o \in BOOLEAN, NEW s, NEW r, Fine(o, s, r), o \/ s.rnxt >= 1,
         NEW seq \in Nat, seq <= s.nxt, NEW t
  PROVE  t = Written(s, seq, FALSE, <<>>) =>
         Fine(o, t, r) /\ Grows(s, t) /\ Frame(s, t, {"out", "tack", "lastack"}) /\ ~ t.tack
<1>a. SUFFICES ASSUME t = Written(s, seq, FALSE, <<>>)
      PROVE  Fine(o, t, r) /\ Grows(s, t) /\ Frame(s, t, {"out", "tack", "lastack"}) /\ ~ t.tack
  OBVIOUS
<1>0. s \in Tcb /\ r \in Tcb /\ SndOK(s) /\ CcOK(s) /\ s.nxt <= Edge(r)
  BY DEF Fine, Half, Peered
<1>1. PICK d : d = <<>>
  OBVIOUS
<1>2. d \in Seq(Nat) /\ Len(d) = 0
  BY <1>1
<1>3. /\ t \in Tcb /\ Frame(s, t, {"out", "tack", "lastack"}) /\ ~ t.tack
      /\ t.out = Append(s.out, [seq |-> seq, ack |-> s.rnxt, ctrl |-> FALSE,
                                wnd |-> s.rwnd \div WndUnit, data |-> d])
  BY <1>a, <1>0, <1>1, <1>2, WrittenType
<1>4. /\ t.slist = s.slist /\ t.sbuf = s.sbuf /\ t.una = s.una /\ t.nxt = s.nxt /\ t.rto = s.rto
      /\ t.recover = s.recover /\ t.cwnd = s.cwnd /\ t.mss = s.mss /\ t.level = s.level
      /\ t.rnxt = s.rnxt /\ t.rwnd = s.rwnd /\ t.rbuf = s.rbuf /\ t.stash = s.stash
  BY <1>3 DEF Frame, Fields
<1>5. Total(t) = Total(s) /\ Points(t) = Points(s)
  BY <1>4 DEF Total, Points
<1>6. SndOK(t) /\ CcOK(t) /\ RcvOK(t)
  BY <1>4, <1>5 DEF Fine, Half, SndOK, CcOK, RcvOK
<1>7. \E p \in FromTo(o, t, r) : t.out = Append(s.out, p)
  <2>1. Half(t) /\ t.rnxt \in Points(r) /\ (o \/ t.rnxt >= 1) /\ seq <= t.nxt
    BY <1>3, <1>4, <1>6 DEF Fine, Peered, Half
  <2>2. [seq |-> seq, ack |-> t.rnxt, ctrl |-> FALSE, wnd |-> t.rwnd \div WndUnit, data |-> d]
          \in FromTo(o, t, r)
    <3>1. \A i \in 1..Len(d) : d[i] = seq + i - 1
      BY <1>2
    <3>2. PICK c \in BOOLEAN : c = FALSE
      OBVIOUS
    <3>3. [seq |-> seq, ack |-> t.rnxt, ctrl |-> c, wnd |-> t.rwnd \div WndUnit, data |-> d]
            \in FromTo(o, t, r)
      BY ONLY o \in BOOLEAN, seq \in Nat, c \in BOOLEAN, <1>1, <1>2, <2>1, <3>1, <3>2, PacketFine
    <3> QED
      BY <3>2, <3>3
  <2> QED
    BY <1>3, <1>4, <2>2
<1>8. Frame(s, t, Sent)
  BY <1>3 DEF Frame, Sent
<1>9. s.nxt <= t.nxt /\ t.nxt <= Edge(r)
  BY <1>0, <1>4, TcbTypes
<1> QED
  BY <1>3, <1>5, <1>6, <1>7, <1>8, <1>9, SentFine

\* So does a pass of attemptSend's loop, after which something is in flight.
LEMMA SendNextFine ==
  ASSUME NEW o \in BOOLEAN, NEW s, NEW r, Fine(o, s, r), o \/ s.rnxt >= 1, NEW t
  PROVE  t = SendNext(s) =>
         /\ Fine(o, t, r) /\ Grows(s, t) /\ Frame(s, t, Sent)
         /\ Available(s) # 0 /\ ~ HoldsBack(s) => t.nxt > t.una
         /\ Acks(t) => Acks(s)
<1>a. SUFFICES ASSUME t = SendNext(s)
      PROVE  /\ Fine(o, t, r) /\ Grows(s, t) /\ Frame(s, t, Sent)
             /\ Available(s) # 0 /\ ~ HoldsBack(s) => t.nxt > t.una
             /\ Acks(t) => Acks(s)
  OBVIOUS
<1>0. s \in Tcb /\ SndOK(s) /\ CcOK(s) /\ RcvOK(s) /\ r \in Tcb
  BY DEF Fine, Half
<1>1. PICK a : a = Available(s)
  OBVIOUS
<1>2. /\ a \in Nat /\ s.nxt + a <= Total(s)
      /\ a > 0 => s.nxt + a <= s.una + s.wnd
  BY <1>0, <1>1, AvailableFacts
<1>3. CASE a = 0 \/ HoldsBack(s)
  <2>1. t = s
    BY <1>a, <1>1, <1>3 DEF SendNext
  <2> QED
    BY <1>0, <1>1, <1>3, <2>1, GrowsRefl DEF Frame
<1>4. CASE ~ (a = 0 \/ HoldsBack(s))
  <2>1. PICK i : i = CHOOSE k \in 1..Len(s.slist) :
                       s.slist[k].xmit = 0 /\ \A j \in 1..k - 1 : s.slist[j].xmit > 0
    OBVIOUS
  <2>2. PICK una \in Nat, nxt \in Nat, total \in Nat : una = s.una /\ nxt = s.nxt /\ total = Total(s)
    BY <1>0, TcbTypes
  <2>3. PICK l : l = s.slist
    OBVIOUS
  <2>4. SegsOK(l, una, nxt, total) /\ Len(l) \in Nat /\ nxt < total /\ a \in Nat \ {0}
    BY <1>0, <1>2, <1>4, <2>2, <2>3, TcbTypes DEF SndOK
  <2>5. PICK m \in 0..Len(l) : SentTo(l, nxt, total, m)
    BY <2>4 DEF SegsOK
  <2>6. m + 1 \in 1..Len(l)
    <3>1. m # Len(l)
      BY <2>4, <2>5 DEF SentTo, At
    <3> QED
      BY <2>4, <3>1
  <2>7. \A k \in 1..Len(l) : l[k].xmit \in Nat
    BY <2>4, SegBounds
  <2>8. \A k \in 1..Len(l) : l[k].xmit > 0 <=> k <= m
    BY <2>5 DEF SentTo
  <2>9. l[m + 1].xmit = 0 /\ \A j \in 1..(m + 1) - 1 : l[j].xmit > 0
    <3>1. PICK k \in 1..Len(l) : k = m + 1
      BY <2>6
    <3>2. l[k].xmit = 0
      BY <2>7, <2>8, <3>1
    <3>3. \A j \in 1..(m + 1) - 1 : j \in 1..Len(l) /\ j <= m
      BY <2>4
    <3> QED
      BY <2>8, <3>1, <3>2, <3>3
  <2>10. i \in 1..Len(l) /\ l[i].xmit = 0
    BY <2>1, <2>3, <2>6, <2>9
  <2>11. i <= m + 1
    <3> SUFFICES ASSUME i > m + 1 PROVE FALSE
      BY <2>10
    <3>1. \A j \in 1..i - 1 : l[j].xmit > 0
      BY <2>1, <2>3, <2>6, <2>9
    <3>2. m + 1 \in 1..i - 1
      BY <2>10
    <3> QED
      BY <2>9, <3>1, <3>2
  <2>12. PICK u : u = Split(s, i, a)
    OBVIOUS
  <2>13. /\ u \in Tcb /\ Frame(s, u, {"slist"})
         /\ SegsOK(u.slist, una, nxt, total)
         /\ Points(s) \subseteq Pts(u.slist, una, nxt, total)
         /\ i \in 1..Len(u.slist)
         /\ u.slist[i] = [l[i] EXCEPT !.len = Smaller(a, l[i].len)]
         /\ \E k \in 0..Len(u.slist) : SentTo(u.slist, nxt, total, k) /\ i <= k + 1
    <3>1. SegsOK(s.slist, s.una, s.nxt, Total(s)) /\ Total(s) < SeqRange /\ i \in 1..Len(s.slist)
      BY <1>0, <2>3, <2>10 DEF SndOK
    <3>2. /\ u \in Tcb /\ Frame(s, u, {"slist"})
          /\ SegsOK(u.slist, s.una, s.nxt, Total(s))
          /\ Points(s) \subseteq Pts(u.slist, s.una, s.nxt, Total(s))
          /\ i \in 1..Len(u.slist)
          /\ u.slist[i] = [s.slist[i] EXCEPT !.len = Smaller(a, s.slist[i].len)]
          /\ \A j \in 0..Len(s.slist) : SentTo(s.slist, s.nxt, Total(s), j) /\ i <= j + 1 =>
               \E k \in 0..Len(u.slist) : SentTo(u.slist, s.nxt, Total(s), k) /\ i <= k + 1
      <4>1. s \in Tcb /\ a \in Nat \ {0}
        BY <1>0, <2>4
      <4> QED
        <5>1. SplitFine(s, u, i, a)
          BY ONLY <4>1, <2>12, <3>1, SplitOK
        <5> QED
          BY ONLY <5>1 DEF SplitFine
    <3> QED
      BY <2>2, <2>3, <2>5, <2>11, <3>2
  <2>14. u.slist[i].len \in Nat /\ u.slist[i].len <= a
    <3>1. l[i] \in SegType /\ l[i].len \in Nat \ {0}
      BY <2>4, <2>10, SegBounds
    <3>2. PICK n : n = Smaller(a, l[i].len)
      OBVIOUS
    <3>3. n \in Nat /\ n <= a
      BY <2>4, <3>1, <3>2 DEF Smaller
    <3>4. [l[i] EXCEPT !.len = n].len = n
      BY <3>1 DEF SegType
    <3> QED
      BY <2>13, <3>2, <3>3, <3>4
  <2>15. /\ u.una = una /\ u.nxt = nxt /\ u.sbuf = s.sbuf /\ Total(u) = total /\ u.rto = s.rto
         /\ u.recover = s.recover /\ u.cwnd = s.cwnd /\ u.mss = s.mss /\ u.level = s.level /\ u.out = s.out
         /\ u.rnxt = s.rnxt
    <3>1. /\ u.una = s.una /\ u.nxt = s.nxt /\ u.sbuf = s.sbuf /\ u.rto = s.rto
          /\ u.recover = s.recover /\ u.cwnd = s.cwnd /\ u.mss = s.mss /\ u.level = s.level /\ u.out = s.out
          /\ u.rnxt = s.rnxt
      BY <2>13 DEF Frame, Fields
    <3> QED
      BY <2>2, <3>1 DEF Total
  <2>16. Fine(o, u, r) /\ Grows(s, u)
    <3>1. SndOK(u) /\ CcOK(u)
      BY <1>0, <2>2, <2>13, <2>15 DEF SndOK, CcOK
    <3>2. Points(s) \subseteq Points(u)
      BY <2>13, <2>15 DEF Points
    <3>3. s.nxt <= u.nxt /\ u.nxt <= Edge(r)
      BY <2>2, <2>15 DEF Fine, Peered
    <3>4. Frame(s, u, Sent)
      BY <2>13 DEF Frame, Sent
    <3> QED
      BY <2>13, <2>15, <3>1, <3>2, <3>3, <3>4, SentFine
  <2>17. Ready(u, i)
    BY <2>13, <2>15 DEF Ready
  <2>18. u.nxt + u.slist[i].len <= Edge(r)
    <3>1. PICK e \in Nat, w \in Nat, n \in Nat : e = Edge(r) /\ w = s.wnd /\ n = u.slist[i].len
      BY <1>0, <2>14, TcbTypes
    <3>2. una + w <= e
      BY <2>2, <3>1 DEF Fine, Peered
    <3>3. nxt + a <= una + w /\ n <= a
      BY <1>2, <2>2, <2>4, <2>14, <3>1
    <3>4. nxt + n <= e
      BY <2>4, <3>2, <3>3
    <3> QED
      BY <2>15, <3>1, <3>4
  <2>19. t = Transmit(u, i)
    BY <1>a, <1>1, <1>4, <2>1, <2>12 DEF SendNext
  <2>20. Fine(o, t, r) /\ Grows(u, t) /\ Frame(u, t, Sent) /\ t.nxt > t.una
        /\ (Acks(t) => Acks(u))
    BY <2>15, <2>16, <2>17, <2>18, <2>19, TransmitFine
  <2>21. Frame(s, t, Sent)
    BY <2>13, <2>20 DEF Frame, Sent
  <2>22. Grows(s, t)
    <3>1. t \in Tcb
      BY <2>20 DEF Fine, Half
    <3> QED
      BY <1>0, <2>13, <2>16, <2>20, <3>1, GrowsTrans
  <2>23. Acks(u) => Acks(s)
    <3>1. u.tack = s.tack
      BY <2>13 DEF Frame, Fields
    <3> QED
      BY <2>15, <3>1 DEF Acks
  <2> QED
    BY <2>20, <2>21, <2>22, <2>23
<1> QED
  BY <1>3, <1>4

\* The loop of attemptSend, pass by pass.
LEMMA SendPassesDef ==
  ASSUME NEW s, Len(s.sbuf) \in Nat
  PROVE  SendPasses(s) = [k \in 0..Len(s.sbuf) |-> IF k = 0 THEN s ELSE SendNext(SendPasses(s)[k - 1])]
<1> DEFINE Is(g, m) == g = [k \in 0..m |-> IF k = 0 THEN s ELSE SendNext(g[k - 1])]
           T == {m \in Nat : ~ \E g : Is(g, m)}
<1>1. T = {}
  <2> SUFFICES ASSUME T # {} PROVE FALSE
    OBVIOUS
  <2>1. PICK m \in T : \A y \in T : m <= y
    BY Least
  <2>2. CASE m = 0
    <3> DEFINE g == [k \in 0..0 |-> s]
    <3>1. Is(g, 0)
      OBVIOUS
    <3> QED
      BY <2>1, <2>2, <3>1
  <2>3. CASE m # 0
    <3>1. m - 1 \in Nat /\ ~ (m <= m - 1)
      BY <2>1, <2>3
    <3>2. PICK h : Is(h, m - 1)
      BY <2>1, <3>1
    <3> DEFINE g == [k \in 0..m |-> IF k = m THEN SendNext(h[m - 1]) ELSE h[k]]
    <3>3. \A k \in 0..m - 1 : g[k] = h[k]
      BY <2>1
    <3>4. g[m] = SendNext(h[m - 1])
      BY <2>1
    <3>5. \A k \in 0..m : g[k] = IF k = 0 THEN s ELSE SendNext(g[k - 1])
      BY <2>1, <2>3, <3>2, <3>3, <3>4
    <3>6. Is(g, m)
      BY <3>5
    <3> QED
      BY <2>1, <3>6
  <2> QED
    BY <2>2, <2>3
<1>2. \E g : Is(g, Len(s.sbuf))
  BY <1>1
<1> QED
  BY <1>2 DEF SendPasses

\* All its passes, of which there are no more than units of data.
LEMMA SendPassesFine ==
  ASSUME NEW o \in BOOLEAN, NEW s, NEW r, Fine(o, s, r), o \/ s.rnxt >= 1,
         Available(s) # 0, ~ HoldsBack(s), NEW t
  PROVE  t = SendPasses(s)[Len(s.sbuf)] =>
         Fine(o, t, r) /\ Grows(s, t) /\ Frame(s, t, Sent) /\ t.nxt > t.una /\ (Acks(t) => Acks(s))
<1>a. SUFFICES ASSUME t = SendPasses(s)[Len(s.sbuf)]
      PROVE  Fine(o, t, r) /\ Grows(s, t) /\ Frame(s, t, Sent) /\ t.nxt > t.una /\ (Acks(t) => Acks(s))
  OBVIOUS
<1>0. s \in Tcb /\ r \in Tcb /\ SndOK(s)
  BY DEF Fine, Half
<1>1. PICK n \in Nat : n = Len(s.sbuf)
  BY <1>0, TcbTypes
<1>2. n # 0
  <2>1. PICK a : a = Available(s)
    OBVIOUS
  <2>2. a \in Nat /\ s.nxt + a <= Total(s)
    BY <1>0, <2>1, AvailableFacts
  <2>3. PICK una \in Nat, nxt \in Nat : una = s.una /\ nxt = s.nxt
    BY <1>0, TcbTypes
  <2>4. una <= nxt /\ nxt + a <= una + n
    BY <1>0, <1>1, <2>2, <2>3 DEF SndOK, Total
  <2> QED
    BY <2>1, <2>2, <2>4
<1>3. PICK pass : pass = SendPasses(s)
  OBVIOUS
<1>4. pass = [k \in 0..n |-> IF k = 0 THEN s ELSE SendNext(pass[k - 1])]
  BY <1>0, <1>1, <1>3, SendPassesDef, TcbTypes
<1> DEFINE Good(u) == /\ Fine(o, u, r) /\ Grows(s, u) /\ Frame(s, u, Sent) /\ (Acks(u) => Acks(s))
           T == {k \in 1..n : ~ (Good(pass[k]) /\ pass[k].nxt > pass[k].una)}
<1>5. ASSUME NEW u, Good(u), NEW v, v = SendNext(u)
      PROVE  /\ Good(v) /\ Grows(u, v)
             /\ Available(u) # 0 /\ ~ HoldsBack(u) => v.nxt > v.una
  <2>1. u.rnxt = s.rnxt
    BY <1>5 DEF Frame, Fields, Sent
  <2>2. /\ Fine(o, v, r) /\ Grows(u, v) /\ Frame(u, v, Sent)
        /\ Available(u) # 0 /\ ~ HoldsBack(u) => v.nxt > v.una
        /\ Acks(v) => Acks(u)
    BY <1>5, <2>1, SendNextFine
  <2>3. Frame(s, v, Sent)
    BY <1>5, <2>2 DEF Frame
  <2>4. Grows(s, v)
    <3>1. u \in Tcb /\ v \in Tcb
      BY <1>5, <2>2 DEF Fine, Half
    <3> QED
      BY <1>0, <1>5, <2>2, <3>1, GrowsTrans
  <2> QED
    BY <1>5, <2>2, <2>3, <2>4
<1>6. Good(s)
  BY <1>0, GrowsRefl DEF Frame
<1>7. T = {}
  <2> SUFFICES ASSUME T # {} PROVE FALSE
    OBVIOUS
  <2>0. T \subseteq Nat
    OBVIOUS
  <2>1. PICK k \in T : \A y \in T : k <= y
    BY <2>0, Least
  <2>2. k \in 1..n /\ ~ (Good(pass[k]) /\ pass[k].nxt > pass[k].una)
    BY <2>1
  <2>3. pass[k] = SendNext(pass[k - 1])
    BY <1>4, <2>2
  <2> HIDE DEF Good
  <2>4. CASE k = 1
    <3>1. pass[1 - 1] = s
      BY <1>4
    <3> QED
      BY <1>5, <1>6, <2>2, <2>3, <2>4, <3>1
  <2>5. CASE k # 1
    <3>1. k - 1 \in 1..n /\ ~ (k <= k - 1)
      BY <2>2, <2>5
    <3>2. k - 1 \notin T
      BY <2>1, <3>1
    <3>3. Good(pass[k - 1]) /\ pass[k - 1].nxt > pass[k - 1].una
      BY <3>1, <3>2
    <3>4. PICK u, v : u = pass[k - 1] /\ v = pass[k]
      OBVIOUS
    <3>5. Good(v) /\ Grows(u, v)
      BY <1>5, <2>3, <3>3, <3>4
    <3>6. u.una = s.una /\ v.una = s.una
      BY <3>3, <3>4, <3>5 DEF Good, Frame, Fields, Sent
    <3>7. u.nxt <= v.nxt /\ u.nxt > u.una
      BY <3>3, <3>4, <3>5 DEF Grows
    <3>8. u.nxt \in Nat /\ v.nxt \in Nat /\ u.una \in Nat
      <4>1. u \in Tcb /\ v \in Tcb
        BY <3>3, <3>4, <3>5 DEF Good, Fine, Half
      <4> QED
        BY <4>1, TcbTypes
    <3> QED
      BY <2>2, <3>4, <3>5, <3>6, <3>7, <3>8
  <2> QED
    BY <2>4, <2>5
<1>8. n \in 1..n
  BY <1>2
<1> QED
  BY <1>a, <1>1, <1>3, <1>7, <1>8

\* attemptSend leaves the ends in agreement, and data unsent with nothing in flight only when
\* the peer has closed its window.
LEMMA AttemptSendFine ==
  ASSUME NEW o \in BOOLEAN, NEW s, NEW r, Fine(o, s, r), o \/ s.rnxt >= 1,
         NEW flag \in Flags, NEW idle \in BOOLEAN, NEW t
  PROVE  t = AttemptSend(s, flag, idle) =>
         /\ Fine(o, t, r) /\ Grows(s, t) /\ Frame(s, t, Sent)
         /\ t.una = t.nxt /\ t.sbuf # <<>> => t.wnd = 0
         /\ flag = "none" /\ Acks(t) => Acks(s)
<1>a. SUFFICES ASSUME t = AttemptSend(s, flag, idle)
      PROVE  /\ Fine(o, t, r) /\ Grows(s, t) /\ Frame(s, t, Sent)
             /\ t.una = t.nxt /\ t.sbuf # <<>> => t.wnd = 0
             /\ flag = "none" /\ Acks(t) => Acks(s)
  OBVIOUS
<1>0. s \in Tcb /\ r \in Tcb /\ SndOK(s) /\ CcOK(s)
  BY DEF Fine, Half
<1>1. PICK u : u = IF idle THEN WithCwnd(s, s.mss) ELSE s
  OBVIOUS
<1>2. u \in Tcb /\ Fine(o, u, r) /\ Grows(s, u) /\ Frame(s, u, {"cwnd"})
  <2>1. CASE idle
    <3>1. u = WithCwnd(s, s.mss)
      BY <1>1, <2>1
    <3>2. u \in Tcb /\ Frame(s, u, {"cwnd"}) /\ u.cwnd <= MaxCwnd
      BY <1>0, <3>1, WithCwndOK, TcbTypes
    <3>3. Frame(s, u, Soft)
      BY <3>2 DEF Frame, Soft
    <3>4. u.mss = s.mss /\ u.level = s.level /\ u.recover = s.recover /\ u.nxt = s.nxt
      BY <3>2 DEF Frame, Fields
    <3>5. CcOK(u) /\ u.recover <= u.nxt
      BY <1>0, <3>2, <3>4 DEF CcOK, SndOK
    <3> QED
      BY <3>2, <3>3, <3>5, SoftFine
  <2>2. CASE ~ idle
    <3>1. u = s
      BY <1>1, <2>2
    <3> QED
      BY <1>0, <3>1, GrowsRefl DEF Frame
  <2> QED
    BY <2>1, <2>2
<1>3. u.rnxt = s.rnxt /\ SndOK(u) /\ CcOK(u)
  BY <1>2 DEF Frame, Fields, Fine, Half
<1>4. t = SendAvailable(u, flag)
  BY <1>a, <1>1 DEF AttemptSend
<1>5. SUFFICES /\ Fine(o, t, r) /\ Grows(u, t) /\ Frame(u, t, Sent)
               /\ t.una = t.nxt /\ t.sbuf # <<>> => t.wnd = 0
               /\ flag = "none" /\ Acks(t) => Acks(u)
  <2>1. ASSUME Fine(o, t, r), Grows(u, t) PROVE Grows(s, t)
    <3>1. t \in Tcb
      BY <2>1 DEF Fine, Half
    <3> QED
      BY <1>0, <1>2, <2>1, <3>1, GrowsTrans
  <2>2. ASSUME Frame(u, t, Sent) PROVE Frame(s, t, Sent)
    BY <1>2, <2>2 DEF Frame, Sent
  <2>3. Acks(u) => Acks(s)
    <3>1. u.out = s.out /\ u.tack = s.tack
      BY <1>2 DEF Frame, Fields
    <3> QED
      BY <3>1 DEF Acks
  <2> QED
    BY <2>1, <2>2, <2>3
<1>6. PICK a : a = Available(u)
  OBVIOUS
<1>7. a \in Nat /\ (a = 0 /\ u.nxt = u.una /\ u.sbuf # <<>> => u.wnd = 0)
  BY <1>2, <1>3, <1>6, AvailableFacts
<1>8. CASE a = 0
  <2>1. t = SendAck(u, flag)
    BY <1>4, <1>6, <1>8 DEF SendAvailable
  <2>2. /\ Fine(o, t, r) /\ Grows(u, t) /\ Frame(u, t, {"out", "tack", "lastack"})
        /\ flag = "none" => t = u
    <3>1. CASE flag = "none"
      <4>1. t = u
        BY <2>1, <3>1 DEF SendAck
      <4> QED
        BY <1>2, <4>1, GrowsRefl DEF Frame
    <3>2. CASE flag = "immediate" \/ (flag = "delayed" /\ u.tack)
      <4>1. t = Written(u, u.nxt, FALSE, <<>>)
        BY <2>1, <3>2 DEF SendAck, Ack
      <4>2. u.nxt \in Nat /\ u.nxt <= u.nxt
        BY <1>2, TcbTypes
      <4> QED
        BY <1>2, <1>3, <3>2, <4>1, <4>2, AckFine
    <3>3. CASE flag = "delayed" /\ ~ u.tack
      <4>1. t = [u EXCEPT !.tack = TRUE]
        BY <2>1, <3>3 DEF SendAck
      <4>2. t \in Tcb
        BY <1>2, <4>1 DEF Tcb
      <4>3. Frame(u, t, {"tack"})
        BY <1>2, <4>1 DEF Frame, Fields, Tcb
      <4>4. Frame(u, t, Soft) /\ Frame(u, t, {"out", "tack", "lastack"})
        BY <4>3 DEF Frame, Soft
      <4>5. t.mss = u.mss /\ t.level = u.level /\ t.recover = u.recover /\ t.nxt = u.nxt /\ t.cwnd = u.cwnd
        BY <4>3 DEF Frame, Fields
      <4>6. CcOK(t) /\ t.recover <= t.nxt
        BY <1>3, <4>5 DEF CcOK, SndOK
      <4> QED
        BY <1>2, <3>3, <4>2, <4>4, <4>6, SoftFine
    <3> QED
      BY <3>1, <3>2, <3>3 DEF Flags
  <2>3. t.una = u.una /\ t.nxt = u.nxt /\ t.sbuf = u.sbuf /\ t.wnd = u.wnd
    BY <2>2 DEF Frame, Fields
  <2>4. Frame(u, t, Sent)
    BY <2>2 DEF Frame, Sent
  <2> QED
    BY <1>7, <1>8, <2>2, <2>3, <2>4
<1>9. CASE a # 0 /\ HoldsBack(u)
  <2>1. t = u
    BY <1>4, <1>6, <1>7, <1>9 DEF SendAvailable
  <2>2. u.nxt > u.una
    BY <1>9 DEF HoldsBack
  <2>3. u.nxt \in Nat /\ u.una \in Nat
    BY <1>2, TcbTypes
  <2> QED
    BY <1>2, <2>1, <2>2, <2>3, GrowsRefl DEF Frame
<1>10. CASE a # 0 /\ ~ HoldsBack(u)
  <2>1. t = SendPasses(u)[Len(u.sbuf)]
    BY <1>4, <1>6, <1>7, <1>10 DEF SendAvailable
  <2>2. Fine(o, t, r) /\ Grows(u, t) /\ Frame(u, t, Sent) /\ t.nxt > t.una /\ (Acks(t) => Acks(u))
    BY <1>2, <1>3, <1>6, <1>10, <2>1, SendPassesFine
  <2>3. t.nxt \in Nat /\ t.una \in Nat
    BY <2>2, TcbTypes DEF Fine, Half
  <2> QED
    BY <2>2, <2>3
<1> QED
  BY <1>8, <1>9, <1>10

\* Data behind what m_sbuf has.
LEMMA QueueFine ==
  ASSUME NEW o \in BOOLEAN, NEW s, NEW r, Fine(o, s, r),
         NEW data \in Seq(Nat), Len(data) > 0, \A i \in 1..Len(data) : data[i] = Total(s) + i - 1,
         Len(s.sbuf) + Len(data) <= SndBuf, Total(s) + Len(data) < SeqRange,
         NEW ctrl \in BOOLEAN, ctrl => Total(s) = 0 /\ Len(data) = 1, ~ ctrl => Total(s) > 0, NEW t
  PROVE  t = Queue(s, data, ctrl) =>
         /\ Fine(o, t, r) /\ Grows(s, t) /\ Frame(s, t, {"slist", "sbuf"})
         /\ Total(t) = Total(s) + Len(data) /\ Len(t.sbuf) = Len(s.sbuf) + Len(data)
<1>a. SUFFICES ASSUME t = Queue(s, data, ctrl)
      PROVE  /\ Fine(o, t, r) /\ Grows(s, t) /\ Frame(s, t, {"slist", "sbuf"})
             /\ Total(t) = Total(s) + Len(data) /\ Len(t.sbuf) = Len(s.sbuf) + Len(data)
  OBVIOUS
<1>0. s \in Tcb /\ r \in Tcb /\ SndOK(s) /\ CcOK(s) /\ RcvOK(s)
  BY DEF Fine, Half
<1>1. PICK una \in Nat, nxt \in Nat, total \in Nat, len \in Nat :
        una = s.una /\ nxt = s.nxt /\ total = Total(s) /\ len = Len(s.sbuf)
  BY <1>0, TcbTypes
<1>2. PICK n \in Nat \ {0} : n = Len(data)
  BY LenProperties
<1>3. PICK l : l = s.slist
  OBVIOUS
<1>4. /\ SegsOK(l, una, nxt, total) /\ total < SeqRange /\ total = una + len /\ una <= nxt /\ nxt <= total
      /\ Len(l) \in Nat
  BY <1>0, <1>1, <1>3, TcbTypes DEF SndOK, Total
<1>5. PICK b : b = s.sbuf \o data
  OBVIOUS
<1>6. b \in Seq(Nat) /\ Len(b) = len + n /\ \A i \in 1..Len(b) : b[i] = una + i - 1
  <2>1. s.sbuf \in Seq(Nat)
    BY <1>0, TcbTypes
  <2>2. /\ b \in Seq(Nat) /\ Len(b) = len + n
        /\ \A i \in 1..len + n : b[i] = IF i <= len THEN s.sbuf[i] ELSE data[i - len]
    BY <1>1, <1>2, <1>5, <2>1, ConcatProperties
  <2>3. ASSUME NEW i \in 1..len + n PROVE b[i] = una + i - 1
    <3>1. CASE i <= len
      <4>1. i \in 1..Len(s.sbuf)
        BY <1>1, <3>1
      <4> QED
        BY <1>0, <1>1, <2>2, <3>1, <4>1 DEF SndOK
    <3>2. CASE ~ (i <= len)
      <4>1. PICK j \in 1..n : j = i - len
        BY <3>2
      <4>2. b[i] = data[j]
        BY <2>2, <3>2, <4>1
      <4>3. data[j] = total + j - 1
        BY <1>1, <1>2
      <4> QED
        BY <1>4, <4>1, <4>2, <4>3
    <3> QED
      BY <3>1, <3>2
  <2> QED
    BY <2>2, <2>3
<1> DEFINE joins == Len(l) > 0 /\ l[Len(l)].ctrl = ctrl /\ l[Len(l)].xmit = 0
<1>8. PICK q : q = IF joins THEN Longer(l, n) ELSE Further(l, total, n, ctrl)
  OBVIOUS
<1>9. SegsOK(q, una, nxt, total + n) /\ Pts(l, una, nxt, total) \subseteq Pts(q, una, nxt, total + n)
  <2>1. CASE joins
    <3>1. q = Longer(l, n)
      BY <1>8, <2>1
    <3>2. Len(l) > 0 /\ l[Len(l)].ctrl = ctrl /\ l[Len(l)].xmit = 0
      BY <2>1
    <3>3. ~ ctrl
      <4>1. PICK z \in 1..Len(l) : z = Len(l)
        BY <1>4, <3>2
      <4>2. PICK x \in Nat, y \in Nat \ {0} : x = l[z].seq /\ y = l[z].len
        BY <1>4, SegBounds
      <4>3. x + y <= total
        BY <1>4, <4>2, SegBounds
      <4> QED
        BY <1>1, <4>3
    <3> QED
      BY <1>4, <3>1, <3>2, <3>3, JoinSegs
  <2>2. CASE ~ joins
    <3>1. q = Further(l, total, n, ctrl)
      BY <1>8, <2>2
    <3>2. (ctrl <=> total = 0) /\ (ctrl => n = 1)
      BY <1>1, <1>2, <1>4, SMTT(30)
    <3>3. CASE ctrl
      <4>1. TRUE \in BOOLEAN /\ q = Further(l, total, n, TRUE) /\ total = 0 /\ n = 1
        BY <3>1, <3>2, <3>3
      <4> QED
        BY ONLY una \in Nat, nxt \in Nat, total \in Nat, n \in Nat \ {0}, <1>4, <4>1, AppendSegs
    <3>4. CASE ~ ctrl
      <4>1. FALSE \in BOOLEAN /\ q = Further(l, total, n, FALSE) /\ total # 0
        BY <3>1, <3>2, <3>4
      <4> QED
        BY ONLY una \in Nat, nxt \in Nat, total \in Nat, n \in Nat \ {0}, <1>4, <4>1, AppendSegs
    <3> QED
      BY <3>3, <3>4
  <2> QED
    BY <2>1, <2>2
<1>10. t = [s EXCEPT !.sbuf = b, !.slist = q]
  <2>1. Plus(s.una, Len(s.sbuf)) = total
    BY <1>1, <1>4, NoWrapping
  <2> QED
    <3>1. CASE joins
      <4>1. t = [s EXCEPT !.sbuf = s.sbuf \o data, !.slist = Longer(l, Len(data))]
        BY <1>a, <1>3, <3>1 DEF Queue
      <4> QED
        BY <1>2, <1>5, <1>8, <3>1, <4>1
    <3>2. CASE ~ joins
      <4>1. t = [s EXCEPT !.sbuf = s.sbuf \o data,
                          !.slist = Append(l, Segment(Plus(s.una, Len(s.sbuf)), Len(data), ctrl, 0))]
        BY <1>a, <1>3, <3>2 DEF Queue
      <4> QED
        BY <1>1, <1>2, <1>5, <1>8, <2>1, <3>2, <4>1 DEF Further
    <3> QED
      BY <3>1, <3>2
<1>11. t \in Tcb /\ t.sbuf = b /\ t.slist = q
  <2>1. q \in Seq(SegType)
    BY <1>9 DEF SegsOK
  <2> QED
    BY <1>0, <1>6, <1>10, <2>1 DEF Tcb
<1>12. Frame(s, t, {"slist", "sbuf"})
  BY <1>0, <1>10 DEF Frame, Fields, Tcb
<1>13. /\ t.una = una /\ t.nxt = nxt /\ t.wnd = s.wnd /\ t.rnxt = s.rnxt /\ t.rwnd = s.rwnd
       /\ t.rlist = s.rlist /\ t.rbuf = s.rbuf /\ t.stash = s.stash /\ t.rto = s.rto
       /\ t.recover = s.recover /\ t.cwnd = s.cwnd /\ t.mss = s.mss /\ t.level = s.level /\ t.out = s.out
  BY <1>1, <1>12 DEF Frame, Fields
<1>14. Total(t) = total + n /\ Edge(t) = Edge(s)
  <2>1. una + (len + n) = (una + len) + n
    OBVIOUS
  <2>2. Total(t) = una + (len + n)
    BY <1>6, <1>11, <1>13 DEF Total
  <2> QED
    BY <1>4, <1>13, <2>1, <2>2 DEF Edge
<1>15. Points(s) \subseteq Points(t)
  BY <1>1, <1>3, <1>9, <1>11, <1>13, <1>14 DEF Points
<1>16. Grows(s, t)
  <2>1. s.rnxt \in Nat /\ Edge(s) \in Nat
    BY <1>0, TcbTypes
  <2>2. s.rnxt <= t.rnxt /\ Edge(s) <= Edge(t) /\ s.una <= t.una /\ s.nxt <= t.nxt
    <3>1. t.rnxt = s.rnxt /\ Edge(t) = Edge(s) /\ t.una = s.una /\ t.nxt = s.nxt
      BY <1>1, <1>13, <1>14
    <3>2. s.una \in Nat /\ s.nxt \in Nat
      BY <1>1
    <3> QED
      BY ONLY <2>1, <3>1, <3>2
  <2> QED
    BY <1>15, <2>2 DEF Grows
<1>17. Half(t)
  <2>1. t.una <= t.nxt /\ t.nxt <= Total(t) /\ Total(t) < SeqRange
    BY <1>1, <1>2, <1>4, <1>13, <1>14, SMTT(30)
  <2>2. Len(t.sbuf) <= SndBuf
    BY <1>1, <1>2, <1>6, <1>11
  <2>3. \A i \in 1..Len(t.sbuf) : t.sbuf[i] = t.una + i - 1
    BY <1>6, <1>11, <1>13
  <2>4. SegsOK(t.slist, t.una, t.nxt, Total(t))
    BY <1>9, <1>11, <1>13, <1>14
  <2>5. (t.rto <=> t.nxt > t.una) /\ t.recover <= t.nxt
    BY <1>0, <1>1, <1>13 DEF SndOK
  <2>6. SndOK(t)
    BY <2>1, <2>2, <2>3, <2>4, <2>5 DEF SndOK
  <2>7. CcOK(t) /\ RcvOK(t)
    BY <1>0, <1>13 DEF CcOK, RcvOK
  <2> QED
    BY <1>11, <2>6, <2>7 DEF Half
<1>18. Peered(t, r) /\ Peered(r, t)
  BY <1>1, <1>13, <1>14, <1>15 DEF Fine, Peered
<1>19. t.out \in Seq(FromTo(o, t, r))
  <2>1. FromTo(o, s, r) \subseteq FromTo(o, t, r)
    BY <1>0, <1>11, <1>16, FromToGrows
  <2>2. s.out \in Seq(FromTo(o, s, r))
    BY DEF Fine
  <2> QED
    BY <1>13, <2>1, <2>2, SeqMono
<1>20. o /\ t.rnxt >= 1 => t.una >= 1
  BY <1>1, <1>13 DEF Fine
<1>21. Fine(o, t, r)
  BY <1>17, <1>18, <1>19, <1>20 DEF Fine
<1>22. Total(t) = Total(s) + Len(data) /\ Len(t.sbuf) = Len(s.sbuf) + Len(data)
  BY <1>1, <1>2, <1>6, <1>11, <1>14
<1> QED
  BY <1>12, <1>16, <1>21, <1>22

-------------------------------------------------------------------------------
\* Receiving: the connect message and the acknowledgement of a packet.

\* What an acknowledgement changes.
AckSet == Sent \cup {"state", "wnd", "una", "sbuf", "probes", "dups", "recover", "ssthresh"}

\* The congestion window is on neither side of what has been said.
LEMMA WithCwndFine ==
  ASSUME NEW o, NEW s, NEW r, Fine(o, s, r), NEW n \in Nat \ {0}, NEW t
  PROVE  t = WithCwnd(s, n) => Fine(o, t, r) /\ Grows(s, t) /\ Frame(s, t, {"cwnd"})
<1>a. SUFFICES ASSUME t = WithCwnd(s, n)
      PROVE  Fine(o, t, r) /\ Grows(s, t) /\ Frame(s, t, {"cwnd"})
  OBVIOUS
<1>0. s \in Tcb /\ SndOK(s) /\ CcOK(s)
  BY DEF Fine, Half
<1>1. t \in Tcb /\ Frame(s, t, {"cwnd"}) /\ t.cwnd <= MaxCwnd
  BY <1>a, <1>0, WithCwndOK
<1>2. Frame(s, t, Soft)
  BY <1>1 DEF Frame, Soft
<1>3. t.mss = s.mss /\ t.level = s.level /\ t.recover = s.recover /\ t.nxt = s.nxt
  BY <1>1 DEF Frame, Fields
<1>4. CcOK(t) /\ t.recover <= t.nxt
  BY <1>0, <1>1, <1>3 DEF CcOK, SndOK
<1> QED
  BY <1>1, <1>2, <1>4, SoftFine

\* Nor is the count of duplicate acknowledgements.
LEMMA DupsFine ==
  ASSUME NEW o, NEW s, NEW r, Fine(o, s, r), NEW d \in 0..4, NEW t
  PROVE  t = [s EXCEPT !.dups = d] =>
         Fine(o, t, r) /\ Grows(s, t) /\ Frame(s, t, {"dups"}) /\ t.dups = d
<1>a. SUFFICES ASSUME t = [s EXCEPT !.dups = d]
      PROVE  Fine(o, t, r) /\ Grows(s, t) /\ Frame(s, t, {"dups"}) /\ t.dups = d
  OBVIOUS
<1>0. s \in Tcb /\ SndOK(s) /\ CcOK(s)
  BY DEF Fine, Half
<1>1. t \in Tcb /\ t.dups = d
  BY <1>a, <1>0 DEF Tcb
<1>2. Frame(s, t, {"dups"})
  BY <1>a, <1>0 DEF Frame, Fields, Tcb
<1>3. Frame(s, t, Soft)
  BY <1>2 DEF Frame, Soft
<1>4. t.mss = s.mss /\ t.level = s.level /\ t.recover = s.recover /\ t.nxt = s.nxt /\ t.cwnd = s.cwnd
  BY <1>2 DEF Frame, Fields
<1>5. CcOK(t) /\ t.recover <= t.nxt
  BY <1>0, <1>4 DEF CcOK, SndOK
<1> QED
  BY <1>1, <1>2, <1>3, <1>5, SoftFine

\* Nor are the state and the segment size that the connection is established with.
LEMMA EstablishFine ==
  ASSUME NEW o, NEW s, NEW r, Fine(o, s, r), NEW t
  PROVE  t = Establish(s) =>
         /\ Fine(o, t, r) /\ Grows(s, t)
         /\ Frame(s, t, {"state", "writable", "level", "mss", "ssthresh", "cwnd"})
         /\ t.state = "established" /\ t.writable = TRUE
<1>a. SUFFICES ASSUME t = Establish(s)
      PROVE  /\ Fine(o, t, r) /\ Grows(s, t)
             /\ Frame(s, t, {"state", "writable", "level", "mss", "ssthresh", "cwnd"})
             /\ t.state = "established" /\ t.writable = TRUE
  OBVIOUS
<1>0. s \in Tcb /\ SndOK(s) /\ CcOK(s)
  BY DEF Fine, Half
<1>1. PICK m \in Nat \ {0} : m = Levels[1]
  <2>1. 1 \in 1..Len(Levels)
    BY Consts
  <2> QED
    BY <2>1, Consts
<1>2. PICK sst : sst = Larger(s.ssthresh, 2 * m)
  OBVIOUS
<1>3. PICK n : n = Larger(s.cwnd, m)
  OBVIOUS
<1>4. sst \in Nat \ {0} /\ n \in Nat \ {0}
  BY <1>0, <1>2, <1>3, TcbTypes DEF Larger
<1>5. PICK u : u = [s EXCEPT !.state = "established", !.writable = TRUE]
  OBVIOUS
<1>6. u \in Tcb /\ u.ssthresh = s.ssthresh /\ u.cwnd = s.cwnd /\ u.state = "established" /\ u.writable = TRUE
  BY <1>0, <1>5 DEF Tcb, States
<1>7. Frame(s, u, {"state", "writable"})
  BY <1>0, <1>5 DEF Frame, Fields, Tcb
<1>8. PICK v : v = [u EXCEPT !.level = 1, !.mss = m, !.ssthresh = sst]
  OBVIOUS
<1>9. v \in Tcb /\ v.level = 1 /\ v.mss = m /\ v.cwnd = u.cwnd /\ v.state = u.state /\ v.writable = u.writable
  <2>1. v \in Tcb
    <3>0. PICK one \in Nat \ {0} : one = 1
      OBVIOUS
    <3>1. PICK w : w = [u EXCEPT !.level = one]
      OBVIOUS
    <3>2. w \in Tcb
      BY ONLY <1>6, one \in Nat \ {0}, <3>1 DEF Tcb
    <3>3. PICK x : x = [w EXCEPT !.mss = m]
      OBVIOUS
    <3>4. x \in Tcb
      BY <1>1, <3>2, <3>3 DEF Tcb
    <3>5. v = [x EXCEPT !.ssthresh = sst]
      BY <1>6, <1>8, <3>0, <3>1, <3>3 DEF Tcb
    <3> QED
      BY <1>4, <3>4, <3>5 DEF Tcb
  <2>2. v.level = 1 /\ v.mss = m /\ v.cwnd = u.cwnd
    BY <1>6, <1>8 DEF Tcb
  <2>3. v.state = u.state /\ v.writable = u.writable
    BY <1>6, <1>8 DEF Tcb
  <2> QED
    BY <2>1, <2>2, <2>3
<1>10. Frame(u, v, {"level", "mss", "ssthresh"})
  BY <1>6, <1>8 DEF Frame, Fields, Tcb
<1>11. t = WithCwnd(v, n)
  BY <1>a, <1>1, <1>2, <1>3, <1>5, <1>6, <1>8 DEF Establish, AdjustMTU
<1>12. Frame(s, v, {"state", "writable", "level", "mss", "ssthresh"})
  BY <1>7, <1>10 DEF Frame
<1>13. Fine(o, v, r) /\ Grows(s, v)
  <2>1. Frame(s, v, Soft)
    BY <1>12 DEF Frame, Soft
  <2>2. v.recover = s.recover /\ v.nxt = s.nxt
    BY <1>12 DEF Frame, Fields
  <2>3. CcOK(v) /\ v.recover <= v.nxt
    <3>1. 1 \in 1..Len(Levels) /\ 1 <= Len(Levels)
      BY Consts
    <3> QED
      BY <1>0, <1>1, <1>6, <1>9, <2>2, <3>1 DEF CcOK, SndOK
  <2> QED
    BY <1>9, <2>1, <2>3, SoftFine
<1>14. Fine(o, t, r) /\ Grows(v, t) /\ Frame(v, t, {"cwnd"})
  BY <1>4, <1>11, <1>13, WithCwndFine
<1>15. Grows(s, t)
  <2>1. t \in Tcb
    BY <1>14 DEF Fine, Half
  <2> QED
    BY <1>0, <1>9, <1>13, <1>14, <2>1, GrowsTrans
<1>16. Frame(s, t, {"state", "writable", "level", "mss", "ssthresh", "cwnd"})
  BY <1>12, <1>14 DEF Frame
<1>17. t.state = v.state /\ t.writable = v.writable
  BY <1>14 DEF Frame, Fields
<1> QED
  BY <1>6, <1>9, <1>14, <1>15, <1>16, <1>17

\* The connect message is the first thing that is written.
LEMMA QueueConnectFine ==
  ASSUME NEW o \in BOOLEAN, NEW s, NEW r, Fine(o, s, r), s.una = 0, s.sbuf = <<>>, s.wnd = 1,
         1 < SeqRange, NEW t
  PROVE  t = QueueConnectMessage(s) =>
         /\ Fine(o, t, r) /\ Grows(s, t) /\ Frame(s, t, {"slist", "sbuf"})
         /\ Total(t) = 1 /\ Len(t.sbuf) = 1
<1>a. SUFFICES ASSUME t = QueueConnectMessage(s)
      PROVE  /\ Fine(o, t, r) /\ Grows(s, t) /\ Frame(s, t, {"slist", "sbuf"})
             /\ Total(t) = 1 /\ Len(t.sbuf) = 1
  OBVIOUS
<1>0. s \in Tcb
  BY DEF Fine, Half
<1>1. s = [s EXCEPT !.wnd = 1]
  BY <1>0 DEF Tcb
<1>2. PICK d : d = <<0>>
  OBVIOUS
<1>3. d \in Seq(Nat) /\ Len(d) = 1 /\ d[1] = 0
  BY <1>2
<1>4. t = Queue(s, d, TRUE)
  BY <1>a, <1>1, <1>2 DEF QueueConnectMessage
<1>5. Len(s.sbuf) = 0 /\ Total(s) = 0
  BY EmptySeq DEF Total
<1>6. \A i \in 1..Len(d) : d[i] = Total(s) + i - 1
  BY <1>3, <1>5
<1>7. Len(s.sbuf) + Len(d) <= SndBuf /\ Total(s) + Len(d) < SeqRange
  BY <1>3, <1>5, Consts
<1>8. TRUE \in BOOLEAN /\ (TRUE <=> Total(s) = 0) /\ Len(d) > 0
  BY <1>3, <1>5
<1>9. /\ Fine(o, t, r) /\ Grows(s, t) /\ Frame(s, t, {"slist", "sbuf"})
      /\ Total(t) = Total(s) + Len(d) /\ Len(t.sbuf) = Len(s.sbuf) + Len(d)
  <2>1. PICK c \in BOOLEAN : c = TRUE
    OBVIOUS
  <2>2. t = Queue(s, d, c) /\ Len(d) > 0 /\ (c => Total(s) = 0 /\ Len(d) = 1) /\ (~ c => Total(s) > 0)
    BY <1>3, <1>4, <1>5, <2>1
  <2>3. Fine(o, s, r) /\ o \in BOOLEAN /\ c \in BOOLEAN /\ d \in Seq(Nat) /\ Len(d) > 0
        /\ Len(s.sbuf) + Len(d) <= SndBuf /\ Total(s) + Len(d) < SeqRange
    BY <1>3, <1>7
  <2>4. (c => Total(s) = 0 /\ Len(d) = 1) /\ (~ c => Total(s) > 0)
    BY <2>2
  <2>5. t = Queue(s, d, c) =>
        /\ Fine(o, t, r) /\ Grows(s, t) /\ Frame(s, t, {"slist", "sbuf"})
        /\ Total(t) = Total(s) + Len(d) /\ Len(t.sbuf) = Len(s.sbuf) + Len(d)
    BY ONLY <1>6, <2>3, <2>4, QueueFine
  <2> QED
    BY <2>2, <2>5
<1> QED
  BY <1>3, <1>5, <1>9

\* What a connect message changes.
OpenSet == {"scaled", "state", "slist", "sbuf", "level", "mss", "ssthresh", "cwnd", "writable"}

\* t is s when the connect message of p has been taken.
Opened(s, p, t) ==
  /\ Frame(s, t, OpenSet)
  /\ ~ p.ctrl => t = s
  /\ p.ctrl /\ s.state = "listen" =>
       t.state = "syn_received" /\ Total(t) = 1 /\ Len(t.sbuf) = 1 /\ t.scaled /\ t.writable = s.writable
  /\ p.ctrl /\ s.state = "syn_sent" => t.state = "established" /\ t.writable = TRUE /\ t.sbuf = s.sbuf
  /\ s.state \notin {"listen", "syn_sent"} => t.state = s.state /\ t.writable = s.writable /\ t.sbuf = s.sbuf

\* A connect message leaves the ends in agreement, whether the end listens, has connected or
\* has heard it before.
LEMMA TakeConnectFine ==
  ASSUME NEW o \in BOOLEAN, NEW s, NEW r, Fine(o, s, r), NEW p,
         s.state = "listen" => s.una = 0 /\ s.sbuf = <<>> /\ s.wnd = 1,
         1 < SeqRange, NEW t
  PROVE  t = TakeConnect(s, p) =>
         /\ Fine(o, t, r) /\ Grows(s, t)
         /\ Opened(s, p, t)
<1>a. SUFFICES ASSUME t = TakeConnect(s, p)
      PROVE  /\ Fine(o, t, r) /\ Grows(s, t)
             /\ Frame(s, t, OpenSet)
             /\ ~ p.ctrl => t = s
             /\ p.ctrl /\ s.state = "listen" =>
                  t.state = "syn_received" /\ Total(t) = 1 /\ Len(t.sbuf) = 1 /\ t.scaled /\ t.writable = s.writable
             /\ p.ctrl /\ s.state = "syn_sent" => t.state = "established" /\ t.writable = TRUE /\ t.sbuf = s.sbuf
             /\ s.state \notin {"listen", "syn_sent"} =>
                  t.state = s.state /\ t.writable = s.writable /\ t.sbuf = s.sbuf
  BY DEF Opened
<1>0. s \in Tcb /\ SndOK(s) /\ CcOK(s)
  BY DEF Fine, Half
<1>1. PICK u : u = [s EXCEPT !.scaled = TRUE]
  OBVIOUS
<1>2. u \in Tcb /\ u.scaled = TRUE /\ Frame(s, u, {"scaled"})
  <2>1. u \in Tcb /\ u.scaled = TRUE
    BY <1>0, <1>1 DEF Tcb
  <2>2. Frame(s, u, {"scaled"})
    BY <1>0, <1>1 DEF Frame, Fields, Tcb
  <2> QED
    BY <2>1, <2>2
<1>3. Fine(o, u, r) /\ Grows(s, u)
  <2>1. Frame(s, u, Soft)
    BY <1>2 DEF Frame, Soft
  <2>2. u.mss = s.mss /\ u.level = s.level /\ u.recover = s.recover /\ u.nxt = s.nxt /\ u.cwnd = s.cwnd
    BY <1>2 DEF Frame, Fields
  <2>3. CcOK(u) /\ u.recover <= u.nxt
    BY <1>0, <2>2 DEF CcOK, SndOK
  <2> QED
    BY <1>2, <2>1, <2>3, SoftFine
<1>4. CASE ~ p.ctrl
  <2>1. t = s
    BY <1>a, <1>4 DEF TakeConnect
  <2> QED
    BY <1>0, <1>4, <2>1, GrowsRefl DEF Frame
<1>5. CASE p.ctrl /\ s.state = "listen"
  <2>1. PICK v : v = [u EXCEPT !.state = "syn_received"]
    OBVIOUS
  <2>2. t = QueueConnectMessage(v)
    BY <1>a, <1>1, <1>5, <2>1 DEF TakeConnect
  <2>3. v \in Tcb /\ v.state = "syn_received"
    BY <1>2, <2>1 DEF Tcb, States
  <2>4. Frame(u, v, {"state"})
    BY <1>2, <2>1 DEF Frame, Fields, Tcb
  <2>5. v.una = s.una /\ v.sbuf = s.sbuf /\ v.wnd = s.wnd /\ v.scaled = u.scaled /\ v.writable = s.writable
    BY <1>2, <2>4 DEF Frame, Fields
  <2>6. Fine(o, v, r) /\ Grows(u, v)
    <3>1. Frame(u, v, Soft)
      BY <2>4 DEF Frame, Soft
    <3>2. v.mss = u.mss /\ v.level = u.level /\ v.recover = u.recover /\ v.nxt = u.nxt /\ v.cwnd = u.cwnd
      BY <2>4 DEF Frame, Fields
    <3>3. CcOK(v) /\ v.recover <= v.nxt
      BY <1>3, <3>2 DEF Fine, Half, CcOK, SndOK
    <3> QED
      BY <1>3, <2>3, <3>1, <3>3, SoftFine
  <2>7. /\ Fine(o, t, r) /\ Grows(v, t) /\ Frame(v, t, {"slist", "sbuf"})
        /\ Total(t) = 1 /\ Len(t.sbuf) = 1
    BY <1>5, <2>2, <2>5, <2>6, QueueConnectFine
  <2>8. t.state = v.state /\ t.scaled = v.scaled /\ t.writable = v.writable
    BY <2>7 DEF Frame, Fields
  <2>9. Grows(s, t)
    <3>1. t \in Tcb
      BY <2>7 DEF Fine, Half
    <3> QED
      BY <1>0, <1>2, <1>3, <2>3, <2>6, <2>7, <3>1, GrowsTrans
  <2>10. Frame(s, t, OpenSet)
    BY <1>2, <2>4, <2>7 DEF Frame, OpenSet
  <2> QED
    BY <1>2, <1>5, <2>3, <2>5, <2>7, <2>8, <2>9, <2>10
<1>6. CASE p.ctrl /\ s.state = "syn_sent"
  <2>1. t = Establish(u)
    BY <1>a, <1>1, <1>6 DEF TakeConnect
  <2>2. /\ Fine(o, t, r) /\ Grows(u, t)
        /\ Frame(u, t, {"state", "writable", "level", "mss", "ssthresh", "cwnd"})
        /\ t.state = "established" /\ t.writable = TRUE
    BY <1>3, <2>1, EstablishFine
  <2>3. Frame(s, t, OpenSet)
    BY <1>2, <2>2 DEF Frame, OpenSet
  <2>4. t.sbuf = s.sbuf
    BY <1>2, <2>2 DEF Frame, Fields
  <2>5. Grows(s, t)
    <3>1. t \in Tcb
      BY <2>2 DEF Fine, Half
    <3> QED
      BY <1>0, <1>2, <1>3, <2>2, <3>1, GrowsTrans
  <2> QED
    BY <1>6, <2>2, <2>3, <2>4, <2>5
<1>7. CASE p.ctrl /\ s.state \notin {"listen", "syn_sent"}
  <2>1. t = u
    BY <1>a, <1>1, <1>7 DEF TakeConnect
  <2>2. t.state = s.state /\ t.writable = s.writable /\ t.sbuf = s.sbuf
    BY <1>2, <2>1 DEF Frame, Fields
  <2>3. Frame(s, t, OpenSet)
    BY <1>2, <2>1 DEF Frame, OpenSet
  <2> QED
    BY <1>3, <1>7, <2>1, <2>2, <2>3
<1> QED
  BY <1>4, <1>5, <1>6, <1>7

\* So does a retransmission, or that there has been one too many.
LEMMA RetransmitFine ==
  ASSUME NEW o \in BOOLEAN, NEW s, NEW r, Fine(o, s, r), o \/ s.rnxt >= 1, s.nxt > s.una, NEW t
  PROVE  t = Retransmit(s) =>
         /\ Fine(o, t, r) /\ Grows(s, t) /\ Frame(s, t, Sent \cup {"state"})
         /\ t.nxt > t.una /\ t.state \in {s.state, "closed"} /\ (Acks(t) => Acks(s))
<1>a. SUFFICES ASSUME t = Retransmit(s)
      PROVE  /\ Fine(o, t, r) /\ Grows(s, t) /\ Frame(s, t, Sent \cup {"state"})
             /\ t.nxt > t.una /\ t.state \in {s.state, "closed"} /\ (Acks(t) => Acks(s))
  OBVIOUS
<1>0. s \in Tcb /\ SndOK(s) /\ CcOK(s)
  BY DEF Fine, Half
<1>1. CASE TooOften(s, 1)
  <2>1. t = [s EXCEPT !.state = "closed"]
    BY <1>a, <1>1 DEF Retransmit, Closedown
  <2>2. t \in Tcb /\ t.state = "closed"
    BY <1>0, <2>1 DEF Tcb, States
  <2>3. Frame(s, t, {"state"})
    BY <1>0, <2>1 DEF Frame, Fields, Tcb
  <2>4. Frame(s, t, Soft) /\ Frame(s, t, Sent \cup {"state"})
    BY <2>3 DEF Frame, Soft
  <2>5. t.mss = s.mss /\ t.level = s.level /\ t.recover = s.recover /\ t.nxt = s.nxt /\ t.cwnd = s.cwnd
        /\ t.una = s.una
    BY <2>3 DEF Frame, Fields
  <2>6. CcOK(t) /\ t.recover <= t.nxt
    BY <1>0, <2>5 DEF CcOK, SndOK
  <2>7. Acks(t) => Acks(s)
    BY <2>3 DEF Frame, Fields, Acks
  <2> QED
    BY <2>2, <2>4, <2>5, <2>6, <2>7, SoftFine
<1>2. CASE ~ TooOften(s, 1)
  <2>1. t = Transmit(s, 1)
    BY <1>a, <1>2 DEF Retransmit
  <2>2. PICK una \in Nat, nxt \in Nat, total \in Nat : una = s.una /\ nxt = s.nxt /\ total = Total(s)
    BY <1>0, TcbTypes
  <2>3. PICK l : l = s.slist
    OBVIOUS
  <2>4. SegsOK(l, una, nxt, total) /\ Len(l) \in Nat /\ nxt <= total /\ una < nxt
    BY <1>0, <2>2, <2>3, TcbTypes DEF SndOK
  <2>5. PICK m \in 0..Len(l) : SentTo(l, nxt, total, m)
    BY <2>4 DEF SegsOK
  <2>6. At(l, total, 1) = una
    BY <2>4 DEF SegsOK
  <2>7. Len(l) # 0
    BY <2>4, <2>6 DEF At
  <2>8. m # 0
    BY <2>4, <2>5, <2>6 DEF SentTo
  <2>9. Ready(s, 1)
    BY <2>2, <2>3, <2>4, <2>5, <2>7 DEF Ready
  <2>10. s.slist[1].xmit # 0
    <3>1. 1 \in 1..Len(l) /\ 1 <= m
      BY <2>4, <2>7, <2>8
    <3>2. l[1].xmit > 0 /\ l[1].xmit \in Nat
      BY <2>4, <2>5, <3>1, SegBounds DEF SentTo
    <3> QED
      BY <2>3, <3>2
  <2>11. Fine(o, t, r) /\ Grows(s, t) /\ Frame(s, t, Sent) /\ t.nxt > t.una /\ (Acks(t) => Acks(s))
    BY <2>1, <2>9, <2>10, TransmitFine
  <2>12. Frame(s, t, Sent \cup {"state"})
    BY <2>11 DEF Frame
  <2>13. t.state = s.state
    BY <2>11 DEF Frame, Fields, Sent
  <2> QED
    BY <2>11, <2>12, <2>13
<1> QED
  BY <1>1, <1>2

\* What NewAck makes of the sender's half.
Moved(s, w, a, n) ==
  [s EXCEPT !.wnd = w, !.una = a, !.rto = a # s.nxt,
            !.sbuf = SubSeq(@, n + 1, Len(@)), !.slist = Acked(@, n), !.probes = 0]

\* The window that a packet offers ends where the peer's receive buffer does, also when the
\* scale has cut a part of it off.
LEMMA WindowFacts ==
  ASSUME NEW o, NEW s, NEW r, NEW p \in FromTo(o, r, s), s \in Tcb, r \in Tcb
  PROVE  Window(s, p) \in Nat /\ p.ack \in Nat /\ p.ack + Window(s, p) <= Edge(r)
<1>1. PICK a \in Nat, w \in Nat, u \in Nat \ {0}, e \in Nat :
        a = p.ack /\ w = p.wnd /\ u = WndUnit /\ e = Edge(r)
  BY Consts, TcbTypes DEF FromTo, Packet
<1>2. a + w * u <= e
  BY <1>1 DEF FromTo
<1>3. \A x \in Nat, y \in Nat \ {0} : x * y \in Nat /\ x <= x * y
  OBVIOUS
<1>4. PICK v \in Nat : v = w * u
  OBVIOUS
<1>5. w <= v
  BY <1>3, <1>4
<1>6. Window(s, p) = w \/ Window(s, p) = v
  BY <1>1, <1>4 DEF Window
<1>7. a + w <= e /\ a + v <= e
  BY <1>2, <1>4, <1>5
<1> QED
  BY <1>1, <1>6, <1>7

\* An end may take such a window.
LEMMA WndFine ==
  ASSUME NEW o, NEW s, NEW r, Fine(o, s, r), NEW w \in Nat, s.una + w <= Edge(r), NEW t
  PROVE  t = [s EXCEPT !.wnd = w] => Fine(o, t, r) /\ Grows(s, t) /\ Frame(s, t, {"wnd"}) /\ t.wnd = w
<1>a. SUFFICES ASSUME t = [s EXCEPT !.wnd = w]
      PROVE  Fine(o, t, r) /\ Grows(s, t) /\ Frame(s, t, {"wnd"}) /\ t.wnd = w
  OBVIOUS
<1>0. s \in Tcb /\ r \in Tcb
  BY DEF Fine, Half
<1>1. t \in Tcb /\ t.wnd = w
  BY <1>0, <1>a DEF Tcb
<1>2. Frame(s, t, {"wnd"})
  BY <1>0, <1>a DEF Tcb, Frame, Fields
<1>3. /\ t.slist = s.slist /\ t.sbuf = s.sbuf /\ t.una = s.una /\ t.nxt = s.nxt
      /\ t.rto = s.rto /\ t.recover = s.recover
  BY <1>2 DEF Frame, Fields
<1>4. /\ t.rnxt = s.rnxt /\ t.rwnd = s.rwnd /\ t.rlist = s.rlist
      /\ t.rbuf = s.rbuf /\ t.stash = s.stash /\ t.out = s.out
  BY <1>2 DEF Frame, Fields
<1>5. t.cwnd = s.cwnd /\ t.mss = s.mss /\ t.level = s.level
  BY <1>2 DEF Frame, Fields
<1>6. Total(t) = Total(s) /\ Edge(t) = Edge(s) /\ Points(t) = Points(s)
  BY <1>3, <1>4 DEF Total, Edge, Points
<1>7. Grows(s, t)
  <2>1. s.rnxt \in Nat /\ Edge(s) \in Nat /\ s.nxt \in Nat /\ s.una \in Nat
    BY <1>0, TcbTypes
  <2> QED
    BY <1>3, <1>4, <1>6, <2>1 DEF Grows
<1>8. Half(t)
  <2>1. SndOK(t)
    BY <1>3, <1>6 DEF Fine, Half, SndOK
  <2>2. RcvOK(t)
    BY <1>4 DEF Fine, Half, RcvOK
  <2>3. CcOK(t)
    BY <1>5 DEF Fine, Half, CcOK
  <2> QED
    BY <1>1, <2>1, <2>2, <2>3 DEF Half
<1>9. Peered(t, r) /\ Peered(r, t)
  BY <1>1, <1>3, <1>4, <1>6 DEF Fine, Peered
<1>10. t.out \in Seq(FromTo(o, t, r))
  <2>1. FromTo(o, s, r) \subseteq FromTo(o, t, r)
    BY <1>0, <1>1, <1>7, FromToGrows
  <2> QED
    BY <1>4, <2>1, SeqMono DEF Fine
<1>11. o /\ t.rnxt >= 1 => t.una >= 1
  BY <1>3, <1>4 DEF Fine
<1> QED
  BY <1>1, <1>2, <1>7, <1>8, <1>9, <1>10, <1>11 DEF Fine

\* And with it the acknowledgement of what the peer has.
LEMMA MovedFine ==
  ASSUME NEW o, NEW s, NEW r, Fine(o, s, r), NEW a \in Nat, a \in Points(s),
         NEW n \in Nat, n > 0, s.una + n = a, a <= r.rnxt,
         NEW w \in Nat, a + w <= Edge(r), NEW t
  PROVE  t = Moved(s, w, a, n) =>
         /\ Fine(o, t, r) /\ Grows(s, t)
         /\ Frame(s, t, {"wnd", "una", "rto", "sbuf", "slist", "probes"})
         /\ Total(t) = Total(s) /\ t.una = a /\ t.wnd = w
<1>a. SUFFICES ASSUME t = Moved(s, w, a, n)
      PROVE  /\ Fine(o, t, r) /\ Grows(s, t)
             /\ Frame(s, t, {"wnd", "una", "rto", "sbuf", "slist", "probes"})
             /\ Total(t) = Total(s) /\ t.una = a /\ t.wnd = w
  OBVIOUS
<1>b. PICK l : l = Acked(s.slist, n)
  OBVIOUS
<1>c. PICK b : b = SubSeq(s.sbuf, n + 1, Len(s.sbuf))
  OBVIOUS
<1>0. s \in Tcb /\ r \in Tcb /\ SndOK(s)
  BY DEF Fine, Half
<1>1. PICK una \in Nat, nxt \in Nat, len \in Nat, total \in Nat :
        una = s.una /\ nxt = s.nxt /\ len = Len(s.sbuf) /\ total = Total(s)
  BY <1>0, TcbTypes
<1>5. n = a - una
  BY <1>1
<1>2. a \in Nat /\ a <= nxt /\ una < a /\ nxt <= total /\ total = una + len
  <2>1. a <= nxt
    BY <1>1, PointsFacts DEF Fine
  <2>2. nxt <= total /\ total = una + len
    BY <1>0, <1>1 DEF SndOK, Total
  <2>3. una < a
    BY <1>1
  <2> QED
    BY <2>1, <2>2, <2>3
<1>3. PICK k : k = s.slist
  OBVIOUS
<1>4. /\ SegsOK(l, a, nxt, total) /\ Pts(k, una, nxt, total) \subseteq Pts(l, a, nxt, total)
      /\ l \in Seq(SegType)
  <2>1. SegsOK(k, una, nxt, total) /\ a \in Pts(k, una, nxt, total) /\ a > una
    BY <1>0, <1>1, <1>2, <1>3 DEF SndOK, Points
  <2>2. l = Acked(k, a - una)
    BY <1>b, <1>1, <1>3, <1>5
  <2>3. SegsOK(l, a, nxt, total) /\ Pts(k, una, nxt, total) \subseteq Pts(l, a, nxt, total)
    BY ONLY <2>1, <2>2, una \in Nat, nxt \in Nat, total \in Nat, FreeSegs
  <2> QED
    BY <2>3 DEF SegsOK
<1>6. /\ b \in Seq(Nat) /\ Len(b) = len - n /\ Len(b) \in Nat
      /\ \A i \in 1..len - n : b[i] = s.sbuf[n + 1 + i - 1]
  <2>1. s.sbuf \in Seq(Nat)
    BY <1>0, TcbTypes
  <2>3. n <= len /\ n + 1 \in 1..len + 1 /\ len \in n..len
    BY ONLY <1>2, <1>5, a \in Nat, una \in Nat, nxt \in Nat, len \in Nat, n \in Nat, total \in Nat
  <2>2. b = SubSeq(s.sbuf, n + 1, len)
    BY <1>c, <1>1, <1>5
  <2>4. b \in Seq(Nat) /\ Len(b) = len - (n + 1) + 1 /\ \A i \in 1..len - (n + 1) + 1 : b[i] = s.sbuf[n + 1 + i - 1]
    <3>0. PICK q : q = s.sbuf
      OBVIOUS
    <3>1. \A i \in n + 1..len : q[i] \in Nat
      BY ONLY <1>1, <2>1, <3>0, n \in Nat, len \in Nat, ElementOfSeq
    <3>2. b = SubSeq(q, n + 1, len) /\ n + 1 \in Int /\ len \in Int
      BY <2>2, <3>0
    <3>3. /\ b \in Seq(Nat) /\ Len(b) = (IF n + 1 <= len THEN len - (n + 1) + 1 ELSE 0)
          /\ \A i \in 1..len - (n + 1) + 1 : b[i] = q[n + 1 + i - 1]
      BY ONLY <3>1, <3>2, SubSeqProperties
    <3>4. Len(b) = len - (n + 1) + 1
      BY <2>3, <3>3
    <3> QED
      BY <3>0, <3>3, <3>4
  <2>5. len - (n + 1) + 1 = len - n /\ len - n \in Nat
    BY <2>3
  <2> QED
    BY <2>4, <2>5
<1>7. \A i \in 1..Len(b) : b[i] = a + i - 1
  <2> TAKE i \in 1..Len(b)
  <2>1. n + i \in 1..len /\ i \in 1..len - n /\ n + 1 + i - 1 = n + i
    BY <1>6
  <2>2. s.sbuf[n + i] = una + (n + i) - 1
    BY <1>0, <1>1, <2>1 DEF SndOK
  <2>3. b[i] = una + (n + i) - 1
    BY <1>6, <2>1, <2>2
  <2> QED
    BY <1>2, <1>5, <2>1, <2>3
<1>8. PICK c \in BOOLEAN : c <=> a # nxt
  OBVIOUS
<1>9. t \in Tcb /\ t.wnd = w /\ t.una = a /\ t.sbuf = b /\ t.slist = l /\ (t.rto <=> nxt > a)
  <2>0. c = (a # nxt)
    BY <1>8
  <2>1. t = [s EXCEPT !.wnd = w, !.una = a, !.rto = c, !.sbuf = b, !.slist = l, !.probes = 0]
    BY <1>a, <1>b, <1>c, <1>1, <2>0 DEF Moved
  <2>2. t \in Tcb
    <3>1. PICK z \in Nat : z = 0
      OBVIOUS
    <3>2. PICK u : u = [s EXCEPT !.wnd = w, !.una = a, !.rto = c]
      OBVIOUS
    <3>3. u \in Tcb
      BY ONLY <1>0, <1>2, <3>2, w \in Nat, c \in BOOLEAN DEF Tcb
    <3>4. t = [u EXCEPT !.sbuf = b, !.slist = l, !.probes = z]
      BY <1>0, <2>1, <3>1, <3>2 DEF Tcb
    <3> QED
      BY ONLY <1>4, <1>6, <3>3, <3>4, z \in Nat DEF Tcb
  <2>3. t.wnd = w /\ t.una = a /\ t.sbuf = b
    BY <1>0, <2>1 DEF Tcb
  <2>4. t.slist = l /\ t.rto = c
    BY <1>0, <2>1 DEF Tcb
  <2>5. t.rto <=> nxt > a
    <3>1. t.rto <=> a # nxt
      BY <1>8, <2>4
    <3>2. a # nxt <=> nxt > a
      BY <1>2
    <3> QED
      BY <3>1, <3>2
  <2> QED
    BY <2>2, <2>3, <2>4, <2>5
<1>10. Frame(s, t, {"wnd", "una", "rto", "sbuf", "slist", "probes"})
  BY <1>a, <1>0 DEF Moved, Frame, Fields, Tcb
<1>11. /\ t.nxt = s.nxt /\ t.recover = s.recover
       /\ t.cwnd = s.cwnd /\ t.mss = s.mss /\ t.level = s.level
  BY <1>10 DEF Frame, Fields
<1>12. /\ t.rnxt = s.rnxt /\ t.rwnd = s.rwnd /\ t.rlist = s.rlist
       /\ t.rbuf = s.rbuf /\ t.stash = s.stash /\ t.out = s.out
  BY <1>10 DEF Frame, Fields
<1>13. Total(t) = total
  <2>1. Total(t) = a + Len(b)
    BY <1>9 DEF Total
  <2> QED
    BY <1>2, <1>5, <1>6, <2>1
<1>14. Edge(t) = Edge(s) /\ Points(s) \subseteq Points(t)
  <2>1. Points(s) = Pts(k, una, nxt, total)
    BY <1>1, <1>3 DEF Points
  <2>2. Points(t) = Pts(l, a, nxt, total)
    BY <1>1, <1>9, <1>11, <1>13 DEF Points
  <2> QED
    BY <1>4, <1>12, <2>1, <2>2 DEF Edge
<1>15. Grows(s, t)
  <2>1. s.rnxt \in Nat /\ Edge(s) \in Nat /\ s.nxt \in Nat /\ s.una \in Nat
    BY <1>0, TcbTypes
  <2>2. s.una <= t.una
    BY <1>1, <1>2, <1>9
  <2> QED
    BY <1>11, <1>12, <1>14, <2>1, <2>2 DEF Grows
<1>16. SndOK(t)
  <2>1. t.una <= t.nxt /\ t.nxt <= Total(t) /\ Total(t) < SeqRange
    BY <1>0, <1>1, <1>2, <1>9, <1>11, <1>13 DEF SndOK
  <2>2. Len(t.sbuf) <= SndBuf
    <3>1. len <= SndBuf /\ SndBuf \in Nat
      BY <1>0, <1>1, Consts DEF SndOK
    <3> QED
      BY <1>5, <1>6, <1>9, <3>1
  <2>3. \A i \in 1..Len(t.sbuf) : t.sbuf[i] = t.una + i - 1
    BY <1>7, <1>9
  <2>4. SegsOK(t.slist, t.una, t.nxt, Total(t))
    BY <1>1, <1>4, <1>9, <1>11, <1>13
  <2>5. t.rto <=> t.nxt > t.una
    BY <1>1, <1>9, <1>11
  <2>6. t.recover <= t.nxt
    BY <1>0, <1>11 DEF SndOK
  <2> QED
    BY <2>1, <2>2, <2>3, <2>4, <2>5, <2>6 DEF SndOK
<1>17. Half(t)
  <2>1. RcvOK(t)
    BY <1>12 DEF Fine, Half, RcvOK
  <2>2. CcOK(t)
    BY <1>11 DEF Fine, Half, CcOK
  <2> QED
    BY <1>9, <1>16, <2>1, <2>2 DEF Half
<1>18. Peered(t, r)
  BY <1>9, <1>11, <1>14 DEF Fine, Peered
<1>19. Peered(r, t)
  BY <1>12, <1>14 DEF Fine, Peered
<1>20. t.out \in Seq(FromTo(o, t, r))
  <2>1. FromTo(o, s, r) \subseteq FromTo(o, t, r)
    BY <1>0, <1>9, <1>15, FromToGrows
  <2> QED
    BY <1>12, <2>1, SeqMono DEF Fine
<1>21. o /\ t.rnxt >= 1 => t.una >= 1
  BY <1>1, <1>2, <1>9, <1>12 DEF Fine
<1> QED
  BY <1>1, <1>9, <1>10, <1>13, <1>15, <1>17, <1>18, <1>19, <1>20, <1>21 DEF Fine

\* What an acknowledgement leaves alone.
LEMMA AckSetFacts ==
  ASSUME NEW s, NEW t, Frame(s, t, AckSet)
  PROVE  /\ t.rnxt = s.rnxt /\ t.rwnd = s.rwnd /\ t.rlist = s.rlist /\ t.rbuf = s.rbuf /\ t.stash = s.stash
         /\ t.shutdown = s.shutdown /\ t.scaled = s.scaled
         /\ t.readEnable = s.readEnable /\ t.writeEnable = s.writeEnable
         /\ t.readable = s.readable /\ t.writable = s.writable
  BY DEF Frame, Fields, AckSet, Sent

\* A new acknowledgement frees the segments before it: there is a segment that ends there. The
\* ends agree afterwards, also when it ends the recovery or another segment is sent again.
LEMMA NewAckFine ==
  ASSUME NEW o \in BOOLEAN, NEW s, NEW r, Fine(o, s, r), o \/ s.rnxt >= 1, NEW p,
         p.ack \in Points(s), p.ack > s.una, p.ack <= r.rnxt, Window(s, p) \in Nat,
         p.ack + Window(s, p) <= Edge(r), NEW t
  PROVE  t = NewAck(s, p) =>
         /\ Fine(o, t, r) /\ Grows(s, t) /\ Frame(s, t, AckSet)
         /\ t.una = p.ack /\ Total(t) = Total(s) /\ t.state \in {s.state, "closed"}
<1>a. SUFFICES ASSUME t = NewAck(s, p)
      PROVE  /\ Fine(o, t, r) /\ Grows(s, t) /\ Frame(s, t, AckSet)
             /\ t.una = p.ack /\ Total(t) = Total(s) /\ t.state \in {s.state, "closed"}
  OBVIOUS
<1>0. s \in Tcb /\ r \in Tcb /\ SndOK(s)
  BY DEF Fine, Half
<1>1. PICK a \in Points(s), w \in Nat : a = p.ack /\ w = Window(s, p)
  OBVIOUS
<1>2. PICK una \in Nat, nxt \in Nat : una = s.una /\ nxt = s.nxt
  BY <1>0, TcbTypes
<1>3. a \in Nat /\ a <= nxt /\ una < a /\ nxt < SeqRange /\ SeqRange \in Nat
  <2>1. a \in Nat /\ a <= nxt
    BY <1>0, <1>2, PointsFacts DEF Fine
  <2>2. nxt <= Total(s) /\ Total(s) < SeqRange /\ Total(s) \in Nat /\ SeqRange \in Nat
    BY <1>0, <1>2, TcbTypes, Consts DEF SndOK
  <2> QED
    BY <1>1, <1>2, <2>1, <2>2
<1>4. Minus(p.ack, s.una) = a - una /\ a - una \in Nat
  <2>1. Minus(a, una) = a - una
    BY ONLY <1>3, una \in Nat, NoWrapping
  <2> QED
    BY <1>1, <1>2, <1>3, <2>1
<1>5. PICK i \in Nat : i = a - una
  BY <1>4
<1>6. PICK v : v = Moved(s, w, a, i)
  OBVIOUS
<1>7. v = [s EXCEPT !.wnd = Window(s, p), !.una = p.ack, !.rto = p.ack # s.nxt,
                    !.sbuf = SubSeq(@, Minus(p.ack, s.una) + 1, Len(@)),
                    !.slist = Acked(@, Minus(p.ack, s.una)), !.probes = 0]
  BY <1>1, <1>2, <1>4, <1>5, <1>6 DEF Moved
<1>8. /\ Fine(o, v, r) /\ Grows(s, v)
      /\ Frame(s, v, {"wnd", "una", "rto", "sbuf", "slist", "probes"})
      /\ Total(v) = Total(s) /\ v.una = a /\ v.wnd = w
  <2>1. a > s.una /\ a <= r.rnxt /\ a + w <= Edge(r)
    BY <1>1
  <2>3. i > 0 /\ s.una + i = a
    BY <1>2, <1>3, <1>5
  <2>5. Fine(o, s, r) /\ a \in Points(s) /\ a \in Nat
    BY <1>3
  <2>6. /\ Fine(o, v, r) /\ Grows(s, v)
        /\ Frame(s, v, {"wnd", "una", "rto", "sbuf", "slist", "probes"})
        /\ Total(v) = Total(s) /\ v.una = a /\ v.wnd = w
    BY ONLY <2>1, i \in Nat, <1>6, <2>3, <2>5, w \in Nat, MovedFine
  <2> QED
    BY <2>6
<1>9. v \in Tcb /\ v.nxt = nxt /\ v.state = s.state /\ v.dups = s.dups /\ v.recover = s.recover /\ v.rnxt = s.rnxt
  BY <1>2, <1>8 DEF Fine, Half, Frame, Fields
<1>10. Frame(s, v, AckSet)
  BY <1>8 DEF Frame, AckSet, Sent
<1>11. PICK m \in Nat \ {0}, c \in Nat \ {0}, th \in Nat \ {0} : m = v.mss /\ c = v.cwnd /\ th = v.ssthresh
  BY <1>9, TcbTypes
<1>12. PICK d : d = [v EXCEPT !.dups = 0]
  OBVIOUS
<1>13. Fine(o, d, r) /\ Grows(v, d) /\ Frame(v, d, {"dups"})
  <2>1. PICK z \in 0..4 : z = 0
    OBVIOUS
  <2> QED
    BY ONLY <1>8, <1>12, z \in 0..4, <2>1, DupsFine
<1>14. ASSUME NEW n \in Nat \ {0}, t = WithCwnd(d, n)
       PROVE  /\ Fine(o, t, r) /\ Grows(s, t) /\ Frame(s, t, AckSet)
              /\ t.una = p.ack /\ Total(t) = Total(s) /\ t.state \in {s.state, "closed"}
  <2>1. Fine(o, t, r) /\ Grows(d, t) /\ Frame(d, t, {"cwnd"})
    BY ONLY <1>13, <1>14, n \in Nat \ {0}, WithCwndFine
  <2>2. Frame(s, t, AckSet)
    BY <1>10, <1>13, <2>1 DEF Frame, AckSet, Sent
  <2>3. t.una = v.una /\ t.sbuf = v.sbuf /\ t.state = v.state
    BY <1>13, <2>1 DEF Frame, Fields
  <2>4. Grows(s, t)
    <3>1. d \in Tcb /\ t \in Tcb
      BY <1>13, <2>1 DEF Fine, Half
    <3> QED
      BY <1>0, <1>8, <1>9, <1>13, <2>1, <3>1, GrowsTrans
  <2> QED
    BY <1>1, <1>8, <1>9, <2>1, <2>2, <2>3, <2>4 DEF Total
<1>15. CASE s.dups >= 3 /\ p.ack >= s.recover
  <2>1. PICK n : n = Smaller(v.ssthresh, InFlight(v) + v.mss)
    OBVIOUS
  <2>2. t = WithCwnd(d, n)
    <3>1. v.ssthresh = s.ssthresh /\ v.mss = s.mss /\ v.nxt = s.nxt /\ v.una = p.ack
      BY <1>1, <1>8 DEF Frame, Fields
    <3>2. n = Smaller(s.ssthresh, Minus(s.nxt, p.ack) + s.mss)
      BY <2>1, <3>1 DEF InFlight
    <3>3. ~ (p.ack < s.recover)
      <4>1. s.recover \in Nat /\ p.ack \in Nat
        BY <1>0, <1>1, <1>3, TcbTypes
      <4> QED
        BY <1>15, <4>1
    <3> QED
      BY <1>0, <1>a, <1>7, <1>12, <1>15, <3>2, <3>3 DEF NewAck, InFlight, Tcb
  <2>3. InFlight(v) = nxt - a /\ nxt - a \in Nat
    BY <1>3, <1>8, <1>9, NoWrapping DEF InFlight
  <2>4. n \in Nat \ {0}
    BY <1>11, <2>1, <2>3 DEF Smaller
  <2> QED
    BY <1>14, <2>2, <2>4
<1>16. CASE s.dups >= 3 /\ p.ack < s.recover
  <2>1. PICK u : u = Retransmit(v)
    OBVIOUS
  <2>2. s.recover \in Nat /\ s.recover <= nxt
    BY <1>0, <1>2, TcbTypes DEF SndOK
  <2>3. a < s.recover
    BY <1>1, <1>16
  <2>4. v.nxt > v.una
    BY <1>3, <1>8, <1>9, <2>2, <2>3
  <2>5. /\ Fine(o, u, r) /\ Grows(v, u) /\ Frame(v, u, Sent \cup {"state"})
        /\ u.nxt > u.una /\ u.state \in {v.state, "closed"}
    <3>1. o \/ v.rnxt >= 1
      BY <1>9
    <3> QED
      BY ONLY o \in BOOLEAN, <1>8, <2>1, <2>4, <3>1, RetransmitFine
  <2>6. Frame(s, u, AckSet) /\ u.una = v.una /\ u.sbuf = v.sbuf
    <3>1. Frame(s, u, AckSet)
      BY <1>10, <2>5 DEF Frame, AckSet
    <3>2. u.una = v.una /\ u.sbuf = v.sbuf
      BY <2>5 DEF Frame, Fields, Sent
    <3> QED
      BY <3>1, <3>2
  <2>7. u \in Tcb
    BY <2>5 DEF Fine, Half
  <2>8. Grows(s, u)
    BY <1>0, <1>8, <1>9, <2>5, <2>7, GrowsTrans
  <2>9. CASE u.state = "closed"
    <3>1. t = u
      BY <1>a, <1>7, <1>16, <2>1, <2>9 DEF NewAck
    <3> QED
      BY <1>1, <1>8, <1>9, <2>5, <2>6, <2>8, <3>1 DEF Total
  <2>10. CASE u.state # "closed"
    <3>1. PICK n : n = u.cwnd + u.mss - Smaller(Minus(p.ack, s.una), u.cwnd)
      OBVIOUS
    <3>2. t = WithCwnd(u, n)
      BY <1>a, <1>7, <1>16, <2>1, <2>10, <3>1 DEF NewAck
    <3>3. n \in Nat \ {0}
      <4>1. PICK x \in Nat, y \in Nat, z \in Nat \ {0} : x = a - una /\ y = u.cwnd /\ z = u.mss
        BY <1>4, <2>7, TcbTypes
      <4>2. n = y + z - (IF x < y THEN x ELSE y)
        BY <1>4, <3>1, <4>1 DEF Smaller
      <4> QED
        BY <4>1, <4>2
    <3>4. Fine(o, t, r) /\ Grows(u, t) /\ Frame(u, t, {"cwnd"})
      BY ONLY <2>5, <3>2, <3>3, WithCwndFine
    <3>5. Frame(s, t, AckSet)
      BY <2>6, <3>4 DEF Frame, AckSet, Sent
    <3>6. t.una = u.una /\ t.sbuf = u.sbuf /\ t.state = u.state
      BY <3>4 DEF Frame, Fields
    <3>7. t \in Tcb
      BY <3>4 DEF Fine, Half
    <3>8. Grows(s, t)
      BY <1>0, <2>7, <2>8, <3>4, <3>7, GrowsTrans
    <3> QED
      BY <1>1, <1>8, <1>9, <2>5, <2>6, <3>4, <3>5, <3>6, <3>8 DEF Total
  <2> QED
    BY <2>9, <2>10
<1>17. CASE ~ (s.dups >= 3)
  <2>1. PICK n : n = v.cwnd + IF v.cwnd < v.ssthresh THEN v.mss ELSE Larger(1, (v.mss * v.mss) \div v.cwnd)
    OBVIOUS
  <2>2. t = WithCwnd(d, n)
    BY <1>a, <1>7, <1>12, <1>17, <2>1 DEF NewAck
  <2>3. n \in Nat \ {0}
    <3>1. PICK q \in Nat : q = m * m
      OBVIOUS
    <3>2. PICK x \in Nat : x = q \div c
      BY Div
    <3>3. n = c + IF c < th THEN m ELSE Larger(1, x)
      BY <1>11, <2>1, <3>1, <3>2
    <3> QED
      BY <3>3 DEF Larger
  <2> QED
    BY <1>14, <2>2, <2>3
<1>18. (s.dups >= 3 /\ p.ack >= s.recover) \/ (s.dups >= 3 /\ p.ack < s.recover) \/ ~ (s.dups >= 3)
  <2>1. s.recover \in Nat /\ p.ack \in Nat
    BY <1>0, <1>1, <1>3, TcbTypes
  <2> QED
    BY <2>1
<1> QED
  BY <1>15, <1>16, <1>17, <1>18

\* One that has been seen before opens the window, or is the third and sends a segment again.
LEMMA SameAckFine ==
  ASSUME NEW o \in BOOLEAN, NEW s, NEW r, Fine(o, s, r), NEW p, o \/ s.rnxt >= 1 \/ p.data # <<>>,
         Window(s, p) \in Nat, s.una + Window(s, p) <= Edge(r), NEW t
  PROVE  t = SameAck(s, p) =>
         /\ Fine(o, t, r) /\ Grows(s, t) /\ Frame(s, t, AckSet)
         /\ t.una = s.una /\ Total(t) = Total(s) /\ t.state \in {s.state, "closed"}
         /\ p.data # <<>> => Frame(s, t, {"wnd"})
<1>a. SUFFICES ASSUME t = SameAck(s, p)
      PROVE  /\ Fine(o, t, r) /\ Grows(s, t) /\ Frame(s, t, AckSet)
             /\ t.una = s.una /\ Total(t) = Total(s) /\ t.state \in {s.state, "closed"}
             /\ p.data # <<>> => Frame(s, t, {"wnd"})
  OBVIOUS
<1>0. s \in Tcb /\ r \in Tcb /\ SndOK(s)
  BY DEF Fine, Half
<1>1. PICK w \in Nat : w = Window(s, p)
  OBVIOUS
<1>2. PICK v : v = [s EXCEPT !.wnd = w]
  OBVIOUS
<1>3. Fine(o, v, r) /\ Grows(s, v) /\ Frame(s, v, {"wnd"})
  <2>1. s.una + w <= Edge(r)
    BY <1>1
  <2> QED
    BY ONLY Fine(o, s, r), w \in Nat, <1>2, <2>1, WndFine
<1>4. /\ v \in Tcb /\ v.una = s.una /\ v.sbuf = s.sbuf /\ v.nxt = s.nxt /\ v.dups = s.dups
      /\ v.state = s.state /\ v.rnxt = s.rnxt
  BY <1>3 DEF Fine, Half, Frame, Fields
<1>5. Frame(s, v, AckSet)
  BY <1>3 DEF Frame, AckSet
<1>6. CASE p.data # <<>>
  <2>1. t = v
    BY <1>a, <1>1, <1>2, <1>6 DEF SameAck
  <2> QED
    BY <1>3, <1>4, <1>5, <2>1 DEF Total
<1>7. CASE p.data = <<>> /\ s.una = s.nxt
  <2>1. PICK z \in 0..4 : z = 0
    OBVIOUS
  <2>2. t = [v EXCEPT !.dups = z]
    BY <1>a, <1>1, <1>2, <1>7, <2>1 DEF SameAck
  <2>3. Fine(o, t, r) /\ Grows(v, t) /\ Frame(v, t, {"dups"})
    BY ONLY <1>3, z \in 0..4, <2>2, DupsFine
  <2>4. t \in Tcb /\ t.una = v.una /\ t.sbuf = v.sbuf /\ t.state = v.state
    BY <2>3 DEF Fine, Half, Frame, Fields
  <2>5. Frame(s, t, AckSet)
    BY <1>5, <2>3 DEF Frame, AckSet
  <2>6. Grows(s, t)
    BY <1>0, <1>3, <1>4, <2>3, <2>4, GrowsTrans
  <2> QED
    BY <1>4, <1>7, <2>3, <2>4, <2>5, <2>6 DEF Total
<1>8. PICK k \in 0..4 : k = Smaller(s.dups + 1, 4)
  <2>1. s.dups \in 0..4
    BY <1>0, TcbTypes
  <2> QED
    BY <2>1 DEF Smaller
<1>9. PICK d : d = [v EXCEPT !.dups = k]
  OBVIOUS
<1>10. Fine(o, d, r) /\ Grows(v, d) /\ Frame(v, d, {"dups"})
  BY ONLY <1>3, k \in 0..4, <1>9, DupsFine
<1>11. /\ d \in Tcb /\ d.una = s.una /\ d.sbuf = s.sbuf /\ d.nxt = s.nxt
       /\ d.state = s.state /\ d.rnxt = s.rnxt
  BY <1>4, <1>10 DEF Fine, Half, Frame, Fields
<1>12. Frame(s, d, AckSet) /\ Grows(s, d)
  <2>1. Frame(s, d, AckSet)
    BY <1>5, <1>10 DEF Frame, AckSet
  <2>2. Grows(s, d)
    BY <1>0, <1>3, <1>4, <1>10, <1>11, GrowsTrans
  <2> QED
    BY <2>1, <2>2
<1>13. CASE p.data = <<>> /\ s.una # s.nxt /\ s.dups = 2
  <2>1. PICK u : u = Retransmit(d)
    OBVIOUS
  <2>2. d.nxt > d.una
    BY <1>0, <1>11, <1>13, TcbTypes DEF SndOK
  <2>3. /\ Fine(o, u, r) /\ Grows(d, u) /\ Frame(d, u, Sent \cup {"state"})
        /\ u.nxt > u.una /\ u.state \in {d.state, "closed"}
    <3>1. o \/ d.rnxt >= 1
      BY <1>11, <1>13
    <3> QED
      BY ONLY o \in BOOLEAN, <1>10, <2>1, <2>2, <3>1, RetransmitFine
  <2>4. u \in Tcb /\ u.una = d.una /\ u.sbuf = d.sbuf
    BY <2>3 DEF Fine, Half, Frame, Fields, Sent
  <2>5. Frame(s, u, AckSet)
    BY <1>12, <2>3 DEF Frame, AckSet
  <2>6. Grows(s, u)
    BY <1>0, <1>11, <1>12, <2>3, <2>4, GrowsTrans
  <2>7. CASE u.state = "closed"
    <3>1. t = u
      BY <1>a, <1>1, <1>2, <1>4, <1>8, <1>9, <1>13, <2>1, <2>7 DEF SameAck
    <3> QED
      BY <1>11, <1>13, <2>3, <2>4, <2>5, <2>6, <3>1 DEF Total
  <2>8. CASE u.state # "closed"
    <3>1. PICK sst : sst = Larger(InFlight(u) \div 2, 2 * u.mss)
      OBVIOUS
    <3>2. sst \in Nat \ {0}
      <4>1. PICK x \in Nat, y \in Nat, m \in Nat \ {0} : x = u.nxt /\ y = u.una /\ m = u.mss
        BY <2>4, TcbTypes
      <4>2. y <= x /\ x < SeqRange
        <5>1. y <= x /\ x <= Total(u) /\ Total(u) < SeqRange
          BY <2>3, <4>1 DEF Fine, Half, SndOK
        <5>2. Total(u) \in Nat /\ SeqRange \in Nat
          BY <2>4, TcbTypes, Consts
        <5> QED
          BY <5>1, <5>2
      <4>3. InFlight(u) = x - y
        BY <4>1, <4>2, NoWrapping DEF InFlight
      <4>4. PICK z \in Nat : z = x - y
        BY <4>2
      <4>5. sst = Larger(z \div 2, 2 * m)
        BY <3>1, <4>1, <4>3, <4>4
      <4>6. z \div 2 \in Nat /\ 2 * m \in Nat \ {0}
        OBVIOUS
      <4> QED
        BY <4>5, <4>6 DEF Larger
    <3>3. PICK x : x = [u EXCEPT !.recover = u.nxt, !.ssthresh = sst]
      OBVIOUS
    <3>4. t = WithCwnd(x, sst + 3 * u.mss)
      BY <1>a, <1>1, <1>2, <1>4, <1>8, <1>9, <1>13, <2>1, <2>8, <3>1, <3>3 DEF SameAck
    <3>5. x \in Tcb /\ x.recover = u.nxt
      <4>1. u.nxt \in Nat
        BY <2>4, TcbTypes
      <4> QED
        BY <2>4, <3>2, <3>3, <4>1 DEF Tcb
    <3>6. Frame(u, x, {"recover", "ssthresh"})
      BY <2>4, <3>3 DEF Tcb, Frame, Fields
    <3>7. Fine(o, x, r) /\ Grows(u, x)
      <4>1. Frame(u, x, Soft)
        BY <3>6 DEF Frame, Soft
      <4>2. x.nxt = u.nxt /\ x.cwnd = u.cwnd /\ x.mss = u.mss /\ x.level = u.level
        BY <3>6 DEF Frame, Fields
      <4>3. CcOK(x) /\ x.recover <= x.nxt
        <5>1. u.nxt \in Nat
          BY <2>4, TcbTypes
        <5> QED
          BY <2>3, <3>5, <4>2, <5>1 DEF CcOK, Fine, Half
      <4> QED
        BY <2>3, <3>5, <4>1, <4>3, SoftFine
    <3>8. PICK n \in Nat \ {0} : n = sst + 3 * u.mss
      BY <2>4, <3>2, TcbTypes
    <3>9. Fine(o, t, r) /\ Grows(x, t) /\ Frame(x, t, {"cwnd"})
      BY ONLY <3>7, n \in Nat \ {0}, <3>4, <3>8, WithCwndFine
    <3>10. Frame(s, t, AckSet)
      BY <2>5, <3>6, <3>9 DEF Frame, AckSet, Sent
    <3>11. t.una = u.una /\ t.sbuf = u.sbuf /\ t.state = u.state
      BY <3>6, <3>9 DEF Frame, Fields
    <3>12. Grows(s, t)
      <4>1. t \in Tcb
        BY <3>9 DEF Fine, Half
      <4>2. Grows(s, x)
        BY <1>0, <2>4, <2>6, <3>5, <3>7, GrowsTrans
      <4> QED
        BY <1>0, <3>5, <3>9, <4>1, <4>2, GrowsTrans
    <3> QED
      BY <1>11, <1>13, <2>3, <2>4, <3>9, <3>10, <3>11, <3>12 DEF Total
  <2> QED
    BY <2>7, <2>8
<1>14. CASE p.data = <<>> /\ s.una # s.nxt /\ s.dups # 2
  <2>1. t = IF s.dups > 2 THEN WithCwnd(d, d.cwnd + d.mss) ELSE d
    BY <1>a, <1>1, <1>2, <1>4, <1>8, <1>9, <1>14 DEF SameAck
  <2>2. CASE s.dups > 2
    <3>1. PICK n \in Nat \ {0} : n = d.cwnd + d.mss
      <4>1. d.cwnd \in Nat \ {0} /\ d.mss \in Nat \ {0}
        BY <1>11, TcbTypes
      <4> QED
        BY <4>1
    <3>2. t = WithCwnd(d, n)
      BY <2>1, <2>2, <3>1
    <3>3. Fine(o, t, r) /\ Grows(d, t) /\ Frame(d, t, {"cwnd"})
      BY ONLY <1>10, n \in Nat \ {0}, <3>2, WithCwndFine
    <3>4. Frame(s, t, AckSet)
      BY <1>12, <3>3 DEF Frame, AckSet, Sent
    <3>5. t.una = d.una /\ t.sbuf = d.sbuf /\ t.state = d.state
      BY <3>3 DEF Frame, Fields
    <3>6. Grows(s, t)
      <4>1. t \in Tcb
        BY <3>3 DEF Fine, Half
      <4> QED
        BY <1>0, <1>11, <1>12, <3>3, <4>1, GrowsTrans
    <3> QED
      BY <1>11, <1>14, <3>3, <3>4, <3>5, <3>6 DEF Total
  <2>3. CASE ~ (s.dups > 2)
    <3>1. t = d
      BY <2>1, <2>3
    <3> QED
      BY <1>10, <1>11, <1>12, <1>14, <3>1 DEF Total
  <2> QED
    BY <2>2, <2>3
<1> QED
  BY <1>6, <1>7, <1>13, <1>14

\* What process does with an acknowledgement, whichever it is.
LEMMA TakeAckFine ==
  ASSUME NEW o \in BOOLEAN, NEW s, NEW r, Fine(o, s, r), NEW q, NEW p \in FromTo(q, r, s),
         o \/ s.rnxt >= 1 \/ (p.ack = s.una /\ p.data # <<>>), NEW t
  PROVE  t = TakeAck(s, p) =>
         /\ Fine(o, t, r) /\ Grows(s, t) /\ Frame(s, t, AckSet)
         /\ p.ack <= t.una /\ t.una \in {s.una, p.ack}
         /\ Total(t) = Total(s) /\ t.state \in {s.state, "closed"}
         /\ p.ack = s.una /\ p.data # <<>> => Frame(s, t, {"wnd"})
<1>a. SUFFICES ASSUME t = TakeAck(s, p)
      PROVE  /\ Fine(o, t, r) /\ Grows(s, t) /\ Frame(s, t, AckSet)
             /\ p.ack <= t.una /\ t.una \in {s.una, p.ack}
             /\ Total(t) = Total(s) /\ t.state \in {s.state, "closed"}
             /\ p.ack = s.una /\ p.data # <<>> => Frame(s, t, {"wnd"})
  OBVIOUS
<1>0. s \in Tcb /\ r \in Tcb
  BY DEF Fine, Half
<1>1. p.ack \in Points(s) /\ p.ack <= r.rnxt
  BY DEF FromTo
<1>2. Window(s, p) \in Nat /\ p.ack \in Nat /\ p.ack + Window(s, p) <= Edge(r)
  BY <1>0, WindowFacts
<1>3. p.ack <= s.nxt /\ s.una \in Nat /\ s.nxt \in Nat
  BY <1>0, <1>1, PointsFacts, TcbTypes DEF Fine
<1>4. CASE p.ack > s.una
  <2>1. t = NewAck(s, p)
    BY <1>a, <1>2, <1>3, <1>4 DEF TakeAck
  <2>2. o \/ s.rnxt >= 1
    BY <1>2, <1>3, <1>4
  <2>3. Fine(o, s, r) /\ o \in BOOLEAN
    OBVIOUS
  <2>4. /\ Fine(o, t, r) /\ Grows(s, t) /\ Frame(s, t, AckSet)
        /\ t.una = p.ack /\ Total(t) = Total(s) /\ t.state \in {s.state, "closed"}
    BY ONLY <1>1, <1>2, <1>4, <2>1, <2>2, <2>3, NewAckFine
  <2>5. p.ack # s.una /\ p.ack <= p.ack
    BY <1>2, <1>3, <1>4
  <2> QED
    BY <2>4, <2>5
<1>5. CASE p.ack = s.una
  <2>1. t = SameAck(s, p)
    BY <1>a, <1>2, <1>3, <1>5 DEF TakeAck
  <2>2. o \/ s.rnxt >= 1 \/ p.data # <<>>
    OBVIOUS
  <2>3. Fine(o, s, r) /\ o \in BOOLEAN /\ s.una + Window(s, p) <= Edge(r)
    BY <1>2, <1>5
  <2>4. /\ Fine(o, t, r) /\ Grows(s, t) /\ Frame(s, t, AckSet)
        /\ t.una = s.una /\ Total(t) = Total(s) /\ t.state \in {s.state, "closed"}
        /\ p.data # <<>> => Frame(s, t, {"wnd"})
    BY ONLY <1>2, <2>1, <2>2, <2>3, SameAckFine
  <2>5. p.ack <= s.una
    BY <1>2, <1>3, <1>5
  <2> QED
    BY <2>4, <2>5
<1>6. CASE p.ack < s.una
  <2>1. t = s
    BY <1>a, <1>2, <1>3, <1>6 DEF TakeAck
  <2>2. p.ack # s.una /\ p.ack <= s.una
    BY <1>2, <1>3, <1>6
  <2> QED
    BY <1>0, <2>1, <2>2, GrowsRefl DEF Frame
<1> QED
  BY <1>2, <1>3, <1>4, <1>5, <1>6

\* The application is told that it may write as soon as half of m_sbuf is free.
LEMMA NotifyFine ==
  ASSUME NEW o, NEW s, NEW r, Fine(o, s, r), NEW t
  PROVE  t = NotifyWriteable(s) =>
         /\ Fine(o, t, r) /\ Grows(s, t) /\ Frame(s, t, {"writeEnable", "writable"})
         /\ t.writeEnable /\ ~ t.writable => Len(t.sbuf) >= (SndBuf + RcvBuf) \div 2
         /\ t.writeEnable = s.writeEnable \/ t.writable = TRUE
         /\ s.writable => t.writable
<1>a. SUFFICES ASSUME t = NotifyWriteable(s)
      PROVE  /\ Fine(o, t, r) /\ Grows(s, t) /\ Frame(s, t, {"writeEnable", "writable"})
             /\ t.writeEnable /\ ~ t.writable => Len(t.sbuf) >= (SndBuf + RcvBuf) \div 2
             /\ t.writeEnable = s.writeEnable \/ t.writable = TRUE
             /\ s.writable => t.writable
  OBVIOUS
<1>0. s \in Tcb /\ r \in Tcb
  BY DEF Fine, Half
<1>1. PICK b \in Nat, c \in Nat : b = SndBuf /\ c = RcvBuf
  BY Consts
<1>2. PICK len \in Nat, m \in Nat : len = Len(s.sbuf) /\ m = (SndBuf + RcvBuf) \div 2
  <2>1. (b + c) \div 2 \in Nat
    OBVIOUS
  <2> QED
    BY <1>0, <1>1, <2>1, TcbTypes
<1>3. CASE s.writeEnable /\ len < m
  <2>1. t = [s EXCEPT !.writeEnable = FALSE, !.writable = TRUE]
    BY <1>a, <1>2, <1>3 DEF NotifyWriteable
  <2>2. t \in Tcb /\ t.writeEnable = FALSE /\ t.writable = TRUE
    BY <1>0, <2>1 DEF Tcb
  <2>3. Frame(s, t, {"writeEnable", "writable"})
    BY <1>0, <2>1 DEF Tcb, Frame, Fields
  <2>4. Frame(s, t, Soft)
    BY <2>3 DEF Frame, Soft
  <2>5. t.nxt = s.nxt /\ t.cwnd = s.cwnd /\ t.mss = s.mss /\ t.level = s.level /\ t.recover = s.recover
    BY <2>3 DEF Frame, Fields
  <2>6. CcOK(t) /\ t.recover <= t.nxt
    BY <2>5 DEF Fine, Half, CcOK, SndOK
  <2>7. Fine(o, t, r) /\ Grows(s, t)
    BY <2>2, <2>4, <2>6, SoftFine
  <2> QED
    BY <2>2, <2>3, <2>7
<1>4. CASE ~ (s.writeEnable /\ len < m)
  <2>1. t = s
    BY <1>a, <1>2, <1>4 DEF NotifyWriteable
  <2>2. t.writeEnable => len >= m
    BY <1>4, <2>1
  <2> QED
    BY <1>0, <1>2, <2>1, <2>2, GrowsRefl DEF Frame
<1> QED
  BY <1>3, <1>4

-------------------------------------------------------------------------------
\* Receiving: the data of a packet, and what is kept for later.

\* What data that has been received changes.
RcvSet == {"rbuf", "stash", "rnxt", "rwnd", "rlist"}

\* An end that has received more, of what the peer has sent, agrees with it.
LEMMA TakenFine ==
  ASSUME NEW o, NEW s, NEW r, Fine(o, s, r), NEW t \in Tcb, Frame(s, t, RcvSet), RcvOK(t),
         s.rnxt <= t.rnxt, Edge(s) <= Edge(t), t.rnxt \in Points(r),
         \A i \in 1..Len(t.rlist) : t.rlist[i].seq + t.rlist[i].len \in Points(r),
         o /\ t.rnxt >= 1 => s.una >= 1
  PROVE  Fine(o, t, r) /\ Grows(s, t)
<1>0. s \in Tcb /\ r \in Tcb
  BY DEF Fine, Half
<1>1. /\ t.slist = s.slist /\ t.sbuf = s.sbuf /\ t.una = s.una /\ t.nxt = s.nxt
      /\ t.rto = s.rto /\ t.recover = s.recover /\ t.wnd = s.wnd
  BY DEF Frame, Fields, RcvSet
<1>2. t.cwnd = s.cwnd /\ t.mss = s.mss /\ t.level = s.level /\ t.out = s.out
  BY DEF Frame, Fields, RcvSet
<1>3. Total(t) = Total(s) /\ Points(t) = Points(s)
  BY <1>1 DEF Total, Points
<1>4. /\ s.nxt \in Nat /\ s.una \in Nat /\ s.rnxt \in Nat /\ t.rnxt \in Nat /\ Edge(s) \in Nat /\ Edge(t) \in Nat
      /\ r.nxt \in Nat /\ r.una \in Nat /\ r.wnd \in Nat
  BY <1>0, TcbTypes
<1>5. Grows(s, t)
  BY <1>1, <1>3, <1>4 DEF Grows
<1>6. Half(t)
  <2>1. SndOK(t)
    BY <1>1, <1>3 DEF Fine, Half, SndOK
  <2>2. CcOK(t)
    BY <1>2 DEF Fine, Half, CcOK
  <2> QED
    BY <2>1, <2>2 DEF Half
<1>7. Peered(t, r)
  BY <1>1, <1>3 DEF Fine, Peered
<1>8. Peered(r, t)
  <2>1. r.nxt <= Edge(s) /\ r.una <= s.rnxt
    BY DEF Fine, Peered
  <2>2. r.una + r.wnd <= Edge(s)
    BY DEF Fine, Peered
  <2>3. r.nxt <= Edge(t) /\ r.una <= t.rnxt /\ r.una + r.wnd <= Edge(t)
    BY <1>4, <2>1, <2>2
  <2> QED
    BY <2>3 DEF Peered
<1>9. t.out \in Seq(FromTo(o, t, r))
  <2>1. FromTo(o, s, r) \subseteq FromTo(o, t, r)
    BY <1>0, <1>5, FromToGrows
  <2> QED
    BY <1>2, <2>1, SeqMono DEF Fine
<1> QED
  BY <1>1, <1>5, <1>6, <1>7, <1>8, <1>9 DEF Fine

\* What Consume takes of m_rbuf: n units behind its data, which may not have been written.
FromStash(stash, n) == [i \in 1..n |-> IF i <= Len(stash) THEN stash[i] ELSE Garbage]

\* Data that continues what has been received moves to m_rbuf, with what has been kept behind
\* it; the right edge of the window stays.
LEMMA ConsumeFine ==
  ASSUME NEW o, NEW s, NEW r, Fine(o, s, r), NEW n \in Nat \ {0}, n <= s.rwnd,
         s.rnxt + n \in Points(r), s.rnxt >= 1, NEW t
  PROVE  t = Consume(s, n) =>
         /\ Fine(o, t, r) /\ Grows(s, t) /\ Frame(s, t, RcvSet) /\ t.rlist = s.rlist
         /\ t.rnxt = s.rnxt + n /\ Len(t.rbuf) = Len(s.rbuf) + n /\ Edge(t) = Edge(s)
         /\ \A i \in 1..Len(s.rbuf) : t.rbuf[i] = s.rbuf[i]
         /\ \A i \in 1..n : i <= Len(s.stash) => t.rbuf[Len(s.rbuf) + i] = s.stash[i]
         /\ \A i \in Nat \ {0} : i + n <= Len(s.stash) => i <= Len(t.stash) /\ t.stash[i] = s.stash[i + n]
<1>a. SUFFICES ASSUME t = Consume(s, n)
      PROVE  /\ Fine(o, t, r) /\ Grows(s, t) /\ Frame(s, t, RcvSet) /\ t.rlist = s.rlist
             /\ t.rnxt = s.rnxt + n /\ Len(t.rbuf) = Len(s.rbuf) + n /\ Edge(t) = Edge(s)
             /\ \A i \in 1..Len(s.rbuf) : t.rbuf[i] = s.rbuf[i]
             /\ \A i \in 1..n : i <= Len(s.stash) => t.rbuf[Len(s.rbuf) + i] = s.stash[i]
             /\ \A i \in Nat \ {0} : i + n <= Len(s.stash) => i <= Len(t.stash) /\ t.stash[i] = s.stash[i + n]
  OBVIOUS
<1>0. s \in Tcb /\ r \in Tcb
  BY DEF Fine, Half
<1>1. PICK rnxt \in Nat, rwnd \in Nat, len \in Nat, kept \in Nat, cap \in Nat :
        rnxt = s.rnxt /\ rwnd = s.rwnd /\ len = Len(s.rbuf) /\ kept = Len(s.stash) /\ cap = RcvBuf
  BY <1>0, TcbTypes, Consts
<1>2. n <= rwnd /\ rwnd + len <= cap /\ kept + len <= cap /\ rnxt >= 1
  BY <1>1 DEF Fine, Half, RcvOK
<1>3. PICK f : f = FromStash(s.stash, n)
  OBVIOUS
<1>4. s.stash \in Seq(Int) /\ s.rbuf \in Seq(Int) /\ \A i \in 1..kept : s.stash[i] \in Int
  BY <1>0, <1>1, TcbTypes, ElementOfSeq
<1>5. /\ f \in Seq(Int) /\ Len(f) = n /\ \A i \in 1..n : i <= kept => f[i] = s.stash[i]
  <2>1. f = [i \in 1..n |-> IF i <= kept THEN s.stash[i] ELSE Garbage]
    BY <1>1, <1>3 DEF FromStash
  <2>2. \A i \in 1..n : (IF i <= kept THEN s.stash[i] ELSE Garbage) \in Int
    BY <1>4 DEF Garbage
  <2>3. f \in [1..n -> Int]
    BY <2>1, <2>2
  <2>4. f \in Seq(Int) /\ Len(f) = n
    BY <2>3, SeqDef, LenProperties
  <2> QED
    BY <2>1, <2>4
<1>6. PICK b : b = s.rbuf \o f
  OBVIOUS
<1>7. /\ b \in Seq(Int) /\ Len(b) = len + n
      /\ \A i \in 1..len : b[i] = s.rbuf[i]
      /\ \A i \in 1..n : b[len + i] = f[i]
  <2>1. /\ b \in Seq(Int) /\ Len(b) = len + n
        /\ \A i \in 1..len + n : b[i] = IF i <= len THEN s.rbuf[i] ELSE f[i - len]
    <3>1. PICK q : q = s.rbuf
      OBVIOUS
    <3>2. /\ b \in Seq(Int) /\ Len(b) = Len(q) + Len(f)
          /\ \A i \in 1..Len(q) + Len(f) : b[i] = IF i <= Len(q) THEN q[i] ELSE f[i - Len(q)]
      <4>1. q \in Seq(Int) /\ f \in Seq(Int) /\ b = q \o f
        BY <1>4, <1>5, <1>6, <3>1
      <4> QED
        BY ONLY <4>1, ConcatProperties
    <3> QED
      BY <1>1, <1>5, <3>1, <3>2
  <2>2. \A i \in 1..len : b[i] = s.rbuf[i]
    BY <2>1
  <2>3. \A i \in 1..n : b[len + i] = f[i]
    <3> TAKE i \in 1..n
    <3>1. len + i \in 1..len + n /\ ~ (len + i <= len) /\ (len + i) - len = i
      OBVIOUS
    <3> QED
      BY <2>1, <3>1
  <2> QED
    BY <2>1, <2>2, <2>3
<1>8. PICK h : h = SubSeq(s.stash, n + 1, kept)
  OBVIOUS
<1>9. /\ h \in Seq(Int) /\ Len(h) = (IF n + 1 <= kept THEN kept - n ELSE 0)
      /\ \A i \in Nat \ {0} : i + n <= kept => i <= Len(h) /\ h[i] = s.stash[i + n]
  <2>0. PICK q : q = s.stash
    OBVIOUS
  <2>1. \A i \in n + 1..kept : q[i] \in Int
    BY <1>4, <2>0
  <2>2. h = SubSeq(q, n + 1, kept) /\ n + 1 \in Int /\ kept \in Int
    BY <1>8, <2>0
  <2>3. /\ h \in Seq(Int) /\ Len(h) = (IF n + 1 <= kept THEN kept - (n + 1) + 1 ELSE 0)
        /\ \A i \in 1..kept - (n + 1) + 1 : h[i] = q[n + 1 + i - 1]
    BY ONLY <2>1, <2>2, SubSeqProperties
  <2>4. Len(h) = (IF n + 1 <= kept THEN kept - n ELSE 0)
    BY <2>3
  <2>5. \A i \in Nat \ {0} : i + n <= kept => i <= Len(h) /\ h[i] = s.stash[i + n]
    <3> TAKE i \in Nat \ {0}
    <3> HAVE i + n <= kept
    <3>1. i \in 1..kept - (n + 1) + 1 /\ n + 1 + i - 1 = i + n /\ n + 1 <= kept /\ i <= kept - n
      OBVIOUS
    <3> QED
      BY <2>0, <2>3, <2>4, <3>1
  <2> QED
    BY <2>3, <2>4, <2>5
<1>10. rnxt + n \in Nat /\ rwnd - n \in Nat /\ rnxt + n < SeqRange
  <2>1. rnxt + n <= r.nxt /\ r.nxt <= Total(r) /\ Total(r) < SeqRange
    BY <1>1, PointsFacts DEF Fine, Half, SndOK
  <2>2. r.nxt \in Nat /\ Total(r) \in Nat /\ SeqRange \in Nat
    BY <1>0, TcbTypes, Consts
  <2> QED
    BY <1>2, <2>1, <2>2
<1>11. PICK x \in Nat, w \in Nat : x = rnxt + n /\ w = rwnd - n
  BY <1>10
<1>12. t = [s EXCEPT !.rbuf = b, !.stash = h, !.rnxt = x, !.rwnd = w]
  <2>1. Plus(s.rnxt, n) = x
    BY <1>1, <1>10, <1>11, NoWrapping
  <2> QED
    BY <1>a, <1>1, <1>3, <1>6, <1>8, <1>11, <2>1 DEF Consume, FromStash
<1>13. t \in Tcb
  <2>1. PICK u : u = [s EXCEPT !.rbuf = b, !.stash = h]
    OBVIOUS
  <2>2. u \in Tcb
    BY ONLY <1>0, <1>7, <1>9, <2>1 DEF Tcb
  <2>3. t = [u EXCEPT !.rnxt = x, !.rwnd = w]
    BY <1>0, <1>12, <2>1 DEF Tcb
  <2> QED
    BY ONLY <2>2, <2>3, x \in Nat, w \in Nat DEF Tcb
<1>14. t.rbuf = b /\ t.stash = h /\ t.rnxt = x /\ t.rwnd = w /\ t.rlist = s.rlist
  BY <1>0, <1>12 DEF Tcb
<1>15. Frame(s, t, RcvSet)
  BY <1>0, <1>12 DEF Tcb, Frame, Fields, RcvSet
<1>16. RcvOK(t)
  <2>1. w + Len(b) <= RcvBuf
    BY <1>1, <1>2, <1>7, <1>11, SMTT(30)
  <2>2. Len(h) + Len(b) <= RcvBuf
    <3>1. PICK y \in Nat : y = Len(h)
      BY <1>9
    <3>2. y + (len + n) <= cap
      BY <1>2, <1>9, <3>1
    <3> QED
      BY <1>1, <1>7, <3>1, <3>2
  <2>3. x # 0
    BY <1>2, <1>11
  <2> QED
    BY <1>14, <2>1, <2>2, <2>3 DEF RcvOK
<1>17. Edge(t) = Edge(s)
  <2>1. x + w = rnxt + rwnd
    BY <1>11
  <2> QED
    BY <1>1, <1>14, <2>1 DEF Edge
<1>18. Fine(o, t, r) /\ Grows(s, t)
  <2>1. s.rnxt <= t.rnxt /\ Edge(s) <= Edge(t)
    <3>1. Edge(s) \in Nat
      BY <1>0, TcbTypes
    <3> QED
      BY <1>1, <1>11, <1>14, <1>17, <3>1
  <2>2. t.rnxt \in Points(r)
    BY <1>1, <1>11, <1>14
  <2>3. \A i \in 1..Len(t.rlist) : t.rlist[i].seq + t.rlist[i].len \in Points(r)
    BY <1>14 DEF Fine, Peered
  <2>4. o /\ t.rnxt >= 1 => s.una >= 1
    BY DEF Fine
  <2>5. Fine(o, s, r)
    OBVIOUS
  <2> QED
    BY ONLY <1>13, <1>15, <1>16, <2>1, <2>2, <2>3, <2>4, <2>5, TakenFine
<1>19. t.rnxt = s.rnxt + n /\ Len(t.rbuf) = Len(s.rbuf) + n
  BY <1>1, <1>7, <1>11, <1>14
<1>20. \A i \in 1..Len(s.rbuf) : t.rbuf[i] = s.rbuf[i]
  BY <1>1, <1>7, <1>14
<1>21. \A i \in 1..n : i <= Len(s.stash) => t.rbuf[Len(s.rbuf) + i] = s.stash[i]
  BY <1>1, <1>5, <1>7, <1>14
<1>22. \A i \in Nat \ {0} : i + n <= Len(s.stash) => i <= Len(t.stash) /\ t.stash[i] = s.stash[i + n]
  BY <1>1, <1>9, <1>14
<1> QED
  BY <1>14, <1>15, <1>17, <1>18, <1>19, <1>20, <1>21, <1>22

\* If it is where it belongs, so are m_rbuf and what is kept for later afterwards.
LEMMA ConsumeKept ==
  ASSUME NEW s \in Tcb, NEW t \in Tcb, NEW n \in Nat \ {0}, NEW c \in Nat,
         c + Len(s.rbuf) + 1 = s.rnxt, Stream(s, c), Kept(s, s.rnxt + 1),
         \A j \in 1..n : Held(s, s.rnxt + j - 1),
         t.rlist = s.rlist, t.rnxt = s.rnxt + n, Len(t.rbuf) = Len(s.rbuf) + n,
         \A i \in 1..Len(s.rbuf) : t.rbuf[i] = s.rbuf[i],
         \A i \in 1..n : i <= Len(s.stash) => t.rbuf[Len(s.rbuf) + i] = s.stash[i],
         \A i \in Nat \ {0} : i + n <= Len(s.stash) => i <= Len(t.stash) /\ t.stash[i] = s.stash[i + n]
  PROVE  c + Len(t.rbuf) + 1 = t.rnxt /\ Stream(t, c) /\ Kept(t, t.rnxt)
<1>1. PICK rnxt \in Nat, len \in Nat, kept \in Nat : rnxt = s.rnxt /\ len = Len(s.rbuf) /\ kept = Len(s.stash)
  BY TcbTypes
<1>2. c + len + 1 = rnxt /\ t.rnxt = rnxt + n /\ Len(t.rbuf) = len + n
  BY <1>1
<1>3. Stream(t, c)
  <2>1. ASSUME NEW i \in 1..len + n PROVE t.rbuf[i] = c + i
    <3>1. CASE i <= len
      BY <1>1, <3>1 DEF Stream
    <3>2. CASE ~ (i <= len)
      <4>1. PICK j \in 1..n : i = len + j
        BY <3>2
      <4>2. rnxt + j - 1 - rnxt + 1 = j /\ rnxt + j - 1 = c + i
        BY <1>2, <4>1
      <4>3. j <= kept /\ s.stash[j] = rnxt + j - 1
        <5>1. PICK x \in Nat : x = rnxt + j - 1
          BY <4>1
        <5>2. Held(s, x) /\ x - rnxt + 1 = j
          BY <1>1, <4>1, <5>1
        <5> QED
          BY <1>1, <5>1, <5>2 DEF Held
      <4>4. t.rbuf[len + j] = s.stash[j]
        BY <1>1, <4>3
      <4> QED
        BY <4>1, <4>2, <4>3, <4>4
    <3> QED
      BY <3>1, <3>2
  <2> QED
    BY <1>2, <2>1 DEF Stream
<1>4. Kept(t, t.rnxt)
  <2>1. ASSUME NEW i \in 1..Len(s.rlist), NEW x \in s.rlist[i].seq..s.rlist[i].seq + s.rlist[i].len - 1,
               x >= rnxt + n
        PROVE  Held(t, x)
    <3>0. s.rlist[i].seq \in Nat /\ s.rlist[i].len \in Nat
      <4>1. s.rlist[i] \in RangeType
        BY TcbTypes, ElementOfSeq
      <4> QED
        BY <4>1 DEF RangeType
    <3>1. x \in Nat
      BY <3>0
    <3>2. x >= rnxt + 1
      BY <2>1, <3>1
    <3>3. Held(s, x)
      BY <1>1, <3>2 DEF Kept
    <3>4. PICK y \in Nat \ {0} : y = x - (rnxt + n) + 1
      BY <2>1, <3>1
    <3>5. y + n = x - rnxt + 1
      BY <3>1, <3>4
    <3>6. y + n <= kept /\ s.stash[y + n] = x
      BY <1>1, <3>3, <3>5 DEF Held
    <3>7. y <= Len(t.stash) /\ t.stash[y] = x
      BY <1>1, <3>6
    <3> QED
      BY <1>2, <3>4, <3>7 DEF Held
  <2> QED
    BY <1>2, <2>1 DEF Kept
<1>5. c + Len(t.rbuf) + 1 = t.rnxt
  BY <1>2
<1> QED
  BY <1>3, <1>4, <1>5

\* What has been received of the stream that begins behind the first c units and the connect message.
Follows(s, c) == c + Len(s.rbuf) + 1 = s.rnxt /\ Stream(s, c)

\* If k holds, so does that, and all that has been kept is where it belongs.
Known(k, s, c) == k => Follows(s, c) /\ Kept(s, s.rnxt)

\* A range of m_rlist that what has been received reaches moves to m_rbuf, or is dropped if all
\* of it has been received otherwise.
LEMMA RecoverFirstFine ==
  ASSUME NEW o, NEW r, NEW x, Fine(o, x.tcb, r), x.tcb.rnxt >= 1, x.flag \in Flags, NEW c \in Nat, NEW k \in BOOLEAN,
         Known(k, x.tcb, c), NEW y
  PROVE  y = RecoverFirst(x) =>
         /\ Fine(o, y.tcb, r) /\ Grows(x.tcb, y.tcb) /\ Frame(x.tcb, y.tcb, RcvSet) /\ y.flag \in Flags
         /\ y.tcb.rnxt >= 1 /\ y.tcb.rnxt + Len(x.tcb.rbuf) = x.tcb.rnxt + Len(y.tcb.rbuf)
         /\ Known(k, y.tcb, c)
<1>a. SUFFICES ASSUME y = RecoverFirst(x)
      PROVE  /\ Fine(o, y.tcb, r) /\ Grows(x.tcb, y.tcb) /\ Frame(x.tcb, y.tcb, RcvSet) /\ y.flag \in Flags
             /\ y.tcb.rnxt >= 1 /\ y.tcb.rnxt + Len(x.tcb.rbuf) = x.tcb.rnxt + Len(y.tcb.rbuf)
             /\ Known(k, y.tcb, c)
  OBVIOUS
<1>b. PICK s : s = x.tcb
  OBVIOUS
<1>c. k => c + Len(s.rbuf) + 1 = s.rnxt /\ Stream(s, c) /\ Kept(s, s.rnxt)
  BY <1>b DEF Follows, Known
<1>0. s \in Tcb /\ r \in Tcb /\ Fine(o, s, r) /\ s.rnxt >= 1
  BY <1>b DEF Fine, Half
<1>1. PICK rnxt \in Nat, len \in Nat, edge \in Nat : rnxt = s.rnxt /\ len = Len(s.rbuf) /\ edge = Edge(s)
  BY <1>0, TcbTypes
<1>2. s.rlist \in Seq(RangeType) /\ Len(s.rlist) \in Nat
  BY <1>0, TcbTypes
<1>3. CASE s.rlist = <<>> \/ Head(s.rlist).seq > s.rnxt
  <2>1. y = x
    <3>1. s.rlist # <<>> => Head(s.rlist).seq \in Nat
      <4>1. s.rlist # <<>> => Head(s.rlist) \in RangeType
        BY <1>2, HeadTailProperties
      <4> QED
        BY <4>1 DEF RangeType
    <3>2. s.rlist = <<>> \/ ~ (Head(s.rlist).seq <= s.rnxt)
      BY <1>1, <1>3, <3>1
    <3> QED
      BY <1>a, <1>b, <1>3, <3>2 DEF RecoverFirst
  <2>2. Frame(s, s, RcvSet) /\ Grows(s, s)
    BY <1>0, GrowsRefl DEF Frame
  <2> QED
    BY <1>b, <1>0, <1>1, <2>1, <2>2
<1>4. CASE s.rlist # <<>> /\ ~ (Head(s.rlist).seq > s.rnxt)
  <2>1. PICK h, tail : h = Head(s.rlist) /\ tail = Tail(s.rlist)
    OBVIOUS
  <2>2. h \in RangeType /\ tail \in Seq(RangeType) /\ Len(tail) = Len(s.rlist) - 1
        /\ \A i \in 1..Len(tail) : tail[i] = s.rlist[i + 1]
    BY <1>2, <1>4, <2>1, HeadTailProperties
  <2>3. h = s.rlist[1] /\ 1 \in 1..Len(s.rlist) /\ \A i \in 1..Len(tail) : i + 1 \in 1..Len(s.rlist)
    <3>1. Len(s.rlist) # 0
      BY <1>2, <1>4, EmptySeq
    <3> QED
      BY <1>2, <2>1, <2>2, <3>1
  <2>4. PICK q \in Nat, m \in Nat \ {0} : q = h.seq /\ m = h.len
    BY <2>2 DEF RangeType
  <2>5. PICK t : t = [s EXCEPT !.rlist = tail]
    OBVIOUS
  <2>6. t \in Tcb /\ t.rlist = tail /\ Frame(s, t, RcvSet)
    <3>1. t \in Tcb /\ t.rlist = tail
      BY <1>0, <2>2, <2>5 DEF Tcb
    <3>2. Frame(s, t, RcvSet)
      BY <1>0, <2>5 DEF Tcb, Frame, Fields, RcvSet
    <3> QED
      BY <3>1, <3>2
  <2>7. t.rbuf = s.rbuf /\ t.stash = s.stash /\ t.rnxt = s.rnxt /\ t.rwnd = s.rwnd
    BY <1>0, <2>5 DEF Tcb
  <2>8. Fine(o, t, r) /\ Grows(s, t)
    <3>1. RcvOK(t) /\ Edge(t) = Edge(s)
      BY <1>0, <2>7 DEF Fine, Half, RcvOK, Edge
    <3>2. t.rnxt \in Points(r) /\ (o /\ t.rnxt >= 1 => s.una >= 1)
      BY <1>0, <2>7 DEF Fine, Peered
    <3>3. \A i \in 1..Len(t.rlist) : t.rlist[i].seq + t.rlist[i].len \in Points(r)
      BY <1>0, <2>2, <2>3, <2>6 DEF Fine, Peered
    <3>4. s.rnxt <= t.rnxt /\ Edge(s) <= Edge(t)
      BY <1>1, <2>7, <3>1
    <3> QED
      BY ONLY <1>0, <2>6, <3>1, <3>2, <3>3, <3>4, TakenFine
  <2>9. k => Stream(t, c) /\ Kept(t, t.rnxt)
    <3> SUFFICES ASSUME k PROVE Stream(t, c) /\ Kept(t, t.rnxt)
      OBVIOUS
    <3>1. Stream(s, c) /\ Kept(s, s.rnxt)
      BY <1>c
    <3>2. Stream(t, c)
      BY <2>7, <3>1 DEF Stream
    <3>3. Kept(t, t.rnxt)
      <4>1. ASSUME NEW i \in 1..Len(tail), NEW z \in tail[i].seq..tail[i].seq + tail[i].len - 1, z >= s.rnxt
            PROVE  Held(s, z)
        BY <2>2, <2>3, <3>1, <4>1 DEF Kept
      <4>2. \A z : Held(s, z) => Held(t, z)
        BY <2>7 DEF Held
      <4> QED
        BY <2>6, <2>7, <4>1, <4>2 DEF Kept
    <3> QED
      BY <3>2, <3>3
  <2>10. q + m \in Points(r) /\ q + m <= edge
    <3>1. q + m \in Points(r)
      BY <1>0, <2>3, <2>4 DEF Fine, Peered
    <3>2. q + m <= r.nxt /\ r.nxt <= edge /\ r.nxt \in Nat
      BY <1>0, <1>1, <3>1, PointsFacts, TcbTypes DEF Fine, Peered
    <3> QED
      BY <3>1, <3>2
  <2>11. q + m < SeqRange /\ Plus(h.seq, h.len) = q + m
    <3>1. q + m <= r.nxt /\ r.nxt <= Total(r) /\ Total(r) < SeqRange
      BY <1>0, <2>10, PointsFacts DEF Fine, Half, SndOK
    <3>2. r.nxt \in Nat /\ Total(r) \in Nat /\ SeqRange \in Nat
      BY <1>0, TcbTypes, Consts
    <3>3. q + m < SeqRange
      BY <3>1, <3>2
    <3> QED
      BY <2>4, <3>3, NoWrapping
  <2>12. CASE q + m > rnxt
    <3>1. PICK n \in Nat \ {0} : n = q + m - rnxt
      BY <2>12
    <3>2. Minus(Plus(h.seq, h.len), s.rnxt) = n
      <4>1. rnxt <= q + m /\ q + m \in Nat /\ q + m < SeqRange
        BY <2>11, <2>12
      <4>2. Minus(q + m, rnxt) = q + m - rnxt
        BY ONLY <4>1, rnxt \in Nat, NoWrapping
      <4> QED
        BY <1>1, <2>11, <3>1, <4>2
    <3>3. Plus(h.seq, h.len) > s.rnxt /\ h.seq <= s.rnxt
      BY <1>1, <1>4, <2>1, <2>4, <2>11, <2>12
    <3>4. PICK z : z = Consume(t, n)
      OBVIOUS
    <3>5. y = [tcb |-> z, flag |-> "immediate"]
      BY <1>a, <1>b, <1>4, <2>1, <2>5, <3>2, <3>3, <3>4 DEF RecoverFirst
    <3>6. /\ Fine(o, z, r) /\ Grows(t, z) /\ Frame(t, z, RcvSet) /\ z.rlist = t.rlist
          /\ z.rnxt = t.rnxt + n /\ Len(z.rbuf) = Len(t.rbuf) + n
          /\ \A i \in 1..Len(t.rbuf) : z.rbuf[i] = t.rbuf[i]
          /\ \A i \in 1..n : i <= Len(t.stash) => z.rbuf[Len(t.rbuf) + i] = t.stash[i]
          /\ \A i \in Nat \ {0} : i + n <= Len(t.stash) => i <= Len(z.stash) /\ z.stash[i] = t.stash[i + n]
      <4>1. n <= t.rwnd
        <5>1. PICK w \in Nat : w = s.rwnd
          BY <1>0, TcbTypes
        <5>2. edge = rnxt + w
          BY <1>1, <5>1 DEF Edge
        <5> QED
          BY <2>7, <2>10, <3>1, <5>1, <5>2
      <4>2. t.rnxt + n \in Points(r) /\ t.rnxt >= 1
        <5>1. rnxt + n = q + m
          BY <3>1
        <5> QED
          BY <1>0, <1>1, <2>7, <2>10, <5>1
      <4> QED
        BY ONLY <2>8, n \in Nat \ {0}, <3>4, <4>1, <4>2, ConsumeFine
    <3>7. z \in Tcb
      BY <3>6 DEF Fine, Half
    <3>8. Grows(s, z) /\ Frame(s, z, RcvSet)
      <4>1. Grows(s, z)
        BY <1>0, <2>6, <2>8, <3>6, <3>7, GrowsTrans
      <4>2. Frame(s, z, RcvSet)
        BY <2>6, <3>6 DEF Frame
      <4> QED
        BY <4>1, <4>2
    <3>9. k => c + Len(z.rbuf) + 1 = z.rnxt /\ Stream(z, c) /\ Kept(z, z.rnxt)
      <4> SUFFICES ASSUME k PROVE c + Len(z.rbuf) + 1 = z.rnxt /\ Stream(z, c) /\ Kept(z, z.rnxt)
        OBVIOUS
      <4>1. Stream(t, c) /\ Kept(t, t.rnxt) /\ c + Len(t.rbuf) + 1 = t.rnxt
        BY <1>c, <2>7, <2>9
      <4>2. Kept(t, t.rnxt + 1)
        <5>1. \A i \in 1..Len(t.rlist) : t.rlist[i].seq \in Nat /\ t.rlist[i].len \in Nat
          <6>1. \A i \in 1..Len(t.rlist) : t.rlist[i] \in RangeType
            BY <2>2, <2>6, ElementOfSeq
          <6> QED
            BY <6>1 DEF RangeType
        <5>2. \A i \in 1..Len(t.rlist) : \A v \in t.rlist[i].seq..t.rlist[i].seq + t.rlist[i].len - 1 :
                v >= rnxt + 1 => v >= rnxt
          BY <5>1
        <5> QED
          BY <1>1, <2>7, <4>1, <5>2 DEF Kept
      <4>3. \A j \in 1..n : Held(t, t.rnxt + j - 1)
        <5> TAKE j \in 1..n
        <5>1. PICK v \in Nat : v = rnxt + j - 1
          OBVIOUS
        <5>2. v >= rnxt /\ v \in q..q + m - 1
          <6>1. q <= rnxt
            BY <1>1, <1>4, <2>1, <2>4
          <6> QED
            BY <3>1, <5>1, <6>1
        <5>3. Held(s, v)
          BY <1>c, <1>1, <2>3, <2>4, <5>2 DEF Kept
        <5> QED
          BY <1>1, <2>7, <5>1, <5>3 DEF Held
      <4> QED
        BY ONLY <2>6, <3>6, <3>7, n \in Nat \ {0}, c \in Nat, <4>1, <4>2, <4>3, ConsumeKept
    <3>10. z.rnxt >= 1 /\ z.rnxt + len = rnxt + Len(z.rbuf)
      <4>1. z.rnxt = rnxt + n /\ Len(z.rbuf) = len + n
        BY <1>1, <2>7, <3>6
      <4> QED
        BY <3>1, <4>1
    <3>11. y.tcb = z /\ y.flag \in Flags
      BY <3>5 DEF Flags
    <3> QED
      BY <1>b, <1>1, <3>6, <3>8, <3>9, <3>10, <3>11 DEF Follows, Known
  <2>13. CASE ~ (q + m > rnxt)
    <3>1. y = [tcb |-> t, flag |-> x.flag]
      BY <1>a, <1>b, <1>1, <1>4, <2>1, <2>5, <2>11, <2>13 DEF RecoverFirst
    <3>2. y.tcb = t /\ y.flag = x.flag
      BY <3>1
    <3> QED
      BY <1>b, <1>c, <1>0, <1>1, <2>6, <2>7, <2>8, <2>9, <3>2 DEF Follows, Known
  <2> QED
    BY <2>12, <2>13
<1> QED
  BY <1>3, <1>4

\* The loop over m_rlist, pass by pass.
LEMMA RecoverPassesDef ==
  ASSUME NEW s, Len(s.rlist) \in Nat, NEW flag
  PROVE  RecoverPasses(s, flag) =
           [k \in 0..Len(s.rlist) |-> IF k = 0 THEN [tcb |-> s, flag |-> flag]
                                      ELSE RecoverFirst(RecoverPasses(s, flag)[k - 1])]
<1> DEFINE Is(g, m) == g = [k \in 0..m |-> IF k = 0 THEN [tcb |-> s, flag |-> flag] ELSE RecoverFirst(g[k - 1])]
           T == {m \in Nat : ~ \E g : Is(g, m)}
<1>1. T = {}
  <2> SUFFICES ASSUME T # {} PROVE FALSE
    OBVIOUS
  <2>1. PICK m \in T : \A y \in T : m <= y
    BY Least
  <2>2. CASE m = 0
    <3> DEFINE g == [k \in 0..0 |-> [tcb |-> s, flag |-> flag]]
    <3>1. Is(g, 0)
      OBVIOUS
    <3> QED
      BY <2>1, <2>2, <3>1
  <2>3. CASE m # 0
    <3>1. m - 1 \in Nat /\ ~ (m <= m - 1)
      BY <2>1, <2>3
    <3>2. PICK h : Is(h, m - 1)
      BY <2>1, <3>1
    <3> DEFINE g == [k \in 0..m |-> IF k = m THEN RecoverFirst(h[m - 1]) ELSE h[k]]
    <3>3. \A k \in 0..m - 1 : g[k] = h[k]
      BY <2>1
    <3>4. g[m] = RecoverFirst(h[m - 1])
      BY <2>1
    <3>5. \A k \in 0..m : g[k] = IF k = 0 THEN [tcb |-> s, flag |-> flag] ELSE RecoverFirst(g[k - 1])
      BY <2>1, <2>3, <3>2, <3>3, <3>4
    <3>6. Is(g, m)
      BY <3>5
    <3> QED
      BY <2>1, <3>6
  <2> QED
    BY <2>2, <2>3
<1>2. \E g : Is(g, Len(s.rlist))
  BY <1>1
<1> QED
  BY <1>2 DEF RecoverPasses

\* After it the ends agree, and m_rbuf has the stream up to what is acknowledged.
LEMMA RecoverFine ==
  ASSUME NEW o, NEW s, NEW r, Fine(o, s, r), s.rnxt >= 1, NEW flag \in Flags,
         NEW c \in Nat, NEW k \in BOOLEAN, Known(k, s, c), NEW x
  PROVE  x = Recover(s, flag) =>
         /\ Fine(o, x.tcb, r) /\ Grows(s, x.tcb) /\ Frame(s, x.tcb, RcvSet) /\ x.flag \in Flags
         /\ x.tcb.rnxt >= 1 /\ x.tcb.rnxt + Len(s.rbuf) = s.rnxt + Len(x.tcb.rbuf)
         /\ Known(k, x.tcb, c)
<1>a. SUFFICES ASSUME x = Recover(s, flag)
      PROVE  /\ Fine(o, x.tcb, r) /\ Grows(s, x.tcb) /\ Frame(s, x.tcb, RcvSet) /\ x.flag \in Flags
             /\ x.tcb.rnxt >= 1 /\ x.tcb.rnxt + Len(s.rbuf) = s.rnxt + Len(x.tcb.rbuf)
             /\ Known(k, x.tcb, c)
  OBVIOUS
<1>0. s \in Tcb /\ r \in Tcb
  BY DEF Fine, Half
<1>1. PICK n \in Nat, rnxt \in Nat, len \in Nat : n = Len(s.rlist) /\ rnxt = s.rnxt /\ len = Len(s.rbuf)
  BY <1>0, TcbTypes
<1>2. PICK pass : pass = RecoverPasses(s, flag)
  OBVIOUS
<1>3. pass = [i \in 0..n |-> IF i = 0 THEN [tcb |-> s, flag |-> flag] ELSE RecoverFirst(pass[i - 1])]
  BY <1>1, <1>2, RecoverPassesDef
<1> DEFINE Good(u, f) ==
             /\ Fine(o, u, r) /\ Grows(s, u) /\ Frame(s, u, RcvSet) /\ f \in Flags
             /\ u.rnxt >= 1 /\ u.rnxt + len = rnxt + Len(u.rbuf)
             /\ Known(k, u, c)
           T == {i \in 0..n : ~ Good(pass[i].tcb, pass[i].flag)}
<1>4. ASSUME NEW y, Good(y.tcb, y.flag), NEW z, z = RecoverFirst(y)
      PROVE  Good(z.tcb, z.flag)
  <2>0. PICK u, v : u = y.tcb /\ v = z.tcb
    OBVIOUS
  <2>1. Known(k, y.tcb, c)
    BY <1>4
  <2>2. Fine(o, y.tcb, r) /\ y.tcb.rnxt >= 1 /\ y.flag \in Flags
    BY <1>4
  <2>3. /\ Fine(o, v, r) /\ Grows(u, v) /\ Frame(u, v, RcvSet) /\ z.flag \in Flags
        /\ v.rnxt >= 1 /\ v.rnxt + Len(u.rbuf) = u.rnxt + Len(v.rbuf)
        /\ Known(k, v, c)
    <3>1. z = RecoverFirst(y) =>
          /\ Fine(o, z.tcb, r) /\ Grows(y.tcb, z.tcb) /\ Frame(y.tcb, z.tcb, RcvSet) /\ z.flag \in Flags
          /\ z.tcb.rnxt >= 1 /\ z.tcb.rnxt + Len(y.tcb.rbuf) = y.tcb.rnxt + Len(z.tcb.rbuf)
          /\ Known(k, z.tcb, c)
      BY ONLY c \in Nat, k \in BOOLEAN, <2>1, <2>2, RecoverFirstFine
    <3> QED
      BY <1>4, <2>0, <3>1
  <2>4. u \in Tcb /\ v \in Tcb
    BY <1>4, <2>0, <2>3 DEF Fine, Half
  <2>5. Grows(s, v)
    BY <1>0, <1>4, <2>0, <2>3, <2>4, GrowsTrans
  <2>6. Frame(s, v, RcvSet)
    BY <1>4, <2>0, <2>3 DEF Frame
  <2>7. v.rnxt + len = rnxt + Len(v.rbuf)
    <3>1. PICK ur \in Nat, ul \in Nat, vr \in Nat, vl \in Nat :
            ur = u.rnxt /\ ul = Len(u.rbuf) /\ vr = v.rnxt /\ vl = Len(v.rbuf)
      BY <2>4, TcbTypes
    <3>2. ur + len = rnxt + ul
      BY <1>4, <2>0, <3>1
    <3>3. vr + ul = ur + vl
      BY <2>3, <3>1
    <3>4. vr + len = rnxt + vl
      BY <3>2, <3>3
    <3> QED
      BY <3>1, <3>4
  <2>8. Known(k, v, c)
    BY <2>3
  <2> QED
    BY <2>0, <2>3, <2>5, <2>6, <2>7, <2>8
<1>5. Good(s, flag)
  BY <1>0, <1>1, GrowsRefl DEF Frame
<1>6. T = {}
  <2> SUFFICES ASSUME T # {} PROVE FALSE
    OBVIOUS
  <2>0. T \subseteq Nat
    OBVIOUS
  <2>1. PICK i \in T : \A y \in T : i <= y
    BY <2>0, Least
  <2>2. i \in 0..n /\ ~ Good(pass[i].tcb, pass[i].flag)
    BY <2>1
  <2> HIDE DEF Good
  <2>3. CASE i = 0
    <3>1. pass[0] = [tcb |-> s, flag |-> flag]
      BY <1>3
    <3>2. pass[0].tcb = s /\ pass[0].flag = flag
      BY <3>1
    <3> QED
      BY <1>5, <2>2, <2>3, <3>2
  <2>4. CASE i # 0
    <3>1. i - 1 \in 0..n /\ ~ (i <= i - 1)
      BY <2>2, <2>4
    <3>2. i - 1 \notin T
      BY <2>1, <3>1
    <3>3. Good(pass[i - 1].tcb, pass[i - 1].flag)
      BY <3>1, <3>2
    <3>4. PICK y, z : y = pass[i - 1] /\ z = pass[i]
      OBVIOUS
    <3>5. z = RecoverFirst(y)
      BY <1>3, <2>2, <2>4, <3>4
    <3> QED
      BY <1>4, <2>2, <3>3, <3>4, <3>5
  <2> QED
    BY <2>3, <2>4
<1>7. Good(pass[n].tcb, pass[n].flag)
  BY <1>6
<1>8. x = pass[n]
  BY <1>a, <1>1, <1>2 DEF Recover
<1> QED
  BY <1>1, <1>7, <1>8

\* Writing behind the data of the receive buffer changes what it covers, and nothing before
\* or after that.
LEMMA WriteOffsetOK ==
  ASSUME NEW s \in Tcb, NEW data \in Seq(Nat), NEW off \in Nat, NEW t
  PROVE  t = WriteOffset(s, data, off) =>
         /\ t \in Tcb /\ Frame(s, t, {"stash"})
         /\ Len(t.stash) = Larger(Len(s.stash), off + Len(data))
         /\ \A i \in 1..Len(data) : t.stash[off + i] = data[i]
         /\ \A i \in 1..Len(s.stash) : i <= off \/ i > off + Len(data) => t.stash[i] = s.stash[i]
<1>a. SUFFICES ASSUME t = WriteOffset(s, data, off)
      PROVE  /\ t \in Tcb /\ Frame(s, t, {"stash"})
             /\ Len(t.stash) = Larger(Len(s.stash), off + Len(data))
             /\ \A i \in 1..Len(data) : t.stash[off + i] = data[i]
             /\ \A i \in 1..Len(s.stash) : i <= off \/ i > off + Len(data) => t.stash[i] = s.stash[i]
  OBVIOUS
<1>1. PICK kept \in Nat, len \in Nat : kept = Len(s.stash) /\ len = Len(data)
  BY TcbTypes, LenProperties
<1>2. PICK n \in Nat : n = Larger(kept, off + len)
  BY DEF Larger
<1>3. kept <= n /\ off + len <= n
  BY <1>2 DEF Larger
<1>4. PICK f : f = [i \in 1..n |-> IF i \in off + 1..off + len THEN data[i - off]
                                   ELSE IF i <= kept THEN s.stash[i] ELSE Garbage]
  OBVIOUS
<1>5. (\A i \in 1..len : data[i] \in Int) /\ \A i \in 1..kept : s.stash[i] \in Int
  <2>1. \A i \in 1..len : data[i] \in Nat
    BY <1>1, ElementOfSeq
  <2>2. \A i \in 1..kept : s.stash[i] \in Int
    BY <1>1, TcbTypes, ElementOfSeq
  <2> QED
    BY <2>1, <2>2
<1>6. f \in Seq(Int) /\ Len(f) = n
  <2>1. \A i \in 1..n : f[i] \in Int
    <3> TAKE i \in 1..n
    <3>1. CASE i \in off + 1..off + len
      <4>1. i - off \in 1..len /\ f[i] = data[i - off]
        BY <1>4, <3>1
      <4> QED
        BY <1>5, <4>1
    <3>2. CASE i \notin off + 1..off + len /\ i <= kept
      <4>1. i \in 1..kept /\ f[i] = s.stash[i]
        BY <1>4, <3>2
      <4> QED
        BY <1>5, <4>1
    <3>3. CASE i \notin off + 1..off + len /\ ~ (i <= kept)
      BY <1>4, <3>3 DEF Garbage
    <3> QED
      BY <3>1, <3>2, <3>3
  <2>2. f \in [1..n -> Int]
    BY <1>4, <2>1
  <2> QED
    BY <2>2, SeqDef, LenProperties
<1>7. t = [s EXCEPT !.stash = f]
  BY <1>a, <1>1, <1>2, <1>4 DEF WriteOffset
<1>8. t \in Tcb /\ t.stash = f
  BY <1>6, <1>7 DEF Tcb
<1>9. Frame(s, t, {"stash"})
  BY <1>7 DEF Tcb, Frame, Fields
<1>10. \A i \in 1..len : f[off + i] = data[i]
  <2> TAKE i \in 1..len
  <2>1. off + i \in 1..n /\ off + i \in off + 1..off + len /\ (off + i) - off = i
    BY <1>3
  <2> QED
    BY <1>4, <2>1
<1>11. \A i \in 1..kept : i <= off \/ i > off + len => f[i] = s.stash[i]
  BY <1>3, <1>4
<1> QED
  BY <1>1, <1>2, <1>6, <1>8, <1>9, <1>10, <1>11

\* Each of m is x or one of l.
Drawn(m, l, x) == \A k \in 1..Len(m) : m[k] = x \/ \E i \in 1..Len(l) : m[k] = l[i]

\* A range that is kept is one more member of m_rlist.
LEMMA InsertedOK ==
  ASSUME NEW l \in Seq(RangeType), NEW x \in RangeType, NEW m
  PROVE  m = Inserted(l, x) =>
         m \in Seq(RangeType) /\ Drawn(m, l, x)
<1>a. SUFFICES ASSUME m = Inserted(l, x)
      PROVE  m \in Seq(RangeType) /\ Drawn(m, l, x)
  OBVIOUS
<1>1. PICK n \in Nat : n = Len(l)
  BY LenProperties
<1>2. PICK A : A = {i \in DOMAIN l : l[i].seq < x.seq}
  OBVIOUS
<1>3. A \in SUBSET (1..n)
  BY <1>1, <1>2, LenProperties
<1>4. Cardinality(A) \in 0..n
  <2>1. IsFiniteSet(1..n) /\ Cardinality(1..n) = n
    BY FS_Interval
  <2>2. IsFiniteSet(A) /\ Cardinality(A) <= n
    BY <1>3, <2>1, FS_Subset
  <2>3. Cardinality(A) \in Nat
    BY <2>2, FS_CardinalityType
  <2> QED
    BY <2>2, <2>3
<1>5. PICK j \in 1..n + 1 : j = 1 + Cardinality(A)
  BY <1>4
<1>6. m = InsertAt(l, j, x)
  BY <1>a, <1>2, <1>5 DEF Inserted
<1>7. /\ m \in Seq(RangeType) /\ Len(m) = n + 1
      /\ \A k \in 1..j - 1 : m[k] = l[k]
      /\ m[j] = x
      /\ \A k \in j + 1..n + 1 : m[k] = l[k - 1]
  <2>1. j \in 1..Len(l) + 1
    BY <1>1
  <2>2. PICK i \in 1..Len(l) + 1 : i = j
    BY <2>1
  <2>3. /\ InsertAt(l, i, x) \in Seq(RangeType) /\ Len(InsertAt(l, i, x)) = Len(l) + 1
        /\ \A k \in 1..i - 1 : InsertAt(l, i, x)[k] = l[k]
        /\ InsertAt(l, i, x)[i] = x
        /\ \A k \in i + 1..Len(l) + 1 : InsertAt(l, i, x)[k] = l[k - 1]
    <3>1. InsertAt(l, i, x) \in Seq(RangeType) /\ InsertedAt(l, i, x, InsertAt(l, i, x))
      BY Inserting
    <3> QED
      BY ONLY <3>1 DEF InsertedAt
  <2> QED
    BY <1>1, <1>6, <2>2, <2>3
<1>8. ASSUME NEW k \in 1..n + 1 PROVE m[k] = x \/ \E i \in 1..n : m[k] = l[i]
  <2>1. CASE k \in 1..j - 1
    BY <1>7, <2>1
  <2>2. CASE k = j
    BY <1>7, <2>2
  <2>3. CASE k \in j + 1..n + 1
    <3>1. k - 1 \in 1..n /\ m[k] = l[k - 1]
      BY <1>7, <2>3
    <3> QED
      BY <3>1
  <2> QED
    BY <2>1, <2>2, <2>3
<1> QED
  BY <1>1, <1>7, <1>8 DEF Drawn

\* What Trim has left of a packet is new to s, and there is space for it.
Arrived(s, r, p) ==
  /\ p.data \in Seq(Nat) /\ p.data # <<>> /\ p.seq \in Nat /\ p.ctrl \in BOOLEAN
  /\ p.seq >= s.rnxt
  /\ p.seq + Len(p.data) \in Points(r) /\ p.seq + Len(p.data) <= Edge(s)
  /\ p.ctrl <=> p.seq = 0
  /\ p.ctrl => Len(p.data) = 1
  /\ \A i \in 1..Len(p.data) : p.data[i] = p.seq + i - 1

\* process cuts off what has been received before, and what the buffer has no space for.
LEMMA TrimFacts ==
  ASSUME NEW o, NEW s, NEW r, Fine(o, s, r), NEW q, NEW p \in FromTo(q, r, s), NEW t
  PROVE  t = Trim(s, p) =>
         /\ t.ctrl = p.ctrl
         /\ t.data = <<>> \/ Arrived(s, r, t)
         /\ t.data = <<>> /\ p.data # <<>> => p.seq + Len(p.data) <= s.rnxt
<1>a. SUFFICES ASSUME t = Trim(s, p)
      PROVE  /\ t.ctrl = p.ctrl
             /\ t.data = <<>> \/ Arrived(s, r, t)
             /\ t.data = <<>> /\ p.data # <<>> => p.seq + Len(p.data) <= s.rnxt
  OBVIOUS
<1>0. s \in Tcb /\ r \in Tcb
  BY DEF Fine, Half
<1>1. p \in Packet /\ p.seq \in Nat /\ p.data \in Seq(Nat) /\ p.ctrl \in BOOLEAN
  BY DEF FromTo, Packet
<1>2. PICK seq \in Nat, len \in Nat, rnxt \in Nat : seq = p.seq /\ len = Len(p.data) /\ rnxt = s.rnxt
  BY <1>0, <1>1, TcbTypes, LenProperties
<1>3. PICK old \in Nat : old = IF p.seq < s.rnxt THEN s.rnxt - p.seq ELSE 0
  BY <1>2
<1>4. PICK fresh : fresh = IF old < len
                           THEN [p EXCEPT !.seq = Plus(@, old), !.data = SubSeq(@, old + 1, Len(@))]
                           ELSE [p EXCEPT !.data = <<>>]
  OBVIOUS
<1>5. PICK over : over = Larger(0, Minus(Plus(fresh.seq, Len(fresh.data)), s.rnxt) - RcvSpace(s))
  OBVIOUS
<1>6. t = [fresh EXCEPT !.data = SubSeq(@, 1, Len(@) - over)]
  BY <1>a, <1>2, <1>3, <1>4, <1>5 DEF Trim
<1>7. CASE ~ (old < len)
  <2>1. fresh \in Packet /\ fresh.data = <<>> /\ fresh.ctrl = p.ctrl /\ fresh.seq = seq
    <3>1. PICK e \in Seq(Nat) : e = <<>>
      BY EmptySeq
    <3>2. fresh = [p EXCEPT !.data = e]
      BY <1>4, <1>7, <3>1
    <3> QED
      BY <1>1, <1>2, <3>1, <3>2 DEF Packet
  <2>2. over \in Int /\ over >= 0
    <3>1. Minus(Plus(fresh.seq, Len(fresh.data)), s.rnxt) \in Int
      <4>1. PICK w \in Nat \ {0} : w = SeqRange
        BY Consts
      <4>2. \A n \in Int : n % w \in Nat
        BY <4>1
      <4>3. Plus(seq, 0) \in Nat
        BY <4>1, <4>2 DEF Plus
      <4>4. Len(fresh.data) = 0
        BY <2>1, EmptySeq
      <4> QED
        <5>1. PICK y \in Nat : y = Plus(seq, 0)
          BY <4>3
        <5>2. (y - rnxt) % w \in Nat
          BY <4>2
        <5>3. Minus(Plus(fresh.seq, Len(fresh.data)), s.rnxt) = (y - rnxt) % w
          BY <1>2, <2>1, <4>1, <4>4, <5>1 DEF Minus
        <5> QED
          BY <5>2, <5>3
    <3>2. RcvSpace(s) \in Int
      BY <1>0, TcbTypes, Consts DEF RcvSpace
    <3> QED
      BY <1>5, <3>1, <3>2 DEF Larger
  <2>3. SubSeq(fresh.data, 1, Len(fresh.data) - over) = <<>>
    <3>1. Len(fresh.data) - over \in Int /\ Len(fresh.data) - over < 1
      BY <2>1, <2>2, EmptySeq
    <3> QED
      BY <3>1, SubSeqEmpty
  <2>4. t.data = <<>> /\ t.ctrl = p.ctrl
    BY <1>6, <2>1, <2>3 DEF Packet
  <2>5. p.data # <<>> => p.seq + Len(p.data) <= s.rnxt
    <3> SUFFICES ASSUME p.data # <<>> PROVE seq + len <= rnxt
      BY <1>2
    <3>1. len # 0
      BY <1>1, <1>2, EmptySeq
    <3> QED
      BY <1>2, <1>3, <1>7, <3>1
  <2> QED
    BY <2>4, <2>5
<1>8. CASE old < len
  <2>0. p.data # <<>>
    BY <1>2, <1>8, EmptySeq
  <2>1. seq + len \in Points(r) /\ (p.ctrl <=> seq = 0) /\ (p.ctrl => len = 1)
        /\ \A i \in 1..len : p.data[i] = seq + i - 1
    BY <1>2, <2>0 DEF FromTo
  <2>2. PICK end \in Nat, x \in Nat : end = seq + len /\ x = seq + old
    BY <1>2
  <2>3. end <= r.nxt /\ r.nxt <= Edge(s) /\ r.nxt < SeqRange /\ r.nxt \in Nat /\ SeqRange \in Nat /\ Edge(s) \in Nat
    <3>1. end <= r.nxt /\ r.nxt <= Edge(s) /\ r.nxt <= Total(r) /\ Total(r) < SeqRange
      BY <2>1, <2>2, PointsFacts DEF Fine, Half, SndOK, Peered
    <3>2. r.nxt \in Nat /\ Total(r) \in Nat /\ SeqRange \in Nat /\ Edge(s) \in Nat
      BY <1>0, TcbTypes, Consts
    <3> QED
      BY <3>1, <3>2
  <2>4. x < end /\ rnxt <= x /\ (seq >= rnxt => old = 0 /\ x = seq) /\ (seq < rnxt => x = rnxt)
    <3>1. old = IF seq < rnxt THEN rnxt - seq ELSE 0
      BY <1>2, <1>3
    <3> QED
      BY <1>8, <2>2, <3>1
  <2>5. PICK d : d = SubSeq(p.data, old + 1, len)
    OBVIOUS
  <2>6. d \in Seq(Nat) /\ Len(d) = len - old /\ \A i \in 1..len - old : d[i] = x + i - 1
    <3>1. PICK b : b = p.data
      OBVIOUS
    <3>2. \A i \in old + 1..len : b[i] \in Nat
      BY <1>1, <1>2, <3>1, ElementOfSeq
    <3>3. d = SubSeq(b, old + 1, len) /\ old + 1 \in Int /\ len \in Int
      BY <2>5, <3>1
    <3>4. /\ d \in Seq(Nat) /\ Len(d) = (IF old + 1 <= len THEN len - (old + 1) + 1 ELSE 0)
          /\ \A i \in 1..len - (old + 1) + 1 : d[i] = b[old + 1 + i - 1]
      BY ONLY <3>2, <3>3, SubSeqProperties
    <3>5. Len(d) = len - old
      BY <1>8, <3>4
    <3>6. ASSUME NEW i \in 1..len - old PROVE d[i] = x + i - 1
      <4>1. i \in 1..len - (old + 1) + 1 /\ old + i \in 1..len /\ old + 1 + i - 1 = old + i
        BY <1>8
      <4>2. d[i] = b[old + i]
        BY <3>4, <4>1
      <4>3. b[old + i] = seq + (old + i) - 1
        BY <2>1, <3>1, <4>1
      <4>4. seq + (old + i) - 1 = x + i - 1
        BY <2>2
      <4> QED
        BY <4>2, <4>3, <4>4
    <3> QED
      BY <3>4, <3>5, <3>6
  <2>7. Plus(p.seq, old) = x
    <3>1. seq + old < SeqRange
      BY <2>2, <2>3, <2>4
    <3>2. Plus(seq, old) = seq + old
      BY ONLY seq \in Nat, old \in Nat, <3>1, NoWrapping
    <3> QED
      BY <1>2, <2>2, <3>2
  <2>8. fresh = [p EXCEPT !.seq = x, !.data = d]
    BY <1>2, <1>4, <1>8, <2>5, <2>7
  <2>9. fresh \in Packet /\ fresh.data = d /\ fresh.seq = x /\ fresh.ctrl = p.ctrl
    BY ONLY <1>1, <2>6, <2>8, x \in Nat DEF Packet
  <2>10. over = 0
    <3>1. Len(d) \in Nat /\ x + Len(d) = end
      BY <1>8, <2>2, <2>6
    <3>2. Plus(x, Len(d)) = end
      <4>1. PICK m \in Nat : m = Len(d)
        BY <3>1
      <4>2. x + m < SeqRange
        BY <2>3, <3>1, <4>1
      <4>3. Plus(x, m) = x + m
        BY ONLY x \in Nat, m \in Nat, <4>2, NoWrapping
      <4> QED
        BY <3>1, <4>1, <4>3
    <3>3. rnxt <= end /\ end < SeqRange
      BY <2>3, <2>4
    <3>4. Minus(end, rnxt) = end - rnxt
      BY ONLY end \in Nat, rnxt \in Nat, <3>3, NoWrapping
    <3>5. PICK rwnd \in Nat, cap \in Nat, n \in Nat : rwnd = s.rwnd /\ cap = RcvBuf /\ n = Len(s.rbuf)
      BY <1>0, TcbTypes, Consts
    <3>6. end <= rnxt + rwnd /\ rwnd + n <= cap
      <4>1. rwnd + n <= cap
        BY <3>5 DEF Fine, Half, RcvOK
      <4>2. Edge(s) = rnxt + rwnd
        BY <1>2, <3>5 DEF Edge
      <4> QED
        BY <2>3, <4>1, <4>2
    <3>7. over = Larger(0, (end - rnxt) - (cap - n))
      BY <1>2, <1>5, <2>9, <3>2, <3>4, <3>5 DEF RcvSpace
    <3> QED
      BY <3>6, <3>7 DEF Larger
  <2>11. SubSeq(fresh.data, 1, Len(fresh.data) - over) = d
    <3>1. PICK m \in Nat : m = Len(d)
      BY <1>8, <2>6
    <3>2. SubSeq(d, 1, m) = d
      BY ONLY <2>6, <3>1, SubSeqFull
    <3> QED
      BY <2>9, <2>10, <3>1, <3>2
  <2>12. t = [fresh EXCEPT !.data = d]
    BY <1>6, <2>11
  <2>13. t.data = d /\ t.seq = x /\ t.ctrl = p.ctrl
    BY ONLY <2>9, <2>12 DEF Packet
  <2>14. Arrived(s, r, t)
    <3>1. Len(d) = len - old /\ x + Len(d) = end /\ d # <<>>
      BY <1>8, <2>2, <2>6, EmptySeq
    <3>2. x = 0 <=> seq = 0
      <4>1. seq # 0 => x # 0
        BY <2>2
      <4>2. seq = 0 => len = 1
        BY <2>1
      <4>3. seq = 0 => x = 0
        BY <1>8, <2>2, <4>2
      <4> QED
        BY <4>1, <4>3
    <3>3. p.ctrl => Len(d) = 1
      <4> SUFFICES ASSUME p.ctrl PROVE len - old = 1
        BY <3>1
      <4>1. len = 1
        BY <2>1
      <4> QED
        BY <1>8, <4>1
    <3>4. end <= Edge(s) /\ end \in Points(r)
      BY <2>1, <2>2, <2>3
    <3>5. x >= rnxt
      BY <2>4
    <3> QED
      BY <1>1, <1>2, <2>1, <2>6, <2>13, <3>1, <3>2, <3>3, <3>4, <3>5 DEF Arrived
  <2>15. t.data # <<>>
    BY <2>14 DEF Arrived
  <2> QED
    BY <2>13, <2>14, <2>15
<1> QED
  BY <1>7, <1>8

\* The data of a packet is where it belongs, and so is what was there before.
LEMMA StoredFine ==
  ASSUME NEW o, NEW s, NEW r, Fine(o, s, r), NEW p, Arrived(s, r, p), NEW u
  PROVE  u = WriteOffset(s, p.data, Minus(p.seq, s.rnxt)) =>
         /\ Fine(o, u, r) /\ Grows(s, u) /\ Frame(s, u, {"stash"})
         /\ \A x \in p.seq..p.seq + Len(p.data) - 1 : Held(u, x)
         /\ \A x \in Nat : x >= s.rnxt /\ Held(s, x) => Held(u, x)
<1>a. SUFFICES ASSUME u = WriteOffset(s, p.data, Minus(p.seq, s.rnxt))
      PROVE  /\ Fine(o, u, r) /\ Grows(s, u) /\ Frame(s, u, {"stash"})
             /\ \A x \in p.seq..p.seq + Len(p.data) - 1 : Held(u, x)
             /\ \A x \in Nat : x >= s.rnxt /\ Held(s, x) => Held(u, x)
  OBVIOUS
<1>0. s \in Tcb /\ r \in Tcb
  BY DEF Fine, Half
<1>1. PICK rnxt \in Nat, rwnd \in Nat, len \in Nat, kept \in Nat, cap \in Nat :
        rnxt = s.rnxt /\ rwnd = s.rwnd /\ len = Len(s.rbuf) /\ kept = Len(s.stash) /\ cap = RcvBuf
  BY <1>0, TcbTypes, Consts
<1>2. rwnd + len <= cap /\ kept + len <= cap
  BY <1>1 DEF Fine, Half, RcvOK
<1>3. PICK d : d = p.data
  OBVIOUS
<1>4. d \in Seq(Nat)
  BY <1>3 DEF Arrived
<1>5. PICK seq \in Nat, n \in Nat : seq = p.seq /\ n = Len(d)
  BY <1>4, LenProperties DEF Arrived
<1>6. seq >= rnxt /\ seq + n <= rnxt + rwnd /\ \A i \in 1..n : d[i] = seq + i - 1
  <2>1. seq + n <= Edge(s) /\ Edge(s) = rnxt + rwnd
    BY <1>1, <1>3, <1>5 DEF Arrived, Edge
  <2> QED
    BY <1>1, <1>3, <1>5, <2>1 DEF Arrived
<1>7. PICK off \in Nat : off = seq - rnxt
  BY <1>6
<1>8. Minus(p.seq, s.rnxt) = off
  <2>1. seq + n <= r.nxt /\ r.nxt <= Total(r) /\ Total(r) < SeqRange
    BY <1>3, <1>5, PointsFacts DEF Arrived, Fine, Half, SndOK
  <2>2. r.nxt \in Nat /\ Total(r) \in Nat /\ SeqRange \in Nat
    BY <1>0, TcbTypes, Consts
  <2>3. rnxt <= seq /\ seq < SeqRange
    BY <1>6, <2>1, <2>2
  <2>4. Minus(seq, rnxt) = seq - rnxt
    BY ONLY seq \in Nat, rnxt \in Nat, <2>3, NoWrapping
  <2> QED
    BY <1>1, <1>5, <1>7, <2>4
<1>9. /\ u \in Tcb /\ Frame(s, u, {"stash"})
      /\ Len(u.stash) = Larger(Len(s.stash), off + Len(d))
      /\ \A i \in 1..Len(d) : u.stash[off + i] = d[i]
      /\ \A i \in 1..Len(s.stash) : i <= off \/ i > off + Len(d) => u.stash[i] = s.stash[i]
  <2>1. u = WriteOffset(s, d, off)
    BY <1>a, <1>3, <1>8
  <2> QED
    BY ONLY <1>0, <1>4, off \in Nat, <2>1, WriteOffsetOK
<1>10. PICK m \in Nat : m = Len(u.stash)
  BY <1>9, TcbTypes
<1>11. m >= kept /\ m >= off + n /\ m + len <= cap
  <2>1. m = Larger(kept, off + n)
    BY <1>1, <1>5, <1>9, <1>10
  <2>2. off + n <= rwnd
    BY <1>6, <1>7
  <2> QED
    BY <1>2, <2>1, <2>2 DEF Larger
<1>12. /\ u.rbuf = s.rbuf /\ u.rnxt = s.rnxt /\ u.rwnd = s.rwnd /\ u.rlist = s.rlist
       /\ Frame(s, u, RcvSet)
  BY <1>9 DEF Frame, Fields, RcvSet
<1>13. Fine(o, u, r) /\ Grows(s, u)
  <2>1. RcvOK(u)
    <3>1. Len(u.stash) + Len(u.rbuf) <= RcvBuf
      BY <1>1, <1>10, <1>11, <1>12
    <3> QED
      BY <1>12, <3>1 DEF Fine, Half, RcvOK
  <2>2. s.rnxt <= u.rnxt /\ Edge(s) <= Edge(u)
    <3>1. Edge(u) = Edge(s) /\ Edge(s) \in Nat
      BY <1>0, <1>12, TcbTypes DEF Edge
    <3> QED
      BY <1>1, <1>12, <3>1
  <2>3. u.rnxt \in Points(r) /\ \A i \in 1..Len(u.rlist) : u.rlist[i].seq + u.rlist[i].len \in Points(r)
    BY <1>12 DEF Fine, Peered
  <2>4. o /\ u.rnxt >= 1 => s.una >= 1
    BY <1>12 DEF Fine
  <2>5. Fine(o, s, r) /\ u \in Tcb
    BY <1>9
  <2> QED
    BY ONLY <2>5, <1>12, <2>1, <2>2, <2>3, <2>4, TakenFine
<1>14. ASSUME NEW x \in seq..seq + n - 1 PROVE Held(u, x)
  <2>1. PICK i \in 1..n : i = x - seq + 1
    OBVIOUS
  <2>2. off + i = x - rnxt + 1 /\ off + i <= m
    BY <1>7, <1>11, <2>1
  <2>3. u.stash[off + i] = d[i] /\ d[i] = seq + i - 1 /\ seq + i - 1 = x
    <3>1. u.stash[off + i] = d[i]
      BY <1>5, <1>9, <2>1
    <3>2. d[i] = seq + i - 1
      BY <1>6, <2>1
    <3>3. seq + i - 1 = x
      BY <2>1
    <3> QED
      BY <3>1, <3>2, <3>3
  <2> QED
    BY <1>1, <1>10, <1>12, <2>2, <2>3 DEF Held
<1>15. ASSUME NEW x \in Nat, x >= s.rnxt, Held(s, x) PROVE Held(u, x)
  <2>1. CASE x \in seq..seq + n - 1
    BY <1>14, <2>1
  <2>2. CASE x \notin seq..seq + n - 1
    <3>1. PICK i \in Nat \ {0} : i = x - rnxt + 1
      BY <1>1, <1>15
    <3>2. i <= kept /\ s.stash[i] = x
      BY <1>1, <1>15, <3>1 DEF Held
    <3>3. i <= off \/ i > off + n
      BY <1>7, <2>2, <3>1
    <3>4. u.stash[i] = x /\ i <= m
      BY <1>1, <1>5, <1>9, <1>11, <3>2, <3>3, SMTT(30)
    <3> QED
      BY <1>1, <1>10, <1>12, <3>1, <3>4 DEF Held
  <2> QED
    BY <2>1, <2>2
<1> QED
  BY <1>3, <1>5, <1>9, <1>13, <1>14, <1>15

\* c units of the stream have been read, and the rest of what has been acknowledged waits.
Counted(s, c) ==
  /\ s.rnxt = 0 => c + Len(s.rbuf) = 0
  /\ s.rnxt > 0 => c + Len(s.rbuf) + 1 <= s.rnxt /\ (~ s.shutdown => c + Len(s.rbuf) + 1 = s.rnxt)

\* If k holds, it is what has been written, and so is what has been kept.
Told(k, s, c) == k => Stream(s, c) /\ (~ s.shutdown => Kept(s, s.rnxt + 1))

\* The data of p is passed over.
Skipped(s, p) == [s EXCEPT !.rnxt = Plus(@, Len(p.data))]

\* The data of p is not taken to m_rbuf.
LEMMA SkippedFine ==
  ASSUME NEW o, NEW s, NEW r, Fine(o, s, r), o => s.una >= 1, NEW p, Arrived(s, r, p),
         NEW c \in Nat, Counted(s, c), NEW k \in BOOLEAN, Told(k, s, c),
         p.ctrl \/ s.shutdown,
         k /\ p.ctrl => s.rlist = <<>>, NEW u
  PROVE  u = Skipped(s, p) /\ p.seq = s.rnxt =>
         /\ Fine(o, u, r) /\ Grows(s, u) /\ Frame(s, u, RcvSet) /\ u.rnxt >= 1
         /\ Counted(u, c) /\ Told(k, u, c) /\ Len(s.rbuf) <= Len(u.rbuf)
<1>a. SUFFICES ASSUME u = Skipped(s, p), p.seq = s.rnxt
      PROVE  /\ Fine(o, u, r) /\ Grows(s, u) /\ Frame(s, u, RcvSet) /\ u.rnxt >= 1
             /\ Counted(u, c) /\ Told(k, u, c) /\ Len(s.rbuf) <= Len(u.rbuf)
  OBVIOUS
<1>0. s \in Tcb /\ r \in Tcb
  BY DEF Fine, Half
<1>1. PICK rnxt \in Nat, rwnd \in Nat, len \in Nat : rnxt = s.rnxt /\ rwnd = s.rwnd /\ len = Len(s.rbuf)
  BY <1>0, TcbTypes
<1>2. PICK n \in Nat \ {0} : n = Len(p.data)
  BY LenProperties, EmptySeq DEF Arrived
<1>3. rnxt + n \in Points(r) /\ (p.ctrl <=> rnxt = 0) /\ (p.ctrl => n = 1)
  BY <1>a, <1>1, <1>2 DEF Arrived
<1>4. PICK x \in Nat : x = rnxt + n
  OBVIOUS
<1>5. Plus(s.rnxt, Len(p.data)) = x
  <2>1. x <= r.nxt /\ r.nxt <= Total(r) /\ Total(r) < SeqRange
    BY <1>3, <1>4, PointsFacts DEF Fine, Half, SndOK
  <2>2. r.nxt \in Nat /\ Total(r) \in Nat /\ SeqRange \in Nat
    BY <1>0, TcbTypes, Consts
  <2>3. rnxt + n < SeqRange
    BY <1>4, <2>1, <2>2
  <2>4. Plus(rnxt, n) = rnxt + n
    BY ONLY rnxt \in Nat, n \in Nat, <2>3, NoWrapping
  <2> QED
    BY <1>1, <1>2, <1>4, <2>4
<1>6. u = [s EXCEPT !.rnxt = x]
  BY <1>a, <1>5 DEF Skipped
<1>7. u \in Tcb /\ u.rnxt = x /\ Frame(s, u, {"rnxt"})
  <2>1. u \in Tcb /\ u.rnxt = x
    BY <1>0, <1>6 DEF Tcb
  <2>2. Frame(s, u, {"rnxt"})
    BY <1>0, <1>6 DEF Tcb, Frame, Fields
  <2> QED
    BY <2>1, <2>2
<1>8. /\ u.rbuf = s.rbuf /\ u.rwnd = s.rwnd /\ u.rlist = s.rlist /\ u.stash = s.stash
      /\ u.shutdown = s.shutdown /\ Frame(s, u, RcvSet)
  BY <1>7 DEF Frame, Fields, RcvSet
<1>9. Fine(o, u, r) /\ Grows(s, u)
  <2>1. RcvOK(u)
    <3>1. x # 0
      BY <1>4
    <3> QED
      BY <1>7, <1>8, <3>1 DEF Fine, Half, RcvOK
  <2>2. s.rnxt <= u.rnxt /\ Edge(s) <= Edge(u)
    BY <1>1, <1>4, <1>7, <1>8 DEF Edge
  <2>3. u.rnxt \in Points(r) /\ \A i \in 1..Len(u.rlist) : u.rlist[i].seq + u.rlist[i].len \in Points(r)
    BY <1>3, <1>4, <1>7, <1>8 DEF Fine, Peered
  <2>4. Fine(o, s, r) /\ u \in Tcb /\ (o /\ u.rnxt >= 1 => s.una >= 1)
    BY <1>7
  <2> QED
    BY ONLY <2>4, <1>8, <2>1, <2>2, <2>3, TakenFine
<1>10. Counted(u, c)
  <2>1. x > 0
    BY <1>4
  <2>2. rnxt = 0 => c + len = 0
    BY <1>1 DEF Counted
  <2>3. rnxt > 0 => c + len + 1 <= rnxt
    BY <1>1 DEF Counted
  <2>4. c + len + 1 <= x
    BY <1>4, <2>2, <2>3
  <2>5. ~ s.shutdown => c + len + 1 = x
    <3>1. ~ s.shutdown => p.ctrl
      OBVIOUS
    <3> QED
      BY <1>3, <1>4, <2>2, <3>1
  <2> QED
    BY <1>1, <1>7, <1>8, <2>1, <2>4, <2>5 DEF Counted
<1>11. Told(k, u, c)
  <2> SUFFICES ASSUME k PROVE Stream(u, c) /\ (~ s.shutdown => Kept(u, x + 1))
    BY <1>7, <1>8 DEF Told
  <2>1. Stream(u, c)
    BY <1>8 DEF Told, Stream
  <2>2. ASSUME ~ s.shutdown PROVE Kept(u, x + 1)
    <3>1. s.rlist = <<>>
      BY <2>2
    <3>2. u.rlist = <<>> /\ Len(u.rlist) = 0
      BY <1>8, <3>1, EmptySeq
    <3> QED
      BY <3>2 DEF Kept
  <2> QED
    BY <2>1, <2>2
<1> QED
  BY <1>1, <1>4, <1>7, <1>8, <1>9, <1>10, <1>11

\* The data of p is kept for later.
Shelved(v, p) == [v EXCEPT !.rlist = Inserted(@, [seq |-> p.seq, len |-> Len(p.data)])]

\* Data with a gap before it is kept, and m_rlist says where.
LEMMA KeptFine ==
  ASSUME NEW o, NEW s, NEW r, Fine(o, s, r), NEW p, Arrived(s, r, p),
         NEW c \in Nat, Counted(s, c), NEW k \in BOOLEAN, Told(k, s, c), ~ s.shutdown, NEW v, NEW u
  PROVE  v = WriteOffset(s, p.data, Minus(p.seq, s.rnxt)) /\ u = Shelved(v, p) =>
         /\ Fine(o, u, r) /\ Grows(s, u) /\ Frame(s, u, RcvSet)
         /\ Counted(u, c) /\ Told(k, u, c) /\ Len(s.rbuf) <= Len(u.rbuf) /\ u.rnxt = s.rnxt
<1>a. SUFFICES ASSUME v = WriteOffset(s, p.data, Minus(p.seq, s.rnxt)),
                      u = Shelved(v, p)
      PROVE  /\ Fine(o, u, r) /\ Grows(s, u) /\ Frame(s, u, RcvSet)
             /\ Counted(u, c) /\ Told(k, u, c) /\ Len(s.rbuf) <= Len(u.rbuf) /\ u.rnxt = s.rnxt
  OBVIOUS
<1>0. s \in Tcb /\ r \in Tcb
  BY DEF Fine, Half
<1>1. PICK seq \in Nat, n \in Nat \ {0} : seq = p.seq /\ n = Len(p.data)
  BY LenProperties, EmptySeq DEF Arrived
<1>2. /\ Fine(o, v, r) /\ Grows(s, v) /\ Frame(s, v, {"stash"})
      /\ \A x \in seq..seq + n - 1 : Held(v, x)
      /\ \A x \in Nat : x >= s.rnxt /\ Held(s, x) => Held(v, x)
  <2>1. Fine(o, s, r) /\ Arrived(s, r, p)
    OBVIOUS
  <2>2. /\ Fine(o, v, r) /\ Grows(s, v) /\ Frame(s, v, {"stash"})
        /\ \A x \in p.seq..p.seq + Len(p.data) - 1 : Held(v, x)
        /\ \A x \in Nat : x >= s.rnxt /\ Held(s, x) => Held(v, x)
    BY ONLY <1>a, <2>1, StoredFine
  <2> QED
    BY <1>1, <2>2
<1>3. v \in Tcb
  BY <1>2 DEF Fine, Half
<1>4. /\ v.rbuf = s.rbuf /\ v.rnxt = s.rnxt /\ v.rwnd = s.rwnd /\ v.rlist = s.rlist /\ v.una = s.una
      /\ v.shutdown = s.shutdown
  BY <1>2 DEF Frame, Fields
<1>5. PICK g : g = [seq |-> p.seq, len |-> Len(p.data)]
  OBVIOUS
<1>6. g \in RangeType /\ g.seq = seq /\ g.len = n
  BY <1>1, <1>5 DEF RangeType
<1>7. PICK l : l = s.rlist
  OBVIOUS
<1>8. l \in Seq(RangeType) /\ Len(l) \in Nat
  BY <1>0, <1>7, TcbTypes
<1>9. PICK m : m = Inserted(l, g)
  OBVIOUS
<1>10. m \in Seq(RangeType) /\ \A j \in 1..Len(m) : m[j] = g \/ \E i \in 1..Len(l) : m[j] = l[i]
  <2>0. g \in RangeType /\ l \in Seq(RangeType)
    BY <1>6, <1>8
  <2>1. m = Inserted(l, g) =>
        m \in Seq(RangeType) /\ Drawn(m, l, g)
    BY ONLY <2>0, InsertedOK
  <2> QED
    BY <1>9, <2>1 DEF Drawn
<1>11. u = [v EXCEPT !.rlist = m]
  BY <1>a, <1>4, <1>5, <1>7, <1>9 DEF Shelved
<1>12. u \in Tcb /\ u.rlist = m /\ Frame(v, u, {"rlist"})
  <2>1. u \in Tcb /\ u.rlist = m
    BY <1>3, <1>10, <1>11 DEF Tcb
  <2>2. Frame(v, u, {"rlist"})
    BY <1>3, <1>11 DEF Tcb, Frame, Fields
  <2> QED
    BY <2>1, <2>2
<1>13. /\ u.rbuf = v.rbuf /\ u.rnxt = v.rnxt /\ u.rwnd = v.rwnd /\ u.stash = v.stash /\ u.shutdown = v.shutdown
       /\ Frame(v, u, RcvSet)
  BY <1>12 DEF Frame, Fields, RcvSet
<1>14. Fine(o, u, r) /\ Grows(v, u)
  <2>1. RcvOK(u)
    BY <1>2, <1>13 DEF Fine, Half, RcvOK
  <2>2. v.rnxt <= u.rnxt /\ Edge(v) <= Edge(u)
    <3>1. Edge(u) = Edge(v)
      BY <1>13 DEF Edge
    <3>2. Edge(v) \in Nat /\ v.rnxt \in Nat
      BY <1>3, TcbTypes
    <3> QED
      BY <1>13, <3>1, <3>2
  <2>3. u.rnxt \in Points(r)
    BY <1>2, <1>13 DEF Fine, Peered
  <2>4. \A i \in 1..Len(u.rlist) : u.rlist[i].seq + u.rlist[i].len \in Points(r)
    <3>1. seq + n \in Points(r)
      BY <1>1 DEF Arrived
    <3>2. \A i \in 1..Len(l) : l[i].seq + l[i].len \in Points(r)
      BY <1>7 DEF Fine, Peered
    <3>3. ASSUME NEW j \in 1..Len(m) PROVE m[j].seq + m[j].len \in Points(r)
      BY <1>6, <1>10, <3>1, <3>2
    <3> QED
      BY <1>12, <3>3
  <2>5. o /\ u.rnxt >= 1 => v.una >= 1
    BY <1>2, <1>13 DEF Fine
  <2> QED
    BY ONLY <1>2, <1>12, <1>13, <2>1, <2>2, <2>3, <2>4, <2>5, TakenFine
<1>15. Grows(s, u)
  BY <1>0, <1>2, <1>3, <1>12, <1>14, GrowsTrans
<1>16. Frame(s, u, RcvSet)
  BY <1>2, <1>12 DEF Frame, RcvSet
<1>17. Counted(u, c)
  BY <1>4, <1>13 DEF Counted
<1>18. Told(k, u, c)
  <2> SUFFICES ASSUME k PROVE Stream(u, c) /\ Kept(u, s.rnxt + 1)
    BY <1>4, <1>13 DEF Told
  <2>1. Stream(u, c)
    BY <1>4, <1>13 DEF Told, Stream
  <2>2. Kept(s, s.rnxt + 1)
    BY DEF Told
  <2>3. \A x : Held(v, x) => Held(u, x)
    BY <1>13 DEF Held
  <2>4. ASSUME NEW i \in 1..Len(l), NEW x \in l[i].seq..l[i].seq + l[i].len - 1, x >= s.rnxt + 1
        PROVE  Held(u, x)
    <3>1. l[i] \in RangeType
      BY <1>8, ElementOfSeq
    <3>2. l[i].seq \in Nat /\ l[i].len \in Nat /\ s.rnxt \in Nat
      BY <1>0, <3>1, TcbTypes DEF RangeType
    <3>3. x \in Nat /\ x >= s.rnxt
      BY <2>4, <3>2
    <3>4. Held(s, x)
      BY <1>7, <2>2, <2>4 DEF Kept
    <3> QED
      BY <1>2, <2>3, <3>3, <3>4
  <2>5. ASSUME NEW x \in g.seq..g.seq + g.len - 1 PROVE Held(u, x)
    BY <1>2, <1>6, <2>3
  <2>6. ASSUME NEW j \in 1..Len(m), NEW x \in m[j].seq..m[j].seq + m[j].len - 1, x >= s.rnxt + 1
        PROVE  Held(u, x)
    <3>1. CASE m[j] = g
      BY <2>5, <3>1
    <3>2. CASE m[j] # g
      <4>1. PICK i \in 1..Len(l) : m[j] = l[i]
        BY <1>10, <3>2
      <4> QED
        BY <2>4, <2>6, <4>1
    <3> QED
      BY <3>1, <3>2
  <2> QED
    BY <1>12, <2>1, <2>6 DEF Kept
<1>19. Len(s.rbuf) <= Len(u.rbuf)
  BY <1>0, <1>4, <1>13, TcbTypes
<1>20. u.rnxt = s.rnxt
  BY <1>4, <1>13
<1> QED
  BY <1>14, <1>15, <1>16, <1>17, <1>18, <1>19, <1>20

\* Taken at once, with what has been kept and can follow it.
LEMMA ReadFine ==
  ASSUME NEW o, NEW s, NEW r, Fine(o, s, r), NEW p, Arrived(s, r, p), ~ p.ctrl, p.seq = s.rnxt,
         NEW c \in Nat, Counted(s, c), NEW k \in BOOLEAN, Told(k, s, c), ~ s.shutdown,
         NEW flag \in Flags, NEW v, NEW d
  PROVE  v = WriteOffset(s, p.data, Minus(p.seq, s.rnxt)) /\ d = Recover(Consume(v, Len(p.data)), flag) =>
         /\ Fine(o, d.tcb, r) /\ Grows(s, d.tcb) /\ Frame(s, d.tcb, RcvSet) /\ d.flag \in Flags
         /\ Counted(d.tcb, c) /\ Told(k, d.tcb, c) /\ Len(s.rbuf) <= Len(d.tcb.rbuf)
<1>a. SUFFICES ASSUME v = WriteOffset(s, p.data, Minus(p.seq, s.rnxt)),
                      d = Recover(Consume(v, Len(p.data)), flag)
      PROVE  /\ Fine(o, d.tcb, r) /\ Grows(s, d.tcb) /\ Frame(s, d.tcb, RcvSet) /\ d.flag \in Flags
             /\ Counted(d.tcb, c) /\ Told(k, d.tcb, c) /\ Len(s.rbuf) <= Len(d.tcb.rbuf)
  OBVIOUS
<1>0. s \in Tcb /\ r \in Tcb
  BY DEF Fine, Half
<1>1. PICK n \in Nat \ {0} : n = Len(p.data)
  BY LenProperties, EmptySeq DEF Arrived
<1>2. PICK rnxt \in Nat, len \in Nat : rnxt = s.rnxt /\ len = Len(s.rbuf)
  BY <1>0, TcbTypes
<1>3. rnxt > 0 /\ c + len + 1 = rnxt
  BY <1>2 DEF Arrived, Counted
<1>4. /\ Fine(o, v, r) /\ Grows(s, v) /\ Frame(s, v, {"stash"})
      /\ \A x \in rnxt..rnxt + n - 1 : Held(v, x)
      /\ \A x \in Nat : x >= rnxt /\ Held(s, x) => Held(v, x)
  <2>1. Fine(o, s, r) /\ Arrived(s, r, p)
    OBVIOUS
  <2>2. /\ Fine(o, v, r) /\ Grows(s, v) /\ Frame(s, v, {"stash"})
        /\ \A x \in p.seq..p.seq + Len(p.data) - 1 : Held(v, x)
        /\ \A x \in Nat : x >= s.rnxt /\ Held(s, x) => Held(v, x)
    BY ONLY <1>a, <2>1, StoredFine
  <2> QED
    BY <1>1, <1>2, <2>2
<1>5. v \in Tcb
  BY <1>4 DEF Fine, Half
<1>6. /\ v.rbuf = s.rbuf /\ v.rnxt = rnxt /\ v.rwnd = s.rwnd /\ v.rlist = s.rlist /\ v.shutdown = s.shutdown
  BY <1>2, <1>4 DEF Frame, Fields
<1>7. PICK u : u = Consume(v, n)
  OBVIOUS
<1>8. /\ Fine(o, u, r) /\ Grows(v, u) /\ Frame(v, u, RcvSet) /\ u.rlist = v.rlist
      /\ u.rnxt = v.rnxt + n /\ Len(u.rbuf) = Len(v.rbuf) + n
      /\ \A i \in 1..Len(v.rbuf) : u.rbuf[i] = v.rbuf[i]
      /\ \A i \in 1..n : i <= Len(v.stash) => u.rbuf[Len(v.rbuf) + i] = v.stash[i]
      /\ \A i \in Nat \ {0} : i + n <= Len(v.stash) => i <= Len(u.stash) /\ u.stash[i] = v.stash[i + n]
  <2>1. n <= v.rwnd
    <3>1. PICK w \in Nat : w = s.rwnd
      BY <1>0, TcbTypes
    <3>2. rnxt + n <= rnxt + w
      BY <1>1, <1>2, <3>1 DEF Arrived, Edge
    <3> QED
      BY <1>6, <3>1, <3>2
  <2>2. v.rnxt + n \in Points(r) /\ v.rnxt >= 1
    BY <1>1, <1>2, <1>3, <1>6 DEF Arrived
  <2> QED
    BY ONLY <1>4, n \in Nat \ {0}, <1>7, <2>1, <2>2, ConsumeFine
<1>9. u \in Tcb
  BY <1>8 DEF Fine, Half
<1>10. u.rnxt = rnxt + n /\ Len(u.rbuf) = len + n /\ u.rnxt >= 1
  BY <1>2, <1>6, <1>8
<1>11. Known(k, u, c)
  <2> SUFFICES ASSUME k PROVE Follows(u, c) /\ Kept(u, u.rnxt)
    BY DEF Known
  <2>1. Stream(v, c)
    BY <1>6 DEF Told, Stream
  <2>2. Kept(v, v.rnxt + 1)
    <3>1. Kept(s, rnxt + 1)
      BY <1>2 DEF Told
    <3>2. ASSUME NEW i \in 1..Len(s.rlist), NEW x \in s.rlist[i].seq..s.rlist[i].seq + s.rlist[i].len - 1,
                 x >= rnxt + 1
          PROVE  Held(v, x)
      <4>1. s.rlist[i] \in RangeType
        BY <1>0, TcbTypes, ElementOfSeq
      <4>2. s.rlist[i].seq \in Nat /\ s.rlist[i].len \in Nat
        BY <4>1 DEF RangeType
      <4>3. x \in Nat /\ x >= rnxt
        BY <3>2, <4>2
      <4>4. Held(s, x)
        BY <3>1, <3>2 DEF Kept
      <4> QED
        BY <1>4, <4>3, <4>4
    <3> QED
      BY <1>6, <3>2 DEF Kept
  <2>3. \A j \in 1..n : Held(v, v.rnxt + j - 1)
    <3> TAKE j \in 1..n
    <3>1. rnxt + j - 1 \in rnxt..rnxt + n - 1
      OBVIOUS
    <3> QED
      BY <1>4, <1>6, <3>1
  <2>4. c + Len(v.rbuf) + 1 = v.rnxt
    BY <1>2, <1>3, <1>6
  <2>5. c + Len(u.rbuf) + 1 = u.rnxt /\ Stream(u, c) /\ Kept(u, u.rnxt)
    BY ONLY <1>5, <1>8, <1>9, n \in Nat \ {0}, c \in Nat, <2>1, <2>2, <2>3, <2>4, ConsumeKept
  <2> QED
    BY <2>5 DEF Follows
<1>12. PICK t : t = d.tcb
  OBVIOUS
<1>13. /\ Fine(o, t, r) /\ Grows(u, t) /\ Frame(u, t, RcvSet) /\ d.flag \in Flags
       /\ t.rnxt >= 1 /\ t.rnxt + Len(u.rbuf) = u.rnxt + Len(t.rbuf)
       /\ Known(k, t, c)
  <2>1. d = Recover(u, flag)
    BY <1>a, <1>1, <1>7
  <2>2. Fine(o, u, r) /\ u.rnxt >= 1
    BY <1>8, <1>10
  <2>3. d = Recover(u, flag) =>
         /\ Fine(o, d.tcb, r) /\ Grows(u, d.tcb) /\ Frame(u, d.tcb, RcvSet) /\ d.flag \in Flags
         /\ d.tcb.rnxt >= 1 /\ d.tcb.rnxt + Len(u.rbuf) = u.rnxt + Len(d.tcb.rbuf)
         /\ Known(k, d.tcb, c)
    BY ONLY flag \in Flags, c \in Nat, k \in BOOLEAN, <1>11, <2>2, RecoverFine
  <2> QED
    BY <1>12, <2>1, <2>3
<1>14. t \in Tcb
  BY <1>13 DEF Fine, Half
<1>15. Grows(s, t)
  <2>1. Grows(s, u)
    BY <1>0, <1>4, <1>5, <1>8, <1>9, GrowsTrans
  <2> QED
    BY <1>0, <1>9, <1>13, <1>14, <2>1, GrowsTrans
<1>16. Frame(s, t, RcvSet)
  BY <1>4, <1>8, <1>13 DEF Frame, RcvSet
<1>17. Counted(t, c) /\ len <= Len(t.rbuf)
  <2>1. PICK x \in Nat, y \in Nat : x = t.rnxt /\ y = Len(t.rbuf)
    BY <1>14, TcbTypes
  <2>2. x + (len + n) = rnxt + n + y /\ x >= rnxt
    <3>1. s.rnxt <= t.rnxt
      BY <1>15 DEF Grows
    <3> QED
      BY <1>2, <1>10, <1>13, <2>1, <3>1
  <2>3. c + y + 1 = x /\ len <= y /\ x > 0
    BY <1>3, <2>2
  <2>4. c + y + 1 <= x
    BY <2>3
  <2> QED
    BY <2>1, <2>3, <2>4 DEF Counted
<1>18. Told(k, t, c)
  <2> SUFFICES ASSUME k PROVE Stream(t, c) /\ Kept(t, t.rnxt + 1)
    BY DEF Told
  <2>1. Stream(t, c) /\ Kept(t, t.rnxt)
    BY <1>13 DEF Known, Follows
  <2>2. PICK y \in Nat : y = t.rnxt
    BY <1>14, TcbTypes
  <2>3. ASSUME NEW i \in 1..Len(t.rlist), NEW x \in t.rlist[i].seq..t.rlist[i].seq + t.rlist[i].len - 1,
               x >= y + 1
        PROVE  Held(t, x)
    <3>1. t.rlist[i] \in RangeType
      BY <1>14, TcbTypes, ElementOfSeq
    <3>2. t.rlist[i].seq \in Nat /\ t.rlist[i].len \in Nat
      BY <3>1 DEF RangeType
    <3>3. x \in Nat /\ x >= y
      BY <2>3, <3>2
    <3> QED
      BY <2>1, <2>2, <3>3 DEF Kept
  <2> QED
    BY <2>1, <2>2, <2>3 DEF Kept
<1> QED
  BY <1>2, <1>12, <1>13, <1>15, <1>16, <1>17, <1>18

\* What process does with the data of a packet: it is passed over, kept for later or read. If
\* the stream was in order it still is, unless the connect message comes after other data.
LEMMA TakeDataFine ==
  ASSUME NEW o, NEW s, NEW r, Fine(o, s, r), o => s.una >= 1, NEW p, p.data = <<>> \/ Arrived(s, r, p),
         NEW c \in Nat, Counted(s, c), NEW k \in BOOLEAN, Told(k, s, c),
         k /\ p.ctrl /\ p.data # <<>> => s.rlist = <<>>,
         NEW flag \in Flags, NEW d
  PROVE  d = TakeData(s, p, flag) =>
         /\ Fine(o, d.tcb, r) /\ Grows(s, d.tcb) /\ Frame(s, d.tcb, RcvSet) /\ d.flag \in Flags
         /\ Counted(d.tcb, c) /\ Told(k, d.tcb, c) /\ Len(s.rbuf) <= Len(d.tcb.rbuf)
         /\ p.data # <<>> /\ p.ctrl => d.tcb.rnxt >= 1
         /\ ~ p.ctrl /\ s.rnxt = 0 => d.tcb.rnxt = 0
<1>a. SUFFICES ASSUME d = TakeData(s, p, flag)
      PROVE  /\ Fine(o, d.tcb, r) /\ Grows(s, d.tcb) /\ Frame(s, d.tcb, RcvSet) /\ d.flag \in Flags
             /\ Counted(d.tcb, c) /\ Told(k, d.tcb, c) /\ Len(s.rbuf) <= Len(d.tcb.rbuf)
             /\ p.data # <<>> /\ p.ctrl => d.tcb.rnxt >= 1
             /\ ~ p.ctrl /\ s.rnxt = 0 => d.tcb.rnxt = 0
  OBVIOUS
<1>0. s \in Tcb /\ r \in Tcb
  BY DEF Fine, Half
<1>1. Frame(s, s, RcvSet) /\ Grows(s, s) /\ Len(s.rbuf) <= Len(s.rbuf)
  BY <1>0, GrowsRefl, TcbTypes DEF Frame
<1>2. CASE p.data = <<>>
  <2>1. Len(p.data) = 0
    BY <1>2, EmptySeq
  <2>2. d = [tcb |-> s, flag |-> flag]
    BY <1>a, <2>1 DEF TakeData
  <2>3. d.tcb = s /\ d.flag = flag
    BY <2>2
  <2> QED
    BY <1>1, <1>2, <2>3
<1>3. CASE p.data # <<>>
  <2>1. Arrived(s, r, p)
    BY <1>3
  <2>2. PICK n \in Nat \ {0} : n = Len(p.data)
    BY <2>1, LenProperties, EmptySeq DEF Arrived
  <2>3. p.ctrl \in BOOLEAN
    BY <2>1 DEF Arrived
  <2>6. p.seq = s.rnxt /\ ~ p.ctrl => s.rnxt # 0
    BY <2>1 DEF Arrived
  <2>4. CASE p.ctrl \/ s.shutdown
    <3>1. PICK u : u = IF p.seq = s.rnxt THEN [s EXCEPT !.rnxt = Plus(@, Len(p.data))] ELSE s
      OBVIOUS
    <3>2. d = [tcb |-> u, flag |-> flag]
      BY <1>a, <2>2, <2>4, <3>1 DEF TakeData
    <3>3. d.tcb = u /\ d.flag = flag
      BY <3>2
    <3>4. CASE p.seq = s.rnxt
      <4>1. u = Skipped(s, p) /\ p.seq = s.rnxt
        BY <3>1, <3>4 DEF Skipped
      <4>2. Fine(o, s, r) /\ (o => s.una >= 1) /\ Counted(s, c) /\ Told(k, s, c)
            /\ (k /\ p.ctrl => s.rlist = <<>>)
        BY <1>3
      <4>3. u = Skipped(s, p) /\ p.seq = s.rnxt =>
            /\ Fine(o, u, r) /\ Grows(s, u) /\ Frame(s, u, RcvSet) /\ u.rnxt >= 1
            /\ Counted(u, c) /\ Told(k, u, c) /\ Len(s.rbuf) <= Len(u.rbuf)
        BY ONLY <2>1, <2>4, <4>2, c \in Nat, k \in BOOLEAN, SkippedFine
      <4> QED
        BY <2>6, <3>3, <3>4, <4>1, <4>3
    <3>5. CASE p.seq # s.rnxt
      <4>1. u = s
        BY <3>1, <3>5
      <4>2. p.ctrl => s.rnxt >= 1
        <5>1. p.ctrl => p.seq = 0 /\ s.rnxt \in Nat
          BY <1>0, <2>1, TcbTypes DEF Arrived
        <5> QED
          BY <3>5, <5>1
      <4> QED
        BY <1>1, <3>3, <4>1, <4>2
    <3> QED
      BY <3>4, <3>5
  <2>5. CASE ~ p.ctrl /\ ~ s.shutdown
    <3>1. PICK v : v = WriteOffset(s, p.data, Minus(p.seq, s.rnxt))
      OBVIOUS
    <3>2. CASE p.seq = s.rnxt
      <4>1. d = Recover(Consume(v, Len(p.data)), flag)
        BY <1>a, <2>2, <2>5, <3>1, <3>2 DEF TakeData
      <4>2. Fine(o, s, r) /\ Counted(s, c) /\ Told(k, s, c)
        OBVIOUS
      <4>3. v = WriteOffset(s, p.data, Minus(p.seq, s.rnxt)) /\ d = Recover(Consume(v, Len(p.data)), flag) =>
            /\ Fine(o, d.tcb, r) /\ Grows(s, d.tcb) /\ Frame(s, d.tcb, RcvSet) /\ d.flag \in Flags
            /\ Counted(d.tcb, c) /\ Told(k, d.tcb, c) /\ Len(s.rbuf) <= Len(d.tcb.rbuf)
        BY ONLY <2>1, <2>5, <3>2, <4>2, c \in Nat, k \in BOOLEAN, flag \in Flags, ReadFine
      <4> QED
        BY <2>5, <2>6, <3>1, <3>2, <4>1, <4>3
    <3>3. CASE p.seq # s.rnxt
      <4>1. PICK u : u = Shelved(v, p)
        OBVIOUS
      <4>2. d = [tcb |-> u, flag |-> flag]
        BY <1>a, <2>2, <2>5, <3>1, <3>3, <4>1 DEF TakeData, Shelved
      <4>3. Fine(o, s, r) /\ Counted(s, c) /\ Told(k, s, c)
        OBVIOUS
      <4>4. v = WriteOffset(s, p.data, Minus(p.seq, s.rnxt)) /\ u = Shelved(v, p) =>
            /\ Fine(o, u, r) /\ Grows(s, u) /\ Frame(s, u, RcvSet)
            /\ Counted(u, c) /\ Told(k, u, c) /\ Len(s.rbuf) <= Len(u.rbuf) /\ u.rnxt = s.rnxt
        BY ONLY <2>1, <2>5, <4>3, c \in Nat, k \in BOOLEAN, KeptFine
      <4>5. d.tcb = u /\ d.flag = flag
        BY <4>2
      <4> QED
        BY <2>5, <3>1, <4>1, <4>4, <4>5
    <3> QED
      BY <3>2, <3>3
  <2> QED
    BY <2>3, <2>4, <2>5
<1> QED
  BY <1>2, <1>3

-------------------------------------------------------------------------------
\* process as a whole.

\* What a packet changes before its data is looked at.
Heard == AckSet \cup {"scaled", "writable", "writeEnable"}

\* a is s when the connect message and the acknowledgement of p have been taken.
Entered(o, s, p, w, a) ==
  /\ Frame(s, a, Heard) /\ Total(a) = w + 1 /\ (o => a.una >= 1)
  /\ a.state \in {"syn_sent", "syn_received", "established", "closed"}
  /\ a.state = "syn_sent" => s.state = "syn_sent" /\ ~ p.ctrl
  /\ a.state = "syn_received" => ~ o /\ s.state # "established" /\ (p.ctrl => a.una = 0)
  /\ a.state = "established" => s.state = "established" \/ a.writable
  /\ a.state = "established" => s.state = "established" \/ s.rnxt >= 1 \/ p.ctrl
  /\ s.state = "listen" => a.wnd >= 1 /\ a.una = 0 /\ a.sbuf # <<>> /\ a.state # "closed"

\* What p may be to s.
Fits(o, s, p) ==
  /\ s.state \notin {"closed", "destroyed"}
  /\ s.state = "listen" => p.ctrl /\ ~ o

\* The connect message and the acknowledgement of a packet, taken in this order.
LEMMA AckedFine ==
  ASSUME NEW o \in BOOLEAN, NEW s, NEW r, Fine(o, s, r), NEW q \in BOOLEAN, NEW p \in FromTo(q, r, s), q # o,
         NEW w \in Nat, NEW c \in Nat, Phase(o, s, w, c), Fits(o, s, p), 1 < SeqRange, NEW a
  PROVE  a = TakeAck(TakeConnect(s, p), p) =>
         /\ Fine(o, a, r) /\ Grows(s, a) /\ Entered(o, s, p, w, a) /\ a.writeEnable = s.writeEnable
<1>a. SUFFICES ASSUME a = TakeAck(TakeConnect(s, p), p)
      PROVE  /\ Fine(o, a, r) /\ Grows(s, a) /\ Entered(o, s, p, w, a) /\ a.writeEnable = s.writeEnable
  OBVIOUS
<1>0. s \in Tcb /\ r \in Tcb
  BY DEF Fine, Half
<1>1. /\ p \in Packet /\ p.ctrl \in BOOLEAN /\ p.ack \in Nat
      /\ p.ctrl => p.data # <<>>
      /\ ~ o /\ p.ctrl => p.ack = 0 /\ p.wnd >= 1
      /\ o => p.ack >= 1
  BY DEF FromTo, Packet
<1>2. s.state \in States
  BY <1>0 DEF Tcb
<1>3. PICK x : x = TakeConnect(s, p)
  OBVIOUS
<1>4. s.state = "listen" => s.una = 0 /\ s.sbuf = <<>> /\ s.wnd = 1 /\ w = 0 /\ s.rnxt = 0
  <2>1. s.state = "listen" => s.una = 0 /\ s.sbuf = <<>> /\ s.wnd = 1 /\ s.rnxt = 0
    BY DEF Phase, Initial
  <2>2. s.state = "listen" => w = 0
    <3>1. s.state = "listen" => Total(s) = w + 0
      BY DEF Phase
    <3>2. s.sbuf = <<>> => Len(s.sbuf) = 0
      BY EmptySeq
    <3> QED
      BY <2>1, <3>1, <3>2 DEF Total
  <2> QED
    BY <2>1, <2>2
<1>5. /\ Fine(o, x, r) /\ Grows(s, x)
      /\ Frame(s, x, OpenSet)
      /\ ~ p.ctrl => x = s
      /\ p.ctrl /\ s.state = "listen" =>
           x.state = "syn_received" /\ Total(x) = 1 /\ Len(x.sbuf) = 1 /\ x.scaled /\ x.writable = s.writable
      /\ p.ctrl /\ s.state = "syn_sent" => x.state = "established" /\ x.writable = TRUE /\ x.sbuf = s.sbuf
      /\ s.state \notin {"listen", "syn_sent"} => x.state = s.state /\ x.writable = s.writable /\ x.sbuf = s.sbuf
  <2>1. s.state = "listen" => s.una = 0 /\ s.sbuf = <<>> /\ s.wnd = 1
    BY <1>4
  <2>2. Fine(o, s, r) /\ 1 < SeqRange
    OBVIOUS
  <2>3. x = TakeConnect(s, p) => Fine(o, x, r) /\ Grows(s, x) /\ Opened(s, p, x)
    BY ONLY o \in BOOLEAN, <2>1, <2>2, TakeConnectFine
  <2> QED
    BY <1>3, <2>3 DEF Opened
<1>6. x \in Tcb /\ x.rnxt = s.rnxt /\ x.una = s.una /\ x.wnd = s.wnd /\ x.writeEnable = s.writeEnable
  BY <1>5 DEF Fine, Half, Frame, Fields, OpenSet
<1>7. p \in FromTo(q, r, x)
  BY <1>0, <1>5, <1>6, FromToGrows
<1>8. Total(x) = w + 1
  <2>1. CASE s.state = "listen"
    <3>1. p.ctrl
      BY <2>1 DEF Fits
    <3> QED
      BY <1>4, <1>5, <2>1, <3>1
  <2>2. CASE s.state # "listen"
    <3>1. x.sbuf = s.sbuf
      BY <1>1, <1>5, <2>2
    <3>2. Total(s) = w + 1
      BY <2>2 DEF Phase
    <3> QED
      BY <1>6, <3>1, <3>2 DEF Total
  <2> QED
    BY <2>1, <2>2
<1>9. s.state = "listen" => p.ack = x.una /\ p.data # <<>> /\ p.ctrl /\ ~ o
  BY <1>1, <1>4, <1>6 DEF Fits
<1>10. /\ Fine(o, a, r) /\ Grows(x, a) /\ Frame(x, a, AckSet)
       /\ p.ack <= a.una /\ a.una \in {x.una, p.ack}
       /\ Total(a) = Total(x) /\ a.state \in {x.state, "closed"}
       /\ p.ack = x.una /\ p.data # <<>> => Frame(x, a, {"wnd"})
  <2>1. o \/ x.rnxt >= 1 \/ (p.ack = x.una /\ p.data # <<>>)
    <3>1. ~ o /\ s.state # "listen" => s.rnxt >= 1
      BY DEF Phase
    <3> QED
      BY <1>6, <1>9, <3>1
  <2>2. Fine(o, x, r)
    BY <1>5
  <2>3. a = TakeAck(x, p)
    BY <1>a, <1>3
  <2> QED
    BY ONLY o \in BOOLEAN, <1>7, <2>1, <2>2, <2>3, TakeAckFine
<1>11. a \in Tcb /\ a.writable = x.writable /\ a.writeEnable = x.writeEnable
  BY <1>10 DEF Fine, Half, Frame, Fields, AckSet, Sent
<1>12. Grows(s, a)
  BY <1>0, <1>5, <1>6, <1>10, <1>11, GrowsTrans
<1>13. Frame(s, a, Heard)
  BY <1>5, <1>10 DEF Frame, Heard, AckSet, Sent, OpenSet
<1>14. o => a.una >= 1
  BY <1>1, <1>10, <1>11, TcbTypes
<1>15. CASE s.state = "listen"
  <2>1. p.ctrl /\ x.state = "syn_received" /\ Total(x) = 1 /\ Len(x.sbuf) = 1 /\ x.scaled
    BY <1>5, <1>9, <1>15
  <2>2. Frame(x, a, {"wnd"}) /\ a.state = "syn_received" /\ a.una = 0 /\ a.sbuf = x.sbuf
    <3>1. Frame(x, a, {"wnd"})
      BY <1>9, <1>10, <1>15
    <3>2. a.state = x.state /\ a.una = x.una /\ a.sbuf = x.sbuf
      BY <3>1 DEF Frame, Fields
    <3> QED
      BY <1>4, <1>6, <1>15, <2>1, <3>1, <3>2
  <2>3. a.sbuf # <<>>
    <3>1. Len(a.sbuf) = 1
      BY <2>1, <2>2
    <3>2. a.sbuf = <<>> => Len(a.sbuf) = 0
      BY EmptySeq
    <3> QED
      BY <3>1, <3>2
  <2>4. a.wnd >= 1
    <3>1. p.ack = x.una /\ p.data # <<>>
      BY <1>9, <1>15
    <3>2. a = SameAck(x, p)
      BY <1>a, <1>1, <1>3, <3>1, <1>6, TcbTypes DEF TakeAck
    <3>3. PICK y : y = Window(x, p)
      OBVIOUS
    <3>4. a = [x EXCEPT !.wnd = y]
      BY <3>1, <3>2, <3>3 DEF SameAck
    <3>5. a.wnd = y
      BY <1>6, <3>4 DEF Tcb
    <3>6. y = p.wnd * WndUnit
      BY <2>1, <3>3 DEF Window
    <3>7. PICK m \in Nat, n \in Nat \ {0} : m = p.wnd /\ n = WndUnit
      BY <1>1, Consts DEF Packet
    <3>8. m >= 1
      BY <1>1, <1>9, <1>15, <3>7
    <3>9. m * n >= 1
      BY <3>8
    <3> QED
      BY <3>5, <3>6, <3>7, <3>9
  <2> QED
    BY <1>8, <1>9, <1>10, <1>11, <1>12, <1>13, <1>15, <1>6, <2>2, <2>3, <2>4 DEF Entered
<1>16. CASE s.state = "syn_sent"
  <2>1. o
    BY <1>16 DEF Phase
  <2>2. p.ctrl => x.state = "established" /\ x.writable = TRUE
    BY <1>5, <1>16
  <2>3. ~ p.ctrl => x.state = "syn_sent"
    BY <1>5, <1>16
  <2> QED
    BY <1>1, <1>6, <1>8, <1>10, <1>11, <1>12, <1>13, <1>14, <1>16, <2>1, <2>2, <2>3 DEF Entered
<1>17. CASE s.state = "syn_received"
  <2>1. ~ o /\ s.una = 0 /\ s.rnxt >= 1 /\ x.state = "syn_received"
    BY <1>5, <1>17 DEF Phase
  <2>2. a.state \in {"syn_received", "closed"}
    BY <1>10, <2>1
  <2>3. p.ctrl => a.una = 0
    BY <1>1, <1>6, <1>10, <2>1
  <2> QED
    BY <1>6, <1>8, <1>10, <1>11, <1>12, <1>13, <1>17, <2>1, <2>2, <2>3 DEF Entered
<1>18. CASE s.state = "established"
  <2>1. x.state = "established"
    BY <1>5, <1>18
  <2> QED
    BY <1>6, <1>8, <1>10, <1>11, <1>12, <1>13, <1>14, <1>18, <2>1 DEF Entered
<1> QED
  BY <1>2, <1>15, <1>16, <1>17, <1>18 DEF Fits, States

\* Half of both buffers, below which the application is told to write again.
Mean == (SndBuf + RcvBuf) \div 2

\* v is s before the data of p is looked at.
Settled(o, s, p, w, v) ==
  /\ Frame(s, v, Heard) /\ Total(v) = w + 1 /\ (o => v.una >= 1)
  /\ v.state \in {"syn_sent", "syn_received", "established"}
  /\ v.state = "syn_sent" => s.state = "syn_sent" /\ ~ p.ctrl
  /\ v.state = "syn_received" => ~ o /\ s.state # "established" /\ v.una = 0
  /\ v.state = "established" => s.rnxt >= 1 \/ p.ctrl
  /\ s.state = "listen" => v.wnd >= 1 /\ v.una = 0 /\ v.sbuf # <<>>
  /\ v.state = "established" /\ ~ v.writable =>
       s.state = "established" /\ (s.writeEnable => v.writeEnable) /\ (v.writeEnable => Len(v.sbuf) >= Mean)

\* What process makes of a when it has taken the acknowledgement of p.
Joined(a, p) == IF a.state = "syn_received" /\ ~ p.ctrl THEN Establish(a) ELSE a

\* An acknowledgement that has been taken, or one that makes an end in SYN_RECEIVED
\* established, before the data of its packet is looked at.
LEMMA JoinedFine ==
  ASSUME NEW o \in BOOLEAN, NEW s, s \in Tcb, NEW r, NEW p, p.ctrl \in BOOLEAN, NEW w \in Nat, NEW c \in Nat,
         Phase(o, s, w, c), Fits(o, s, p), NEW a, Fine(o, a, r), Grows(s, a), Entered(o, s, p, w, a),
         a.writeEnable = s.writeEnable, a.state # "closed", NEW k, NEW v
  PROVE  k = Joined(a, p) /\ v = NotifyWriteable(k) =>
         /\ Fine(o, k, r) /\ Grows(s, k) /\ Fine(o, v, r) /\ Grows(s, v)
         /\ Frame(k, v, {"writeEnable", "writable"}) /\ Settled(o, s, p, w, v)
<1>a. SUFFICES ASSUME k = Joined(a, p), v = NotifyWriteable(k)
      PROVE  /\ Fine(o, k, r) /\ Grows(s, k) /\ Fine(o, v, r) /\ Grows(s, v)
             /\ Frame(k, v, {"writeEnable", "writable"}) /\ Settled(o, s, p, w, v)
  OBVIOUS
<1>0. a \in Tcb /\ r \in Tcb
  BY DEF Fine, Half
<1>1. /\ Frame(s, a, Heard) /\ Total(a) = w + 1 /\ (o => a.una >= 1)
      /\ a.state \in {"syn_sent", "syn_received", "established"}
      /\ a.state = "syn_sent" => s.state = "syn_sent" /\ ~ p.ctrl
      /\ a.state = "syn_received" => ~ o /\ s.state # "established" /\ (p.ctrl => a.una = 0)
      /\ a.state = "established" => s.state = "established" \/ a.writable
      /\ a.state = "established" => s.state = "established" \/ s.rnxt >= 1 \/ p.ctrl
      /\ s.state = "listen" => a.wnd >= 1 /\ a.una = 0 /\ a.sbuf # <<>>
  BY DEF Entered
<1>2. PICK S : S = {"state", "writable", "level", "mss", "ssthresh", "cwnd"}
  OBVIOUS
<1>3. /\ Fine(o, k, r) /\ Grows(a, k) /\ Frame(a, k, S)
      /\ a.state = "syn_received" /\ ~ p.ctrl => k.state = "established" /\ k.writable = TRUE
      /\ ~ (a.state = "syn_received" /\ ~ p.ctrl) => k = a
  <2>1. CASE a.state = "syn_received" /\ ~ p.ctrl
    <3>1. k = Establish(a)
      BY <1>a, <2>1 DEF Joined
    <3>2. /\ Fine(o, k, r) /\ Grows(a, k)
          /\ Frame(a, k, {"state", "writable", "level", "mss", "ssthresh", "cwnd"})
          /\ k.state = "established" /\ k.writable = TRUE
      BY <3>1, EstablishFine
    <3> QED
      BY <1>2, <2>1, <3>2
  <2>2. CASE ~ (a.state = "syn_received" /\ ~ p.ctrl)
    <3>1. k = a
      BY <1>a, <2>2 DEF Joined
    <3> QED
      BY <1>0, <2>2, <3>1, GrowsRefl DEF Frame
  <2> QED
    BY <2>1, <2>2
<1>4. /\ Fine(o, v, r) /\ Grows(k, v) /\ Frame(k, v, {"writeEnable", "writable"})
      /\ v.writeEnable /\ ~ v.writable => Len(v.sbuf) >= Mean
      /\ v.writeEnable = k.writeEnable \/ v.writable = TRUE
      /\ k.writable => v.writable
  <2>1. v = NotifyWriteable(k) /\ Fine(o, k, r)
    BY <1>a, <1>3
  <2>2. /\ Fine(o, v, r) /\ Grows(k, v) /\ Frame(k, v, {"writeEnable", "writable"})
        /\ v.writeEnable /\ ~ v.writable => Len(v.sbuf) >= (SndBuf + RcvBuf) \div 2
        /\ v.writeEnable = k.writeEnable \/ v.writable = TRUE
        /\ k.writable => v.writable
    BY ONLY <2>1, NotifyFine
  <2> QED
    BY <2>2 DEF Mean
<1>5. k \in Tcb /\ v \in Tcb
  BY <1>3, <1>4 DEF Fine, Half
<1>6. Grows(s, k) /\ Grows(s, v)
  <2>1. Grows(s, k)
    BY <1>0, <1>3, <1>5, GrowsTrans
  <2>2. Grows(s, v)
    BY <1>4, <1>5, <2>1, GrowsTrans
  <2> QED
    BY <2>1, <2>2
<1>7. /\ k.una = a.una /\ k.sbuf = a.sbuf /\ k.wnd = a.wnd /\ k.writeEnable = a.writeEnable
      /\ v.una = k.una /\ v.sbuf = k.sbuf /\ v.wnd = k.wnd /\ v.state = k.state
  <2>1. k.una = a.una /\ k.sbuf = a.sbuf /\ k.wnd = a.wnd /\ k.writeEnable = a.writeEnable
    BY <1>2, <1>3 DEF Frame, Fields
  <2>2. v.una = k.una /\ v.sbuf = k.sbuf /\ v.wnd = k.wnd /\ v.state = k.state
    BY <1>4 DEF Frame, Fields
  <2> QED
    BY <2>1, <2>2
<1>8. Frame(s, v, Heard)
  BY <1>1, <1>2, <1>3, <1>4 DEF Frame, Heard, AckSet, Sent
<1>9. Settled(o, s, p, w, v)
  <2>0. Total(v) = w + 1 /\ (o => v.una >= 1)
    BY <1>1, <1>7 DEF Total
  <2>1. s.state = "listen" => v.wnd >= 1 /\ v.una = 0 /\ v.sbuf # <<>>
    BY <1>1, <1>7
  <2>2. s.state = "established" => s.rnxt >= 1
    BY DEF Phase
  <2>3. CASE a.state = "syn_received" /\ ~ p.ctrl
    <3>1. v.state = "established" /\ v.writable
      BY <1>3, <1>4, <1>7, <2>3
    <3>2. s.rnxt >= 1
      <4>1. ~ o /\ s.state # "listen"
        BY <1>1, <2>3 DEF Fits
      <4> QED
        BY <4>1 DEF Phase
    <3> QED
      BY <1>8, <2>0, <2>1, <3>1, <3>2 DEF Settled
  <2>4. CASE ~ (a.state = "syn_received" /\ ~ p.ctrl)
    <3>1. k = a
      BY <1>3, <2>4
    <3>2. v.state = a.state /\ v.una = a.una
      BY <1>7, <3>1
    <3>3. v.state = "established" /\ ~ v.writable => s.state = "established"
      BY <1>1, <1>4, <3>1, <3>2
    <3>4. ~ v.writable => (s.writeEnable => v.writeEnable) /\ (v.writeEnable => Len(v.sbuf) >= Mean)
      BY <1>4, <1>7
    <3> QED
      BY <1>1, <1>8, <2>0, <2>1, <2>2, <2>4, <3>2, <3>3, <3>4 DEF Settled
  <2> QED
    BY <2>3, <2>4
<1> QED
  BY <1>3, <1>4, <1>6, <1>9

\* What an end is between two calls, but for the packets and the notifications of the last one.
Going(o, s, w, c, k, read, write) ==
  /\ Phase(o, s, w, c + Len(s.rbuf))
  /\ Progress(s, read \/ s.readable, write \/ s.writable)
  /\ Told(k, s, c)

\* What has been delivered and kept between two calls is what is counted while one runs.
LEMMA CountedOfPhase ==
  ASSUME NEW o, NEW s \in Tcb, NEW w, NEW c \in Nat, Phase(o, s, w, c + Len(s.rbuf))
  PROVE  Counted(s, c)
<1>1. PICK n \in Nat, x \in Nat : n = Len(s.rbuf) /\ x = s.rnxt
  BY TcbTypes
<1> QED
  BY <1>1 DEF Phase, Counted

\* Nothing has been taken but the acknowledgement, which ends the connection.
LEMMA EndedGoing ==
  ASSUME NEW o \in BOOLEAN, NEW s, s \in Tcb, NEW r, NEW p, NEW w \in Nat, NEW c \in Nat, NEW k \in BOOLEAN,
         NEW read \in BOOLEAN, NEW write \in BOOLEAN, Going(o, s, w, c, k, read, write), ~ s.readable,
         NEW a, Fine(o, a, r), Grows(s, a), Entered(o, s, p, w, a), a.state = "closed"
  PROVE  Going(o, a, w, c, k, read, write)
<1>0. a \in Tcb
  BY DEF Fine, Half
<1>1. /\ a.rbuf = s.rbuf /\ a.rnxt = s.rnxt /\ a.rlist = s.rlist /\ a.stash = s.stash
      /\ a.shutdown = s.shutdown /\ a.readEnable = s.readEnable
  BY DEF Entered, Frame, Fields, Heard, AckSet, Sent
<1>2. Phase(o, s, w, c + Len(s.rbuf)) /\ s.state # "listen" /\ Total(a) = w + 1
  BY DEF Going, Entered
<1>3. a.nxt >= 1
  <2>1. s.nxt >= 1
    BY <1>2 DEF Phase
  <2>2. s.nxt <= a.nxt /\ s.nxt \in Nat /\ a.nxt \in Nat
    BY <1>0, TcbTypes DEF Grows
  <2> QED
    BY <2>1, <2>2
<1>4. Phase(o, a, w, c + Len(a.rbuf))
  <2>1. /\ w > 0 => a.rnxt >= 1
        /\ ~ o => a.rnxt >= 1
        /\ a.rnxt = 0 => c + Len(a.rbuf) = 0
        /\ a.rnxt > 0 => c + Len(a.rbuf) + 1 <= a.rnxt /\ (~ a.shutdown => c + Len(a.rbuf) + 1 = a.rnxt)
    BY <1>1, <1>2 DEF Phase
  <2> QED
    BY <1>2, <1>3, <2>1 DEF Phase
<1>5. Progress(a, read \/ a.readable, write \/ a.writable)
  <2>1. s.rbuf # <<>> \/ ~ s.readEnable => read
    BY DEF Going, Progress
  <2> QED
    BY <1>1, <2>1 DEF Progress
<1>6. Told(k, a, c)
  <2>1. \A x : Held(s, x) => Held(a, x)
    BY <1>1 DEF Held
  <2>2. Stream(s, c) => Stream(a, c)
    BY <1>1 DEF Stream
  <2>3. Kept(s, s.rnxt + 1) => Kept(a, a.rnxt + 1)
    BY <1>1, <2>1 DEF Kept
  <2> QED
    BY <1>1, <2>2, <2>3 DEF Going, Told
<1> QED
  BY <1>4, <1>5, <1>6 DEF Going

\* e is s when the packet has been taken, and d before anything has been sent.
Onward(o, s, d, e, w, c, k, write) ==
  /\ Phase(o, e, w, c + Len(e.rbuf)) /\ Told(k, e, c) /\ e.rbuf = d.rbuf /\ e.readEnable = s.readEnable
  /\ e.state \notin {"closed", "destroyed"} /\ e.una = e.nxt /\ e.sbuf # <<>> => e.wnd = 0
  /\ e.state = "established" /\ ~ (write \/ e.writable) =>
       e.writeEnable /\ Len(e.sbuf) >= Smaller(SndBuf, (SndBuf + RcvBuf) \div 2)
  /\ e.state # "listen" /\ ~ e.readable /\ e.readEnable \in BOOLEAN

\* d is v when the data of p has been taken, and e when what may be sent has been sent.
LEMMA SentGoing ==
  ASSUME NEW o \in BOOLEAN, NEW s, s \in Tcb, NEW r, NEW p, p.ctrl \in BOOLEAN, NEW w \in Nat, NEW c \in Nat,
         NEW k \in BOOLEAN, NEW read \in BOOLEAN, NEW write \in BOOLEAN, Going(o, s, w, c, k, read, write),
         ~ s.readable, ~ s.writable, Fits(o, s, p),
         NEW v, Grows(s, v), Settled(o, s, p, w, v),
         NEW d, d \in Tcb, Grows(v, d), Frame(v, d, RcvSet), Counted(d, c), Told(k, d, c),
         p.ctrl => d.rnxt >= 1, ~ p.ctrl /\ s.rnxt = 0 => d.rnxt = 0,
         NEW e, Fine(o, e, r), v \in Tcb, Grows(d, e), Frame(d, e, Sent),
         e.una = e.nxt /\ e.sbuf # <<>> => e.wnd = 0
  PROVE  Onward(o, s, d, e, w, c, k, write)
<1>0. e \in Tcb
  BY DEF Fine, Half
<1>1. /\ d.state = v.state /\ d.una = v.una /\ d.sbuf = v.sbuf /\ d.wnd = v.wnd /\ d.shutdown = v.shutdown
      /\ d.readEnable = v.readEnable /\ d.writeEnable = v.writeEnable /\ d.writable = v.writable
      /\ d.readable = v.readable
  BY DEF Frame, Fields, RcvSet
<1>2. /\ e.state = d.state /\ e.una = d.una /\ e.sbuf = d.sbuf /\ e.wnd = d.wnd /\ e.shutdown = d.shutdown
      /\ e.readEnable = d.readEnable /\ e.writeEnable = d.writeEnable /\ e.writable = d.writable
      /\ e.readable = d.readable
  BY DEF Frame, Fields, Sent
<1>3. /\ e.rnxt = d.rnxt /\ e.rbuf = d.rbuf /\ e.rlist = d.rlist /\ e.stash = d.stash
  BY DEF Frame, Fields, Sent
<1>4. v.shutdown = s.shutdown /\ v.readEnable = s.readEnable /\ v.rnxt = s.rnxt /\ v.readable = s.readable
  BY DEF Settled, Frame, Fields, Heard, AckSet, Sent
<1>5. Phase(o, s, w, c + Len(s.rbuf)) /\ Progress(s, read, write)
  BY DEF Going
<1>6. /\ s.nxt \in Nat /\ e.nxt \in Nat /\ s.rnxt \in Nat /\ d.rnxt \in Nat /\ v.nxt \in Nat /\ d.nxt \in Nat
  BY <1>0, TcbTypes
<1>7. s.nxt <= e.nxt /\ s.rnxt <= d.rnxt
  <2>1. s.nxt <= v.nxt /\ v.nxt <= d.nxt /\ d.nxt <= e.nxt
    BY DEF Grows
  <2>2. v.rnxt <= d.rnxt
    BY DEF Grows
  <2> QED
    BY <1>4, <1>6, <2>1, <2>2
<1>8. /\ v.state \in {"syn_sent", "syn_received", "established"} /\ Total(v) = w + 1
      /\ v.state = "syn_sent" => s.state = "syn_sent" /\ ~ p.ctrl
      /\ v.state = "syn_received" => ~ o /\ v.una = 0
      /\ v.state = "established" => s.rnxt >= 1 \/ p.ctrl
      /\ s.state = "listen" => v.wnd >= 1 /\ v.una = 0 /\ v.sbuf # <<>>
      /\ v.state = "established" /\ ~ v.writable =>
           s.state = "established" /\ (s.writeEnable => v.writeEnable) /\ (v.writeEnable => Len(v.sbuf) >= Mean)
  BY DEF Settled
<1>9. e.nxt >= 1
  <2>1. CASE s.state = "listen"
    <3>1. v.wnd >= 1 /\ v.una = 0 /\ v.sbuf # <<>>
      BY <1>8, <2>1
    <3>2. e.nxt # 0
      <4>1. e.wnd # 0
        BY <1>0, <1>1, <1>2, <3>1, TcbTypes
      <4> QED
        BY <1>1, <1>2, <3>1, <4>1
    <3> QED
      BY <1>6, <3>2
  <2>2. CASE s.state # "listen"
    <3>1. s.nxt >= 1
      BY <1>5, <2>2 DEF Phase
    <3> QED
      BY <1>6, <1>7, <3>1
  <2> QED
    BY <2>1, <2>2
<1>10. Phase(o, e, w, c + Len(e.rbuf))
  <2>1. Total(e) = w + 1 /\ e.state # "listen" /\ e.state # "destroyed"
    BY <1>1, <1>2, <1>8 DEF Total
  <2>2. e.state = "syn_sent" => o /\ e.rnxt = 0
    <3> SUFFICES ASSUME e.state = "syn_sent" PROVE o /\ d.rnxt = 0
      BY <1>3
    <3>1. s.state = "syn_sent" /\ ~ p.ctrl
      BY <1>1, <1>2, <1>8
    <3>2. o /\ s.rnxt = 0
      BY <1>5, <3>1 DEF Phase
    <3> QED
      BY <3>1, <3>2
  <2>3. e.state = "syn_received" => ~ o /\ e.una = 0
    BY <1>1, <1>2, <1>8
  <2>4. e.state = "established" \/ w > 0 => e.rnxt >= 1
    <3>1. w > 0 => s.rnxt >= 1
      BY <1>5 DEF Phase
    <3>2. s.rnxt >= 1 => d.rnxt >= 1
      BY <1>6, <1>7
    <3> QED
      BY <1>1, <1>2, <1>3, <1>8, <3>1, <3>2
  <2>5. ~ o => e.rnxt >= 1
    <3>1. ~ o /\ s.state # "listen" => s.rnxt >= 1
      BY <1>5 DEF Phase
    <3>2. s.state = "listen" => p.ctrl
      BY DEF Fits
    <3>3. s.rnxt >= 1 => d.rnxt >= 1
      BY <1>6, <1>7
    <3> QED
      BY <1>3, <3>1, <3>2, <3>3
  <2>6. e.shutdown => e.state \in {"established", "closed", "destroyed"}
    <3> SUFFICES ASSUME e.shutdown PROVE e.state = "established"
      OBVIOUS
    <3>1. s.shutdown
      BY <1>1, <1>2, <1>4
    <3>2. s.state = "established"
      BY <1>5, <3>1 DEF Phase, Fits
    <3>3. ~ o => s.una \in Nat
      BY TcbTypes
    <3>4. v.state # "syn_sent"
      BY <1>8, <3>2
    <3>5. v.state # "syn_received"
      BY <1>8, <3>2 DEF Settled
    <3> QED
      BY <1>1, <1>2, <1>8, <3>4, <3>5
  <2>7. /\ e.rnxt = 0 => c + Len(e.rbuf) = 0
        /\ e.rnxt > 0 => c + Len(e.rbuf) + 1 <= e.rnxt /\ (~ e.shutdown => c + Len(e.rbuf) + 1 = e.rnxt)
    BY <1>2, <1>3 DEF Counted
  <2> QED
    BY <1>9, <2>1, <2>2, <2>3, <2>4, <2>5, <2>6, <2>7 DEF Phase
<1>11. Told(k, e, c)
  <2>1. \A x : Held(d, x) => Held(e, x)
    BY <1>3 DEF Held
  <2>2. Stream(d, c) => Stream(e, c)
    BY <1>3 DEF Stream
  <2>3. Kept(d, d.rnxt + 1) => Kept(e, e.rnxt + 1)
    BY <1>3, <2>1 DEF Kept
  <2> QED
    BY <1>2, <2>2, <2>3 DEF Told
<1>12. e.state = "established" /\ ~ (write \/ e.writable) =>
         e.writeEnable /\ Len(e.sbuf) >= Smaller(SndBuf, (SndBuf + RcvBuf) \div 2)
  <2> SUFFICES ASSUME e.state = "established", ~ write, ~ e.writable
      PROVE  e.writeEnable /\ Len(e.sbuf) >= Smaller(SndBuf, Mean)
    BY DEF Mean
  <2>1. s.state = "established" /\ (s.writeEnable => v.writeEnable) /\ (v.writeEnable => Len(v.sbuf) >= Mean)
    BY <1>1, <1>2, <1>8
  <2>2. s.writeEnable
    BY <1>5, <2>1 DEF Progress
  <2>3. e.writeEnable /\ Len(e.sbuf) >= Mean
    BY <1>1, <1>2, <2>1, <2>2
  <2>4. PICK n \in Nat, m \in Nat, b \in Nat : n = Len(e.sbuf) /\ m = Mean /\ b = SndBuf
    <3>1. PICK x \in Nat, y \in Nat : x = SndBuf /\ y = RcvBuf
      BY Consts
    <3>2. (x + y) \div 2 \in Nat
      OBVIOUS
    <3> QED
      BY <1>0, <3>1, <3>2, TcbTypes DEF Mean
  <2> QED
    BY <2>3, <2>4 DEF Smaller
<1>13. e.readEnable \in BOOLEAN
  BY <1>0 DEF Tcb
<1> QED
  BY <1>1, <1>2, <1>3, <1>4, <1>8, <1>10, <1>11, <1>12, <1>13 DEF Onward

\* What is new to s is new to t, when the acknowledgement has left the receiver alone.
LEMMA ArrivedToo ==
  ASSUME NEW s, NEW r, NEW t, NEW p, Arrived(s, r, p), t.rnxt = s.rnxt, t.rwnd = s.rwnd
  PROVE  Arrived(t, r, p)
  BY DEF Arrived, Edge

\* Telling the application of data is on neither side of what is said.
LEMMA ReadableFine ==
  ASSUME NEW o, NEW s, NEW r, Fine(o, s, r), NEW t
  PROVE  t = [s EXCEPT !.readEnable = FALSE, !.readable = TRUE] =>
         /\ Fine(o, t, r) /\ Grows(s, t) /\ Frame(s, t, {"readEnable", "readable"})
         /\ t.readable
<1>a. SUFFICES ASSUME t = [s EXCEPT !.readEnable = FALSE, !.readable = TRUE]
      PROVE  /\ Fine(o, t, r) /\ Grows(s, t) /\ Frame(s, t, {"readEnable", "readable"})
             /\ t.readable
  OBVIOUS
<1>0. s \in Tcb /\ SndOK(s) /\ CcOK(s)
  BY DEF Fine, Half
<1>1. t \in Tcb /\ t.readable
  BY <1>a, <1>0 DEF Tcb
<1>2. Frame(s, t, {"readEnable", "readable"})
  BY <1>a, <1>0 DEF Tcb, Frame, Fields
<1>3. Frame(s, t, Soft)
  BY <1>2 DEF Frame, Soft
<1>4. t.mss = s.mss /\ t.level = s.level /\ t.recover = s.recover /\ t.nxt = s.nxt /\ t.cwnd = s.cwnd
  BY <1>2 DEF Frame, Fields
<1>5. CcOK(t) /\ t.recover <= t.nxt
  BY <1>0, <1>4 DEF CcOK, SndOK
<1> QED
  BY <1>1, <1>2, <1>3, <1>5, SoftFine

\* process, from the lookup of the state to the last attemptSend: the ends agree, and the
\* progress and the contents of the connection are kept, for every packet that the peer may
\* have sent and every packet that the network has held back.
LEMMA ProcessFine ==
  ASSUME NEW o \in BOOLEAN, NEW s, NEW r, Fine(o, s, r), NEW q \in BOOLEAN, NEW p \in FromTo(q, r, s), q # o,
         Fits(o, s, p), 1 < SeqRange, ~ s.readable, ~ s.writable,
         NEW w \in Nat, NEW c \in Nat, NEW k \in BOOLEAN, k /\ o => InTurn(s),
         NEW read \in BOOLEAN, NEW write \in BOOLEAN, Going(o, s, w, c, k, read, write),
         NEW idle \in BOOLEAN, NEW t
  PROVE  t = Process(s, p, idle) =>
         Fine(o, t, r) /\ Grows(s, t) /\ Going(o, t, w, c, k, read, write) /\ t.state # "listen"
<1>a. SUFFICES ASSUME t = Process(s, p, idle)
      PROVE  Fine(o, t, r) /\ Grows(s, t) /\ Going(o, t, w, c, k, read, write) /\ t.state # "listen"
  OBVIOUS
<1>0. s \in Tcb /\ r \in Tcb
  BY DEF Fine, Half
<1>1. p \in Packet /\ p.ctrl \in BOOLEAN /\ (p.ctrl => p.data # <<>> /\ p.seq = 0) /\ (p.data # <<>> => (p.ctrl <=> p.seq = 0))
      /\ (p.ctrl => Len(p.data) = 1) /\ p.seq \in Nat /\ p.data \in Seq(Nat)
  BY DEF FromTo, Packet
<1>2. Phase(o, s, w, c + Len(s.rbuf)) /\ Told(k, s, c)
  BY DEF Going
<1>3. PICK a : a = TakeAck(TakeConnect(s, p), p)
  OBVIOUS
<1>4. Fine(o, a, r) /\ Grows(s, a) /\ Entered(o, s, p, w, a) /\ a.writeEnable = s.writeEnable
  <2>1. PICK n \in Nat : n = c + Len(s.rbuf)
    <3>1. PICK m \in Nat : m = Len(s.rbuf)
      BY <1>0, TcbTypes
    <3> QED
      BY <3>1
  <2>2. Fine(o, s, r) /\ q # o /\ Phase(o, s, w, n) /\ Fits(o, s, p) /\ 1 < SeqRange
    BY <1>2, <2>1
  <2>3. a = TakeAck(TakeConnect(s, p), p) =>
        Fine(o, a, r) /\ Grows(s, a) /\ Entered(o, s, p, w, a) /\ a.writeEnable = s.writeEnable
    BY ONLY o \in BOOLEAN, q \in BOOLEAN, p \in FromTo(q, r, s), w \in Nat, n \in Nat, <2>2, AckedFine
  <2> QED
    BY <1>3, <2>3
<1>5. CASE a.state = "closed"
  <2>1. t = a
    BY <1>a, <1>3, <1>5 DEF Process
  <2>2. Going(o, a, w, c, k, read, write)
    BY <1>0, <1>4, <1>5, EndedGoing
  <2> QED
    BY <1>4, <1>5, <2>1, <2>2
<1>6. CASE a.state # "closed"
  <2>1. PICK j, v : j = Joined(a, p) /\ v = NotifyWriteable(j)
    OBVIOUS
  <2>2. /\ Fine(o, j, r) /\ Grows(s, j) /\ Fine(o, v, r) /\ Grows(s, v)
        /\ Frame(j, v, {"writeEnable", "writable"}) /\ Settled(o, s, p, w, v)
    <3>1. PICK n \in Nat : n = c + Len(s.rbuf)
      <4>1. PICK m \in Nat : m = Len(s.rbuf)
        BY <1>0, TcbTypes
      <4> QED
        BY <4>1
    <3>2. /\ s \in Tcb /\ p.ctrl \in BOOLEAN /\ Phase(o, s, w, n) /\ Fits(o, s, p) /\ Fine(o, a, r)
          /\ Grows(s, a) /\ Entered(o, s, p, w, a) /\ a.writeEnable = s.writeEnable /\ a.state # "closed"
      BY <1>0, <1>1, <1>2, <1>4, <1>6, <3>1
    <3>3. j = Joined(a, p) /\ v = NotifyWriteable(j) =>
          /\ Fine(o, j, r) /\ Grows(s, j) /\ Fine(o, v, r) /\ Grows(s, v)
          /\ Frame(j, v, {"writeEnable", "writable"}) /\ Settled(o, s, p, w, v)
      BY ONLY o \in BOOLEAN, w \in Nat, n \in Nat, <3>2, JoinedFine
    <3> QED
      BY <2>1, <3>3
  <2>3. j \in Tcb /\ v \in Tcb
    BY <2>2 DEF Fine, Half
  <2>4. PICK x : x = Trim(j, p)
    OBVIOUS
  <2>5. /\ x.ctrl = p.ctrl
        /\ x.data = <<>> \/ Arrived(j, r, x)
        /\ x.data = <<>> /\ p.data # <<>> => p.seq + Len(p.data) <= j.rnxt
    <3>1. p \in FromTo(q, r, j)
      BY <1>0, <2>2, <2>3, FromToGrows
    <3> QED
      BY <2>2, <2>4, <3>1, TrimFacts
  <2>6. /\ v.rnxt = s.rnxt /\ v.rwnd = j.rwnd /\ v.rnxt = j.rnxt /\ v.rbuf = s.rbuf /\ v.rlist = s.rlist
        /\ v.stash = s.stash /\ v.shutdown = s.shutdown
    <3>1. v.rwnd = j.rwnd /\ v.rnxt = j.rnxt
      BY <2>2 DEF Frame, Fields
    <3>2. /\ v.rnxt = s.rnxt /\ v.rbuf = s.rbuf /\ v.rlist = s.rlist
          /\ v.stash = s.stash /\ v.shutdown = s.shutdown
      BY <2>2 DEF Settled, Frame, Fields, Heard, AckSet, Sent
    <3> QED
      BY <3>1, <3>2
  <2>7. x.data = <<>> \/ Arrived(v, r, x)
    <3>1. j.rnxt = v.rnxt /\ v.rwnd = j.rwnd
      BY <2>6
    <3> QED
      BY <2>5, <3>1, ArrivedToo
  <2>8. PICK flag \in Flags : flag = CASE p.seq # s.rnxt -> "immediate"
                                       [] p.seq = s.rnxt /\ p.data # <<>> -> "delayed"
                                       [] OTHER -> "none"
    <3>1. CASE p.seq # s.rnxt
      BY <3>1 DEF Flags
    <3>2. CASE p.seq = s.rnxt /\ p.data # <<>>
      BY <3>2 DEF Flags
    <3>3. CASE p.seq = s.rnxt /\ ~ (p.data # <<>>)
      BY <3>3 DEF Flags
    <3> QED
      BY <3>1, <3>2, <3>3
  <2>9. Counted(s, c)
    BY <1>0, <1>2, CountedOfPhase
  <2>10. Counted(v, c) /\ Told(k, v, c)
    <3>1. Counted(v, c)
      BY <2>6, <2>9 DEF Counted
    <3>2. \A y : Held(s, y) => Held(v, y)
      BY <2>6 DEF Held
    <3>3. Stream(s, c) => Stream(v, c)
      BY <2>6 DEF Stream
    <3>4. Kept(s, s.rnxt + 1) => Kept(v, v.rnxt + 1)
      BY <2>6, <3>2 DEF Kept
    <3> QED
      BY <1>2, <2>6, <3>1, <3>3, <3>4 DEF Told
  <2>11. PICK d : d = TakeData(v, x, flag)
    OBVIOUS
  <2>12. /\ Fine(o, d.tcb, r) /\ Grows(v, d.tcb) /\ Frame(v, d.tcb, RcvSet) /\ d.flag \in Flags
         /\ Counted(d.tcb, c) /\ Told(k, d.tcb, c) /\ Len(v.rbuf) <= Len(d.tcb.rbuf)
         /\ x.data # <<>> /\ x.ctrl => d.tcb.rnxt >= 1
         /\ ~ x.ctrl /\ v.rnxt = 0 => d.tcb.rnxt = 0
    <3>1. o => v.una >= 1
      BY <2>2 DEF Settled
    <3>2. k /\ x.ctrl /\ x.data # <<>> => v.rlist = <<>>
      <4> SUFFICES ASSUME k, x.ctrl, x.data # <<>> PROVE s.rlist = <<>>
        BY <2>6
      <4>1. s.rnxt = 0
        <5>1. x.seq >= s.rnxt /\ x.seq = 0 /\ s.rnxt \in Nat
          BY <1>0, <2>6, <2>7, TcbTypes DEF Arrived
        <5> QED
          BY <5>1
      <4>2. CASE o
        BY <4>1, <4>2 DEF InTurn
      <4>3. CASE ~ o
        <5>1. s.state = "listen"
          BY <1>2, <4>1, <4>3 DEF Phase
        <5> QED
          BY <1>2, <5>1 DEF Phase, Initial
      <4> QED
        BY <4>2, <4>3
    <3>3. d = TakeData(v, x, flag) =>
          /\ Fine(o, d.tcb, r) /\ Grows(v, d.tcb) /\ Frame(v, d.tcb, RcvSet) /\ d.flag \in Flags
          /\ Counted(d.tcb, c) /\ Told(k, d.tcb, c) /\ Len(v.rbuf) <= Len(d.tcb.rbuf)
          /\ x.data # <<>> /\ x.ctrl => d.tcb.rnxt >= 1
          /\ ~ x.ctrl /\ v.rnxt = 0 => d.tcb.rnxt = 0
      BY ONLY <2>2, <2>7, <2>10, c \in Nat, k \in BOOLEAN, flag \in Flags, <3>1, <3>2, TakeDataFine
    <3> QED
      BY <2>11, <3>3
  <2>13. PICK u : u = d.tcb
    OBVIOUS
  <2>14. u \in Tcb /\ Grows(v, u) /\ Frame(v, u, RcvSet) /\ Counted(u, c) /\ Told(k, u, c) /\ Fine(o, u, r)
         /\ Len(v.rbuf) <= Len(u.rbuf)
    BY <2>12, <2>13 DEF Fine, Half
  <2>15. /\ p.ctrl => u.rnxt >= 1
         /\ ~ p.ctrl /\ s.rnxt = 0 => u.rnxt = 0
    <3>1. p.ctrl /\ x.data = <<>> => u.rnxt >= 1
      <4> SUFFICES ASSUME p.ctrl, x.data = <<>> PROVE u.rnxt >= 1
        OBVIOUS
      <4>1. p.seq + Len(p.data) <= v.rnxt
        BY <1>1, <2>5, <2>6
      <4>2. v.rnxt >= 1 /\ v.rnxt \in Nat /\ u.rnxt \in Nat
        BY <1>1, <2>3, <2>14, <4>1, TcbTypes
      <4>3. v.rnxt <= u.rnxt
        BY <2>14 DEF Grows
      <4> QED
        BY <4>2, <4>3
    <3> QED
      BY <2>5, <2>6, <2>12, <2>13, <3>1
  <2>16. PICK e : e = AttemptSend(u, d.flag, idle)
    OBVIOUS
  <2>17. /\ Fine(o, e, r) /\ Grows(u, e) /\ Frame(u, e, Sent)
         /\ e.una = e.nxt /\ e.sbuf # <<>> => e.wnd = 0
    <3>1. o \/ u.rnxt >= 1
      <4> SUFFICES ASSUME ~ o PROVE u.rnxt >= 1
        OBVIOUS
      <4>1. CASE s.state = "listen"
        BY <2>15, <4>1 DEF Fits
      <4>2. CASE s.state # "listen"
        <5>1. s.rnxt >= 1
          BY <1>2, <4>2 DEF Phase
        <5>2. v.rnxt <= u.rnxt /\ v.rnxt \in Nat /\ u.rnxt \in Nat
          BY <2>3, <2>14, TcbTypes DEF Grows
        <5> QED
          BY <2>6, <5>1, <5>2
      <4> QED
        BY <4>1, <4>2
    <3>2. d.flag \in Flags
      BY <2>12
    <3>3. PICK f \in Flags : f = d.flag
      BY <3>2
    <3>4. e = AttemptSend(u, f, idle)
      BY <2>16, <3>3
    <3>5. Fine(o, u, r)
      BY <2>14
    <3> QED
      BY ONLY o \in BOOLEAN, f \in Flags, idle \in BOOLEAN, <3>1, <3>4, <3>5, AttemptSendFine
  <2>18. /\ Phase(o, e, w, c + Len(e.rbuf)) /\ Told(k, e, c) /\ e.rbuf = u.rbuf /\ e.readEnable = s.readEnable
         /\ e.state \notin {"closed", "destroyed"} /\ e.una = e.nxt /\ e.sbuf # <<>> => e.wnd = 0
         /\ e.state = "established" /\ ~ (write \/ e.writable) =>
              e.writeEnable /\ Len(e.sbuf) >= Smaller(SndBuf, (SndBuf + RcvBuf) \div 2)
         /\ e.state # "listen" /\ ~ e.readable /\ e.readEnable \in BOOLEAN
    <3>1. /\ s \in Tcb /\ p.ctrl \in BOOLEAN /\ Going(o, s, w, c, k, read, write) /\ ~ s.readable /\ ~ s.writable
          /\ Fits(o, s, p) /\ Grows(s, v) /\ Settled(o, s, p, w, v)
      BY <1>0, <1>1, <2>2
    <3>2. (p.ctrl => u.rnxt >= 1) /\ (~ p.ctrl /\ s.rnxt = 0 => u.rnxt = 0) /\ v \in Tcb
      BY <2>3, <2>15
    <3>3. Onward(o, s, u, e, w, c, k, write)
      BY ONLY o \in BOOLEAN, w \in Nat, c \in Nat, k \in BOOLEAN, read \in BOOLEAN, write \in BOOLEAN,
              <2>14, <2>17, <3>1, <3>2, SentGoing
    <3> QED
      BY <3>3 DEF Onward
  <2>19. e \in Tcb /\ Grows(s, e)
    <3>1. e \in Tcb
      BY <2>17 DEF Fine, Half
    <3>2. Grows(s, u)
      BY <1>0, <2>2, <2>3, <2>14, GrowsTrans
    <3> QED
      BY <1>0, <2>14, <2>17, <3>1, <3>2, GrowsTrans
  <2>20. PICK new \in BOOLEAN : new <=> Len(e.rbuf) > Len(s.rbuf)
    OBVIOUS
  <2>21. t = IF new /\ e.readEnable THEN [e EXCEPT !.readEnable = FALSE, !.readable = TRUE] ELSE e
    <3>1. t = LET g == CASE p.seq # s.rnxt -> "immediate"
                         [] p.seq = s.rnxt /\ p.data # <<>> -> "delayed"
                         [] OTHER -> "none"
                  y == TakeData(v, x, g)
                  z == AttemptSend(y.tcb, y.flag, idle)
              IN  IF Len(z.rbuf) > Len(s.rbuf) /\ z.readEnable
                  THEN [z EXCEPT !.readEnable = FALSE, !.readable = TRUE] ELSE z
      BY <1>a, <1>3, <1>6, <2>1, <2>4 DEF Process, Joined
    <3> QED
      BY <2>8, <2>11, <2>13, <2>16, <2>20, <3>1
  <2>22. e.rbuf # <<>> /\ ~ new => read
    <3> SUFFICES ASSUME e.rbuf # <<>>, ~ new PROVE read
      OBVIOUS
    <3>1. Len(e.rbuf) > 0
      BY <2>19, EmptySeq, TcbTypes
    <3>2. Len(s.rbuf) > 0
      <4>1. PICK m \in Nat, n \in Nat : m = Len(s.rbuf) /\ n = Len(e.rbuf)
        BY <1>0, <2>19, TcbTypes
      <4> QED
        BY <2>20, <3>1, <4>1
    <3>3. s.rbuf # <<>>
      BY <3>2, EmptySeq
    <3> QED
      BY <3>3 DEF Going, Progress
  <2>23. ~ s.readEnable => read
    BY DEF Going, Progress
  <2>24. CASE new /\ e.readEnable
    <3>1. /\ Fine(o, t, r) /\ Grows(e, t) /\ Frame(e, t, {"readEnable", "readable"}) /\ t.readable
      BY <2>17, <2>21, <2>24, ReadableFine
    <3>2. /\ t.state = e.state /\ t.una = e.una /\ t.nxt = e.nxt /\ t.sbuf = e.sbuf /\ t.wnd = e.wnd
          /\ t.rnxt = e.rnxt /\ t.rbuf = e.rbuf /\ t.rlist = e.rlist /\ t.stash = e.stash
          /\ t.shutdown = e.shutdown /\ t.writeEnable = e.writeEnable /\ t.writable = e.writable
          /\ t.tack = e.tack /\ t.dups = e.dups
      BY <3>1 DEF Frame, Fields
    <3>3. Phase(o, t, w, c + Len(t.rbuf))
      BY <2>18, <3>2 DEF Phase, Total
    <3>4. Progress(t, read \/ t.readable, write \/ t.writable)
      BY <2>18, <3>1, <3>2 DEF Progress
    <3>5. Told(k, t, c)
      <4>1. \A y : Held(e, y) => Held(t, y)
        BY <3>2 DEF Held
      <4>2. Stream(e, c) => Stream(t, c)
        BY <3>2 DEF Stream
      <4>3. Kept(e, e.rnxt + 1) => Kept(t, t.rnxt + 1)
        BY <3>2, <4>1 DEF Kept
      <4> QED
        BY <2>18, <3>2, <4>2, <4>3 DEF Told
    <3>6. Grows(s, t)
      <4>1. t \in Tcb
        BY <3>1 DEF Fine, Half
      <4> QED
        BY <1>0, <2>19, <3>1, <4>1, GrowsTrans
    <3> QED
      BY <2>18, <3>1, <3>2, <3>3, <3>4, <3>5, <3>6 DEF Going
  <2>25. CASE ~ (new /\ e.readEnable)
    <3>1. t = e
      BY <2>21, <2>25
    <3>2. e.rbuf # <<>> \/ ~ e.readEnable => read
      BY <2>18, <2>22, <2>23, <2>25
    <3>3. Progress(e, read \/ e.readable, write \/ e.writable)
      BY <2>18, <3>2 DEF Progress
    <3> QED
      BY <2>17, <2>18, <2>19, <3>1, <3>3 DEF Going
  <2> QED
    BY <2>24, <2>25
<1> QED
  BY <1>5, <1>6

-------------------------------------------------------------------------------
\* The timers, Recv, Send and Connect.

\* There are two ends.
LEMMA PeerFacts ==
  ASSUME NEW e \in Ends
  PROVE  Peer(e) \in Ends /\ Peer(e) # e /\ Peer(Peer(e)) = e /\ \A f \in Ends : f = e \/ f = Peer(e)
<1>1. IsFiniteSet(Ends) /\ Cardinality(Ends) = 2
  BY PseudoTcpAssumption
<1>2. PICK f : Ends \ {e} = {f}
  <2>1. IsFiniteSet(Ends \ {e}) /\ Cardinality(Ends \ {e}) = 1
    BY <1>1, FS_RemoveElement
  <2> QED
    BY <2>1, FS_Singleton
<1>3. f \in Ends /\ f # e /\ \A g \in Ends : g = e \/ g = f
  BY <1>2
<1>4. Peer(e) = f
  <2>1. \A g \in Ends : g # e <=> g = f
    BY <1>3
  <2>2. Peer(e) \in Ends /\ Peer(e) # e
    BY <1>3 DEF Peer
  <2> QED
    BY <2>1, <2>2
<1>5. Peer(f) = e
  <2>1. \A g \in Ends : g # f <=> g = e
    BY <1>3
  <2>2. Peer(f) \in Ends /\ Peer(f) # f
    BY <1>3 DEF Peer
  <2> QED
    BY <2>1, <2>2
<1> QED
  BY <1>3, <1>4, <1>5

\* What the application has been told of, or not.
Notified(s, read, write) ==
  /\ s.rbuf # <<>> \/ ~ s.readEnable => read \/ s.readable
  /\ s.state = "established" /\ ~ (write \/ s.writable) =>
       s.writeEnable /\ Len(s.sbuf) >= Smaller(SndBuf, (SndBuf + RcvBuf) \div 2)

\* What a timer changes, or a segment that is sent.
Clocked == Sent \cup {"state", "probes", "ssthresh"}

\* What a timer does keeps the progress of the connection, unless it is closed.
LEMMA ClockedGoing ==
  ASSUME NEW o \in BOOLEAN, NEW s, s \in Tcb, NEW w, NEW c, NEW k, NEW read, NEW write,
         Phase(o, s, w, c + Len(s.rbuf)), Notified(s, read, write), Told(k, s, c), s.state # "listen",
         s.state # "destroyed",
         NEW t, t \in Tcb, Grows(s, t), Frame(s, t, Clocked), t.state \in {s.state, "closed"},
         t.state # "closed" /\ t.una = t.nxt /\ t.sbuf # <<>> => t.wnd = 0
  PROVE  Going(o, t, w, c, k, read, write) /\ t.state # "listen"
<1>1. /\ t.shutdown = s.shutdown /\ t.sbuf = s.sbuf /\ t.una = s.una /\ t.wnd = s.wnd /\ t.rnxt = s.rnxt
      /\ t.rbuf = s.rbuf /\ t.rlist = s.rlist /\ t.stash = s.stash
      /\ t.readEnable = s.readEnable /\ t.writeEnable = s.writeEnable
      /\ t.readable = s.readable /\ t.writable = s.writable
  BY DEF Frame, Fields, Clocked, Sent
<1>2. t.nxt >= 1
  <2>1. s.nxt >= 1
    BY DEF Phase
  <2>2. s.nxt <= t.nxt /\ s.nxt \in Nat /\ t.nxt \in Nat
    BY TcbTypes DEF Grows
  <2> QED
    BY <2>1, <2>2
<1>3. Phase(o, t, w, c + Len(t.rbuf))
  <2>1. Total(t) = Total(s)
    BY <1>1 DEF Total
  <2> QED
    BY <1>1, <1>2, <2>1 DEF Phase
<1>4. Progress(t, read \/ t.readable, write \/ t.writable)
  BY <1>1 DEF Progress, Notified
<1>5. Told(k, t, c)
  <2>1. \A x : Held(s, x) => Held(t, x)
    BY <1>1 DEF Held
  <2>2. Stream(s, c) => Stream(t, c)
    BY <1>1 DEF Stream
  <2>3. Kept(s, s.rnxt + 1) => Kept(t, t.rnxt + 1)
    BY <1>1, <2>1 DEF Kept
  <2> QED
    BY <1>1, <2>2, <2>3 DEF Told
<1> QED
  BY <1>3, <1>4, <1>5 DEF Going

\* k units have been taken from m_rbuf, and n more may be taken from the peer.
Drained(s, k, n) == [s EXCEPT !.rbuf = SubSeq(@, k + 1, Len(@)), !.rwnd = n]

\* What holds when they have been taken.
Left(o, s, r, t, w, c, k, read, write) ==
  /\ Fine(o, t, r) /\ Grows(s, t) /\ Frame(s, t, {"rbuf", "rwnd"})
  /\ Phase(o, t, w, c + Len(t.rbuf)) /\ Notified(t, read, write) /\ Told(k, t, c)
  /\ t.una = t.nxt /\ t.sbuf # <<>> => t.wnd = 0

\* Recv takes from m_rbuf: its space goes to the window when there is enough of it.
LEMMA DrainedGoing ==
  ASSUME NEW o \in BOOLEAN, NEW s, NEW r, Fine(o, s, r), s.state = "established",
         NEW w \in Nat, NEW c \in Nat, NEW k \in BOOLEAN, NEW read, NEW write, Going(o, s, w, c, k, read, write),
         NEW m \in Nat, m > 0, m <= Len(s.rbuf), NEW n \in Nat, s.rwnd <= n, n + Len(s.rbuf) <= RcvBuf + m, NEW t
  PROVE  t = Drained(s, m, n) => Left(o, s, r, t, w, c + m, k, read, write)
<1>a. SUFFICES ASSUME t = Drained(s, m, n)
      PROVE  Left(o, s, r, t, w, c + m, k, read, write)
  OBVIOUS
<1>0. s \in Tcb /\ r \in Tcb
  BY DEF Fine, Half
<1>1. PICK len \in Nat, rwnd \in Nat, rnxt \in Nat, cap \in Nat, kept \in Nat :
        len = Len(s.rbuf) /\ rwnd = s.rwnd /\ rnxt = s.rnxt /\ cap = RcvBuf /\ kept = Len(s.stash)
  BY <1>0, TcbTypes, Consts
<1>b. m <= len
  BY <1>1
<1>c. len - m \in Nat
  BY <1>b
<1>2. PICK b : b = s.rbuf
  OBVIOUS
<1>3. PICK d : d = SubSeq(b, m + 1, len)
  OBVIOUS
<1>4. d \in Seq(Int) /\ Len(d) = len - m /\ \A i \in 1..len - m : d[i] = b[i + m]
  <2>1. \A i \in m + 1..len : b[i] \in Int
    BY <1>0, <1>1, <1>2, TcbTypes, ElementOfSeq
  <2>2. m + 1 \in Int /\ len \in Int
    OBVIOUS
  <2>3. /\ d \in Seq(Int) /\ Len(d) = (IF m + 1 <= len THEN len - (m + 1) + 1 ELSE 0)
        /\ \A i \in 1..len - (m + 1) + 1 : d[i] = b[m + 1 + i - 1]
    BY ONLY <1>3, <2>1, <2>2, SubSeqProperties
  <2>4. Len(d) = len - m
    BY <1>1, <2>3
  <2>5. \A i \in 1..len - m : d[i] = b[i + m]
    <3> TAKE i \in 1..len - m
    <3>1. i \in 1..len - (m + 1) + 1 /\ m + 1 + i - 1 = i + m
      OBVIOUS
    <3> QED
      BY <2>3, <3>1
  <2> QED
    BY <2>3, <2>4, <2>5
<1>5. t = [s EXCEPT !.rbuf = d, !.rwnd = n]
  BY <1>a, <1>1, <1>2, <1>3 DEF Drained
<1>6. t \in Tcb /\ t.rbuf = d /\ t.rwnd = n /\ Frame(s, t, {"rbuf", "rwnd"})
  <2>1. t \in Tcb /\ t.rbuf = d /\ t.rwnd = n
    BY ONLY <1>0, <1>4, <1>5, n \in Nat DEF Tcb
  <2>2. Frame(s, t, {"rbuf", "rwnd"})
    BY <1>0, <1>5 DEF Tcb, Frame, Fields
  <2> QED
    BY <2>1, <2>2
<1>7. /\ t.state = s.state /\ t.shutdown = s.shutdown /\ t.sbuf = s.sbuf /\ t.una = s.una /\ t.nxt = s.nxt
      /\ t.wnd = s.wnd /\ t.rnxt = s.rnxt /\ t.rlist = s.rlist /\ t.stash = s.stash
      /\ t.readEnable = s.readEnable /\ t.writeEnable = s.writeEnable
      /\ t.readable = s.readable /\ t.writable = s.writable
  BY <1>6 DEF Frame, Fields
<1>8. Phase(o, s, w, c + len) /\ Progress(s, read \/ s.readable, write \/ s.writable) /\ Told(k, s, c)
      /\ rnxt >= 1
  <2>1. Phase(o, s, w, c + len) /\ Progress(s, read \/ s.readable, write \/ s.writable) /\ Told(k, s, c)
    BY <1>1 DEF Going
  <2> QED
    BY <1>1, <2>1 DEF Phase
<1>9. Fine(o, t, r) /\ Grows(s, t)
  <2>1. Frame(s, t, RcvSet)
    BY <1>6 DEF Frame, RcvSet
  <2>2. RcvOK(t)
    <3>1. n + Len(d) <= RcvBuf
      BY <1>1, <1>4
    <3>2. kept + Len(d) <= RcvBuf
      <4>1. kept + len <= cap
        BY <1>1 DEF Fine, Half, RcvOK
      <4>2. PICK y \in Nat : y = len - m
        BY <1>c
      <4>3. kept + y <= cap
        BY <4>1, <4>2
      <4> QED
        BY <1>1, <1>4, <4>2, <4>3
    <3>3. t.rnxt # 0
      BY <1>1, <1>7, <1>8
    <3> QED
      BY <1>1, <1>6, <1>7, <3>1, <3>2, <3>3 DEF RcvOK
  <2>3. s.rnxt <= t.rnxt /\ Edge(s) <= Edge(t)
    BY <1>1, <1>6, <1>7 DEF Edge
  <2>4. t.rnxt \in Points(r) /\ \A i \in 1..Len(t.rlist) : t.rlist[i].seq + t.rlist[i].len \in Points(r)
    BY <1>7 DEF Fine, Peered
  <2>5. o /\ t.rnxt >= 1 => s.una >= 1
    BY <1>7 DEF Fine
  <2>6. Fine(o, s, r)
    OBVIOUS
  <2> QED
    BY ONLY <1>6, <2>1, <2>2, <2>3, <2>4, <2>5, <2>6, TakenFine
<1>10. Phase(o, t, w, (c + m) + Len(t.rbuf))
  <2>1. (c + m) + Len(t.rbuf) = c + len
    <3>1. PICK y \in Nat : y = len - m
      BY <1>c
    <3>2. (c + m) + y = c + len
      BY <3>1
    <3> QED
      BY <1>4, <1>6, <3>1, <3>2
  <2>2. Total(t) = Total(s)
    BY <1>7 DEF Total
  <2>3. Phase(o, t, w, c + len)
    BY <1>7, <1>8, <2>2 DEF Phase
  <2> QED
    BY <2>1, <2>3
<1>11. Notified(t, read, write)
  <2>1. s.rbuf # <<>>
    BY <1>1, EmptySeq
  <2> QED
    BY <1>7, <1>8, <2>1 DEF Notified, Progress
<1>12. Told(k, t, c + m)
  <2> SUFFICES ASSUME k PROVE Stream(t, c + m) /\ (~ t.shutdown => Kept(t, t.rnxt + 1))
    BY DEF Told
  <2>1. Stream(s, c) /\ (~ s.shutdown => Kept(s, s.rnxt + 1))
    BY <1>8 DEF Told
  <2>2. ASSUME NEW i \in 1..len - m PROVE d[i] = (c + m) + i
    <3>1. i + m \in 1..len /\ c + (i + m) = (c + m) + i
      OBVIOUS
    <3>2. b[i + m] = c + (i + m)
      BY <1>1, <1>2, <2>1, <3>1 DEF Stream
    <3> QED
      BY <1>4, <3>1, <3>2
  <2>3. Stream(t, c + m)
    BY <1>4, <1>6, <2>2 DEF Stream
  <2>4. \A x : Held(s, x) => Held(t, x)
    BY <1>7 DEF Held
  <2>5. Kept(s, s.rnxt + 1) => Kept(t, t.rnxt + 1)
    BY <1>7, <2>4 DEF Kept
  <2> QED
    BY <1>7, <2>1, <2>3, <2>5
<1>13. t.una = t.nxt /\ t.sbuf # <<>> => t.wnd = 0
  BY <1>7, <1>8 DEF Progress
<1> QED
  BY <1>6, <1>9, <1>10, <1>11, <1>12, <1>13 DEF Left

\* What is left of an end when its application has read m units.
Taken(o, s, r, t, w, c, m, k, read, write) ==
  Fine(o, t, r) /\ Grows(s, t) /\ Going(o, t, w, c + m, k, read, write) /\ t.state # "listen"

\* Recv keeps the agreement, the progress and the contents, with the acknowledgement that a
\* window which was closed and opens calls for.
LEMMA ReadOutFine ==
  ASSUME NEW o \in BOOLEAN, NEW s, NEW r, Fine(o, s, r), s.state = "established",
         NEW w \in Nat, NEW c \in Nat, NEW k \in BOOLEAN, NEW read \in BOOLEAN, NEW write \in BOOLEAN,
         Going(o, s, w, c, k, read, write),
         NEW m \in Nat, m > 0, m <= Len(s.rbuf), NEW idle \in BOOLEAN, NEW t
  PROVE  t = Read(s, m, idle) => Taken(o, s, r, t, w, c, m, k, read, write)
<1>a. SUFFICES ASSUME t = Read(s, m, idle)
      PROVE  Taken(o, s, r, t, w, c, m, k, read, write)
  OBVIOUS
<1>0. s \in Tcb /\ r \in Tcb
  BY DEF Fine, Half
<1>1. PICK len \in Nat, rwnd \in Nat, cap \in Nat : len = Len(s.rbuf) /\ rwnd = s.rwnd /\ cap = RcvBuf
  BY <1>0, TcbTypes, Consts
<1>2. m <= len /\ rwnd + len <= cap /\ len <= cap
  <2>1. rwnd + len <= cap
    BY <1>1 DEF Fine, Half, RcvOK
  <2> QED
    BY <1>1, <2>1
<1>3. PICK n \in Nat : n = cap - (len - m)
  BY <1>2
<1>4. PICK v, u : v = Drained(s, m, rwnd) /\ u = Drained(s, m, n)
  OBVIOUS
<1>5. ASSUME NEW x, NEW y \in Nat, rwnd <= y, y <= n
      PROVE  x = Drained(s, m, y) => Left(o, s, r, x, w, c + m, k, read, write)
  <2>1. s.rwnd <= y /\ y + Len(s.rbuf) <= RcvBuf + m
    <3>1. y + len <= cap + m
      BY <1>3, <1>5
    <3> QED
      BY <1>1, <1>5, <3>1
  <2>2. Fine(o, s, r) /\ s.state = "established" /\ Going(o, s, w, c, k, read, write) /\ m > 0 /\ m <= Len(s.rbuf)
    OBVIOUS
  <2> QED
    BY ONLY o \in BOOLEAN, w \in Nat, c \in Nat, k \in BOOLEAN, m \in Nat, y \in Nat, <2>1, <2>2, DrainedGoing
<1>6. rwnd <= n /\ rwnd <= rwnd /\ n <= n
  BY <1>2, <1>3
<1>7. /\ Fine(o, v, r) /\ Grows(s, v) /\ Frame(s, v, {"rbuf", "rwnd"})
      /\ Phase(o, v, w, (c + m) + Len(v.rbuf)) /\ Notified(v, read, write) /\ Told(k, v, c + m)
      /\ v.una = v.nxt /\ v.sbuf # <<>> => v.wnd = 0
  <2>1. v = Drained(s, m, rwnd) => Left(o, s, r, v, w, c + m, k, read, write)
    BY ONLY rwnd \in Nat, <1>5, <1>6
  <2> QED
    BY <1>4, <2>1 DEF Left
<1>8. /\ Fine(o, u, r) /\ Grows(s, u) /\ Frame(s, u, {"rbuf", "rwnd"})
      /\ Phase(o, u, w, (c + m) + Len(u.rbuf)) /\ Notified(u, read, write) /\ Told(k, u, c + m)
      /\ u.una = u.nxt /\ u.sbuf # <<>> => u.wnd = 0
  <2>1. u = Drained(s, m, n) => Left(o, s, r, u, w, c + m, k, read, write)
    BY ONLY n \in Nat, <1>5, <1>6
  <2> QED
    BY <1>4, <2>1 DEF Left
<1>9. v \in Tcb /\ u \in Tcb /\ v.state = "established" /\ u.state = "established"
  BY <1>7, <1>8 DEF Fine, Half, Frame, Fields
<1>10. ASSUME NEW x \in {v, u}
       PROVE  Fine(o, x, r) /\ Grows(s, x) /\ Going(o, x, w, c + m, k, read, write) /\ x.state # "listen"
  <2>1. Frame(x, x, Clocked) /\ Grows(x, x)
    BY <1>9, GrowsRefl DEF Frame
  <2>2. /\ x \in Tcb /\ x.state = "established" /\ Phase(o, x, w, (c + m) + Len(x.rbuf))
        /\ Notified(x, read, write) /\ Told(k, x, c + m)
        /\ x.una = x.nxt /\ x.sbuf # <<>> => x.wnd = 0
    BY <1>7, <1>8, <1>9
  <2>3. Going(o, x, w, c + m, k, read, write)
    <3>1. Progress(x, read \/ x.readable, write \/ x.writable)
      BY <2>2 DEF Progress, Notified
    <3> QED
      BY <2>2, <3>1 DEF Going
  <2> QED
    BY <1>7, <1>8, <2>2, <2>3
<1>11. t \in {v, u} \/ t = AttemptSend(u, "immediate", idle)
  <2>1. PICK x : x = [s EXCEPT !.rbuf = SubSeq(@, m + 1, Len(@))]
    OBVIOUS
  <2>2. x = v
    BY <1>0, <1>1, <1>4, <2>1 DEF Drained, Tcb
  <2>3. Len(x.rbuf) = len - m
    <3>1. Len(v.rbuf) = len - m
      <4>1. v.rbuf = SubSeq(s.rbuf, m + 1, len)
        BY <1>0, <1>1, <1>4 DEF Drained, Tcb
      <4>2. PICK b : b = s.rbuf
        OBVIOUS
      <4>3. \A i \in m + 1..len : b[i] \in Int
        BY <1>0, <1>1, <4>2, TcbTypes, ElementOfSeq
      <4>4. PICK d : d = SubSeq(b, m + 1, len)
        OBVIOUS
      <4>5. m + 1 \in Int /\ len \in Int
        OBVIOUS
      <4>6. Len(d) = IF m + 1 <= len THEN len - (m + 1) + 1 ELSE 0
        BY ONLY <4>3, <4>4, <4>5, SubSeqProperties
      <4>7. Len(d) = len - m
        BY <1>2, <4>6
      <4> QED
        BY <4>1, <4>2, <4>4, <4>7
    <3> QED
      BY <2>2, <3>1
  <2>4. RcvSpace(x) = n
    BY <1>1, <1>3, <2>3 DEF RcvSpace
  <2>5. [x EXCEPT !.rwnd = n] = u
    BY <1>0, <1>4, <2>1 DEF Drained, Tcb
  <2>6. x.rwnd = rwnd
    BY <1>0, <1>1, <2>1 DEF Tcb
  <2>7. PICK a \in Nat : a = n - rwnd
    BY <1>6
  <2>8. PICK b \in Nat : b = Smaller(RcvBuf \div 2, x.mss)
    <3>1. cap \div 2 \in Nat
      OBVIOUS
    <3>2. PICK y \in Nat, z \in Nat : y = cap \div 2 /\ z = x.mss
      BY <1>9, <2>2, <3>1, TcbTypes
    <3> QED
      BY <1>1, <3>2 DEF Smaller
  <2>9. RcvSpace(x) - x.rwnd = a
    BY <2>4, <2>6, <2>7 DEF Taken
  <2>10. t = CASE a < b -> x
               [] a >= b /\ rwnd = 0 -> AttemptSend(u, "immediate", idle)
               [] OTHER -> u
    BY <1>a, <2>1, <2>4, <2>5, <2>6, <2>8, <2>9 DEF Read
  <2>11. CASE a < b
    <3>1. ~ (a >= b)
      BY <2>11
    <3> QED
      BY <2>2, <2>10, <2>11, <3>1
  <2>12. CASE a >= b /\ rwnd = 0
    <3>1. ~ (a < b)
      BY <2>12
    <3> QED
      BY <2>10, <2>12, <3>1
  <2>13. CASE a >= b /\ rwnd # 0
    <3>1. ~ (a < b)
      BY <2>13
    <3> QED
      BY <2>10, <2>13, <3>1
  <2> QED
    BY <2>11, <2>12, <2>13
<1>12. CASE t \in {v, u}
  BY <1>10, <1>12 DEF Taken
<1>13. CASE t = AttemptSend(u, "immediate", idle)
  <2>1. PICK f \in Flags : f = "immediate"
    BY DEF Flags
  <2>2. o \/ u.rnxt >= 1
    BY <1>8, <1>9 DEF Phase
  <2>3. t = AttemptSend(u, f, idle) /\ Fine(o, u, r)
    BY <1>8, <1>13, <2>1
  <2>4. /\ Fine(o, t, r) /\ Grows(u, t) /\ Frame(u, t, Sent)
        /\ t.una = t.nxt /\ t.sbuf # <<>> => t.wnd = 0
    BY ONLY o \in BOOLEAN, f \in Flags, idle \in BOOLEAN, <2>2, <2>3, AttemptSendFine
  <2>5. t \in Tcb /\ t.state = u.state /\ Frame(u, t, Clocked)
    BY <2>4 DEF Fine, Half, Frame, Fields, Sent, Clocked
  <2>6. Going(o, t, w, c + m, k, read, write) /\ t.state # "listen"
    <3>1. /\ Phase(o, u, w, (c + m) + Len(u.rbuf)) /\ Notified(u, read, write) /\ Told(k, u, c + m)
          /\ u.state # "listen" /\ u.state # "destroyed" /\ u \in Tcb
      BY <1>8, <1>9
    <3>2. /\ t \in Tcb /\ Grows(u, t) /\ Frame(u, t, Clocked) /\ t.state \in {u.state, "closed"}
          /\ t.state # "closed" /\ t.una = t.nxt /\ t.sbuf # <<>> => t.wnd = 0
      BY <2>4, <2>5
    <3> QED
      BY ONLY o \in BOOLEAN, <3>1, <3>2, ClockedGoing
  <2>7. Grows(s, t)
    BY <1>0, <1>8, <1>9, <2>4, <2>5, GrowsTrans
  <2> QED
    BY <2>4, <2>6, <2>7 DEF Taken
<1> QED
  BY <1>11, <1>12, <1>13

\* What does not concern the windows, the congestion and the packets.
Plain == Soft \ {"cwnd", "mss", "level", "recover"}

\* What does not concern the windows leaves the ends in agreement.
LEMMA PlainFine ==
  ASSUME NEW o, NEW s, NEW r, Fine(o, s, r), NEW t, t \in Tcb, Frame(s, t, Plain)
  PROVE  Fine(o, t, r) /\ Grows(s, t)
<1>1. Frame(s, t, Soft)
  BY DEF Frame, Plain
<1>2. t.mss = s.mss /\ t.level = s.level /\ t.recover = s.recover /\ t.nxt = s.nxt /\ t.cwnd = s.cwnd
  BY DEF Frame, Fields, Plain, Soft
<1>3. CcOK(t) /\ t.recover <= t.nxt
  BY <1>2 DEF Fine, Half, CcOK, SndOK
<1> QED
  BY <1>1, <1>3, SoftFine

\* What a call leaves behind.
Goes(o, s, r, t, w, c, k, read, write) ==
  Fine(o, t, r) /\ Grows(s, t) /\ Going(o, t, w, c, k, read, write) /\ t.state # "listen"

\* What RetransmitTimer, ProbeTimer make of an end.
Resending(s) ==
  LET r == Retransmit(s)
  IN  IF r.state = "closed" THEN r
      ELSE WithCwnd([r EXCEPT !.ssthresh = Larger(InFlight(r) \div 2, 2 * r.mss)], r.mss)

\* What the probe of a closed window makes of an end.
Probing(s) ==
  IF s.probes = MaxProbes THEN Closedown(s)
  ELSE [Written(s, Minus(s.nxt, 1), FALSE, <<>>) EXCEPT !.probes = @ + 1]

\* The retransmission timer keeps all that.
LEMMA ResendingGoes ==
  ASSUME NEW o \in BOOLEAN, NEW s, NEW r, Fine(o, s, r), s.rto, s.state \notin {"closed", "destroyed"},
         NEW w \in Nat, NEW c \in Nat, NEW k \in BOOLEAN, NEW read \in BOOLEAN, NEW write \in BOOLEAN,
         Going(o, s, w, c, k, read, write), NEW t
  PROVE  t = Resending(s) =>
         Goes(o, s, r, t, w, c, k, read, write) /\ (Acks(t) => Acks(s)) /\ t.wnd = s.wnd
<1>a. SUFFICES ASSUME t = Resending(s)
      PROVE  Goes(o, s, r, t, w, c, k, read, write) /\ (Acks(t) => Acks(s)) /\ t.wnd = s.wnd
  OBVIOUS
<1>0. s \in Tcb /\ r \in Tcb /\ SndOK(s)
  BY DEF Fine, Half
<1>1. s.nxt > s.una
  BY <1>0 DEF SndOK
<1>2. Phase(o, s, w, c + Len(s.rbuf)) /\ Notified(s, read, write) /\ Told(k, s, c)
  BY DEF Going, Progress, Notified
<1>3. s.state # "listen" /\ (o \/ s.rnxt >= 1)
  BY <1>1, <1>2 DEF Phase, Initial
<1>4. PICK u : u = Retransmit(s)
  OBVIOUS
<1>5. /\ Fine(o, u, r) /\ Grows(s, u) /\ Frame(s, u, Sent \cup {"state"})
      /\ u.nxt > u.una /\ u.state \in {s.state, "closed"} /\ (Acks(u) => Acks(s))
  BY <1>1, <1>3, <1>4, RetransmitFine
<1>6. u \in Tcb
  BY <1>5 DEF Fine, Half
<1>7. /\ Fine(o, t, r) /\ Grows(u, t) /\ Frame(u, t, {"ssthresh", "cwnd"})
  <2>1. CASE u.state = "closed"
    <3>1. t = u
      BY <1>a, <1>4, <2>1 DEF Resending
    <3> QED
      BY <1>5, <1>6, <3>1, GrowsRefl DEF Frame
  <2>2. CASE u.state # "closed"
    <3>1. PICK m \in Nat \ {0} : m = u.mss
      BY <1>6, TcbTypes
    <3>2. PICK a : a = InFlight(u)
      OBVIOUS
    <3>3. a \in Nat
      <4>1. PICK una \in Nat, nxt \in Nat : una = u.una /\ nxt = u.nxt
        BY <1>6, TcbTypes
      <4>2. una <= nxt /\ nxt < SeqRange
        <5>1. PICK total \in Nat : total = Total(u)
          BY <1>6, TcbTypes
        <5>2. una <= nxt /\ nxt <= total /\ total < SeqRange
          BY <1>5, <4>1, <5>1 DEF Fine, Half, SndOK
        <5> QED
          BY <5>2, Consts
      <4>3. a = nxt - una
        BY <3>2, <4>1, <4>2, NoWrapping DEF InFlight
      <4> QED
        BY <4>2, <4>3
    <3>4. PICK x : x = Larger(a \div 2, 2 * m)
      OBVIOUS
    <3>5. x \in Nat \ {0}
      <4>1. a \div 2 \in Nat /\ 2 * m \in Nat \ {0}
        BY <3>1, <3>3
      <4> QED
        BY <3>4, <4>1 DEF Larger
    <3>6. PICK v : v = [u EXCEPT !.ssthresh = x]
      OBVIOUS
    <3>7. v \in Tcb
      BY <1>6, <3>5, <3>6 DEF Tcb
    <3>8. Frame(u, v, {"ssthresh"})
      BY <1>6, <3>6 DEF Frame, Fields, Tcb
    <3>9. Frame(u, v, Plain)
      BY <3>8 DEF Frame, Plain, Soft
    <3>10. Fine(o, v, r) /\ Grows(u, v)
      BY <1>5, <3>7, <3>9, PlainFine
    <3>11. t = WithCwnd(v, m)
      BY <1>a, <1>4, <2>2, <3>1, <3>2, <3>4, <3>6 DEF Resending
    <3>12. Fine(o, t, r) /\ Grows(v, t) /\ Frame(v, t, {"cwnd"})
      BY <3>10, <3>11, WithCwndFine
    <3>13. t \in Tcb
      BY <3>12 DEF Fine, Half
    <3>14. Grows(u, t)
      BY <1>6, <3>7, <3>10, <3>12, <3>13, GrowsTrans
    <3>15. Frame(u, t, {"ssthresh", "cwnd"})
      BY <3>8, <3>12 DEF Frame
    <3> QED
      BY <3>12, <3>14, <3>15
  <2> QED
    BY <2>1, <2>2
<1>8. t \in Tcb
  BY <1>7 DEF Fine, Half
<1>9. t.nxt > t.una /\ t.state = u.state /\ (Acks(t) => Acks(u))
  BY <1>5, <1>7 DEF Frame, Fields, Acks
<1>10. Grows(s, t)
  BY <1>0, <1>5, <1>6, <1>7, <1>8, GrowsTrans
<1>11. Frame(s, t, Clocked)
  BY <1>5, <1>7 DEF Frame, Clocked, Sent
<1>12. t.una # t.nxt
  <2>1. t.una \in Nat /\ t.nxt \in Nat
    BY <1>8, TcbTypes
  <2> QED
    BY <1>9, <2>1
<1>13. Going(o, t, w, c, k, read, write) /\ t.state # "listen"
  <2>1. t.state \in {s.state, "closed"} /\ s.state # "destroyed"
    BY <1>5, <1>9
  <2> QED
    BY ONLY o \in BOOLEAN, <1>0, <1>2, <1>3, <1>8, <1>10, <1>11, <1>12, <2>1, ClockedGoing
<1>14. t.wnd = s.wnd
  BY <1>11 DEF Frame, Fields, Clocked, Sent
<1> QED
  BY <1>5, <1>7, <1>9, <1>10, <1>13, <1>14 DEF Goes

\* So does the probe of a closed window.
LEMMA ProbingGoes ==
  ASSUME NEW o \in BOOLEAN, NEW s, NEW r, Fine(o, s, r), s.wnd = 0, s.state \notin {"closed", "destroyed"},
         NEW w \in Nat, NEW c \in Nat, NEW k \in BOOLEAN, NEW read \in BOOLEAN, NEW write \in BOOLEAN,
         Going(o, s, w, c, k, read, write), NEW t
  PROVE  t = Probing(s) => Goes(o, s, r, t, w, c, k, read, write)
<1>a. SUFFICES ASSUME t = Probing(s)
      PROVE  Goes(o, s, r, t, w, c, k, read, write)
  OBVIOUS
<1>0. s \in Tcb /\ r \in Tcb
  BY DEF Fine, Half
<1>1. Phase(o, s, w, c + Len(s.rbuf)) /\ Notified(s, read, write) /\ Told(k, s, c)
  BY DEF Going, Progress, Notified
<1>2. s.state # "listen" /\ (o \/ s.rnxt >= 1) /\ s.nxt >= 1
  BY <1>1 DEF Phase, Initial
<1>3. Fine(o, t, r) /\ Grows(s, t) /\ Frame(s, t, Clocked) /\ t.state \in {s.state, "closed"} /\ t.wnd = 0
  <2>1. CASE s.probes = MaxProbes
    <3>1. t = [s EXCEPT !.state = "closed"]
      BY <1>a, <2>1 DEF Probing, Closedown
    <3>2. t \in Tcb /\ t.state = "closed"
      BY ONLY <1>0, <3>1 DEF Tcb, States
    <3>3. Frame(s, t, {"state"})
      BY <1>0, <3>1 DEF Frame, Fields, Tcb
    <3>4. Frame(s, t, Plain) /\ Frame(s, t, Clocked) /\ t.wnd = s.wnd
      BY <3>3 DEF Frame, Fields, Plain, Soft, Clocked
    <3> QED
      BY <3>2, <3>4, PlainFine
  <2>2. CASE s.probes # MaxProbes
    <3>1. PICK u : u = Written(s, Minus(s.nxt, 1), FALSE, <<>>)
      OBVIOUS
    <3>2. t = [u EXCEPT !.probes = @ + 1]
      BY <1>a, <2>2, <3>1 DEF Probing
    <3>3. PICK nxt \in Nat, m \in Nat : nxt = s.nxt /\ m = nxt - 1
      BY <1>0, <1>2, TcbTypes
    <3>4. m <= s.nxt /\ Minus(s.nxt, 1) = m
      <4>1. nxt < SeqRange
        <5>1. PICK total \in Nat : total = Total(s)
          BY <1>0, TcbTypes
        <5>2. nxt <= total /\ total < SeqRange
          BY <3>3, <5>1 DEF Fine, Half, SndOK
        <5> QED
          BY <5>2, Consts
      <4> QED
        BY <1>2, <3>3, <4>1, NoWrapping
    <3>5. Fine(o, u, r) /\ Grows(s, u) /\ Frame(s, u, {"out", "tack", "lastack"})
      <4>1. u = Written(s, m, FALSE, <<>>)
        BY <3>1, <3>4
      <4> QED
        BY <1>2, <3>4, <4>1, AckFine
    <3>6. PICK x \in Nat : x = u.probes
      BY <3>5, TcbTypes DEF Fine, Half
    <3>7. PICK y \in Nat : y = x + 1
      OBVIOUS
    <3>8. t = [u EXCEPT !.probes = y] /\ u \in Tcb
      BY <3>2, <3>5, <3>6, <3>7 DEF Fine, Half
    <3>9. t \in Tcb
      BY ONLY y \in Nat, <3>8 DEF Tcb
    <3>10. Frame(u, t, {"probes"})
      BY <3>8 DEF Frame, Fields, Tcb
    <3>11. Frame(u, t, Plain)
      BY <3>10 DEF Frame, Plain, Soft
    <3>12. Fine(o, t, r) /\ Grows(u, t)
      BY <3>5, <3>9, <3>11, PlainFine
    <3>13. Grows(s, t)
      BY <1>0, <3>5, <3>8, <3>9, <3>12, GrowsTrans
    <3>14. Frame(s, t, Clocked) /\ t.state = s.state /\ t.wnd = s.wnd
      BY <3>5, <3>10 DEF Frame, Fields, Clocked, Sent
    <3> QED
      BY <3>12, <3>13, <3>14
  <2> QED
    BY <2>1, <2>2
<1>4. t \in Tcb
  BY <1>3 DEF Fine, Half
<1>5. Going(o, t, w, c, k, read, write) /\ t.state # "listen"
  <2>1. s.state # "destroyed"
    OBVIOUS
  <2> QED
    BY ONLY o \in BOOLEAN, <1>0, <1>1, <1>2, <1>3, <1>4, <2>1, ClockedGoing
<1> QED
  BY <1>3, <1>5 DEF Goes

\* So does a delayed acknowledgement.
LEMMA AckGoes ==
  ASSUME NEW o \in BOOLEAN, NEW s, NEW r, Fine(o, s, r), s.tack, s.state \notin {"closed", "destroyed"},
         NEW w \in Nat, NEW c \in Nat, NEW k \in BOOLEAN, NEW read \in BOOLEAN, NEW write \in BOOLEAN,
         Going(o, s, w, c, k, read, write), NEW t
  PROVE  t = Ack(s) => Goes(o, s, r, t, w, c, k, read, write)
<1>a. SUFFICES ASSUME t = Ack(s)
      PROVE  Goes(o, s, r, t, w, c, k, read, write)
  OBVIOUS
<1>0. s \in Tcb /\ r \in Tcb
  BY DEF Fine, Half
<1>1. Phase(o, s, w, c + Len(s.rbuf)) /\ Notified(s, read, write) /\ Told(k, s, c)
      /\ (s.una = s.nxt /\ s.sbuf # <<>> => s.wnd = 0)
  BY DEF Going, Progress, Notified
<1>2. s.state # "listen" /\ (o \/ s.rnxt >= 1)
  BY <1>1 DEF Phase, Initial
<1>3. Fine(o, t, r) /\ Grows(s, t) /\ Frame(s, t, {"out", "tack", "lastack"})
  <2>1. s.nxt \in Nat /\ s.nxt <= s.nxt
    BY <1>0, TcbTypes
  <2>2. t = Written(s, s.nxt, FALSE, <<>>)
    BY <1>a DEF Ack
  <2> QED
    BY <1>2, <2>1, <2>2, AckFine
<1>4. t \in Tcb
  BY <1>3 DEF Fine, Half
<1>5. Frame(s, t, Clocked) /\ t.state = s.state /\ t.wnd = s.wnd /\ t.una = s.una /\ t.nxt = s.nxt /\ t.sbuf = s.sbuf
  BY <1>3 DEF Frame, Fields, Clocked, Sent
<1>6. Going(o, t, w, c, k, read, write) /\ t.state # "listen"
  <2>1. s.state # "destroyed" /\ t.state \in {s.state, "closed"} /\ (t.una = t.nxt /\ t.sbuf # <<>> => t.wnd = 0)
    BY <1>1, <1>5
  <2> QED
    BY ONLY o \in BOOLEAN, <1>0, <1>1, <1>2, <1>3, <1>4, <1>5, <2>1, ClockedGoing
<1> QED
  BY <1>3, <1>6 DEF Goes

\* What Send and Connect make of an end.
Sending(s, w, n, idle) == AttemptSend(Queue(s, [i \in 1..n |-> w + i], FALSE), "none", idle)

\* What Connect makes of an end.
Connecting(s) == AttemptSend(QueueConnectMessage([s EXCEPT !.state = "syn_sent"]), "none", FALSE)

\* A condition, named to be cited.
Holds(o) == o

\* An end of which n more units have been written.
Queued(o, s, r, t, w, n, c, k, read, write) ==
  Goes(o, s, r, t, w + n, c, k, read, write) /\ (Acks(t) => Acks(s))

\* Space for n more units.
Room(s, w, n) == n > 0 /\ n <= SndSpace(s) /\ w + n + 1 < SeqRange

\* Send keeps the agreement, the progress and the contents.
LEMMA SendingGoes ==
  ASSUME NEW o \in BOOLEAN, NEW s, NEW r, Fine(o, s, r), s.state = "established",
         NEW w \in Nat, NEW c \in Nat, NEW k \in BOOLEAN, NEW read \in BOOLEAN,
         NEW write \in BOOLEAN, Holds(write), Going(o, s, w, c, k, read, write), NEW n \in Nat, Room(s, w, n),
         NEW idle \in BOOLEAN, NEW t
  PROVE  t = Sending(s, w, n, idle) => Queued(o, s, r, t, w, n, c, k, read, write)
<1>a. SUFFICES ASSUME t = Sending(s, w, n, idle)
      PROVE  Queued(o, s, r, t, w, n, c, k, read, write)
  OBVIOUS
<1>0. s \in Tcb /\ r \in Tcb /\ n > 0 /\ n <= SndSpace(s) /\ w + n + 1 < SeqRange
  BY DEF Fine, Half, Room
<1>1. Phase(o, s, w, c + Len(s.rbuf)) /\ Told(k, s, c) /\ (s.rbuf # <<>> \/ ~ s.readEnable => read \/ s.readable)
  BY DEF Going, Progress
<1>2. Total(s) = w + 1 /\ s.nxt >= 1 /\ s.rnxt >= 1
  BY <1>1 DEF Phase
<1>3. PICK data : data = [i \in 1..n |-> w + i]
  OBVIOUS
<1>4. data \in Seq(Nat) /\ Len(data) = n /\ \A i \in 1..n : data[i] = w + i
  <2>1. data \in [1..n -> Nat]
    BY <1>3
  <2> QED
    BY <1>3, <2>1, SeqDef, LenProperties
<1>5. PICK u : u = Queue(s, data, FALSE)
  OBVIOUS
<1>6. /\ Fine(o, u, r) /\ Grows(s, u) /\ Frame(s, u, {"slist", "sbuf"})
      /\ Total(u) = Total(s) + n /\ Len(u.sbuf) = Len(s.sbuf) + n
  <2>1. \A i \in 1..Len(data) : data[i] = Total(s) + i - 1
    BY <1>2, <1>4
  <2>2. Len(s.sbuf) + Len(data) <= SndBuf
    <3>1. PICK x \in Nat, y \in Nat : x = Len(s.sbuf) /\ y = SndBuf
      BY <1>0, Consts, TcbTypes
    <3>2. n <= y - x
      BY <1>0, <3>1 DEF SndSpace
    <3>3. x + n <= y
      BY <3>1, <3>2
    <3> QED
      BY <1>4, <3>1, <3>3
  <2>3. Total(s) + Len(data) < SeqRange /\ Total(s) > 0 /\ Len(data) > 0
    BY <1>0, <1>2, <1>4, Consts
  <2>4. /\ Fine(o, u, r) /\ Grows(s, u) /\ Frame(s, u, {"slist", "sbuf"})
        /\ Total(u) = Total(s) + Len(data) /\ Len(u.sbuf) = Len(s.sbuf) + Len(data)
    <3>1. PICK b \in BOOLEAN : b = FALSE
      OBVIOUS
    <3>2. u = Queue(s, data, b) /\ (b => Total(s) = 0 /\ Len(data) = 1) /\ (~ b => Total(s) > 0) /\ data \in Seq(Nat)
          /\ Fine(o, s, r)
      BY <1>4, <1>5, <2>3, <3>1
    <3> QED
      BY ONLY o \in BOOLEAN, b \in BOOLEAN, <2>1, <2>2, <2>3, <3>2, QueueFine
  <2> QED
    BY <1>4, <2>4
<1>7. u \in Tcb
  BY <1>6 DEF Fine, Half
<1>8. /\ u.state = s.state /\ u.shutdown = s.shutdown /\ u.una = s.una /\ u.nxt = s.nxt /\ u.wnd = s.wnd
      /\ u.rnxt = s.rnxt /\ u.rbuf = s.rbuf /\ u.rlist = s.rlist /\ u.stash = s.stash
      /\ u.readEnable = s.readEnable /\ u.readable = s.readable /\ u.out = s.out /\ u.tack = s.tack
  BY <1>6 DEF Frame, Fields
<1>9. Phase(o, u, w + n, c + Len(u.rbuf)) /\ Notified(u, read, write) /\ Told(k, u, c)
  <2>1. Total(u) = (w + n) + 1
    BY <1>2, <1>6
  <2>2. Phase(o, u, w + n, c + Len(u.rbuf))
    BY <1>1, <1>2, <1>8, <2>1 DEF Phase
  <2>3. Notified(u, read, write)
    BY <1>1, <1>8 DEF Notified, Holds
  <2>4. Told(k, u, c)
    <3>1. \A x : Held(s, x) => Held(u, x)
      BY <1>8 DEF Held
    <3>2. Stream(s, c) => Stream(u, c)
      BY <1>8 DEF Stream
    <3>3. Kept(s, s.rnxt + 1) => Kept(u, u.rnxt + 1)
      BY <1>8, <3>1 DEF Kept
    <3> QED
      BY <1>1, <1>8, <3>2, <3>3 DEF Told
  <2> QED
    BY <2>2, <2>3, <2>4
<1>10. /\ Fine(o, t, r) /\ Grows(u, t) /\ Frame(u, t, Sent)
       /\ t.una = t.nxt /\ t.sbuf # <<>> => t.wnd = 0
       /\ Acks(t) => Acks(u)
  <2>1. PICK f \in Flags : f = "none"
    BY DEF Flags
  <2>2. t = AttemptSend(u, f, idle)
    BY <1>a, <1>3, <1>5, <2>1 DEF Sending
  <2>3. u.rnxt >= 1
    BY <1>2, <1>8
  <2> QED
    BY <1>6, <2>1, <2>2, <2>3, AttemptSendFine
<1>11. t \in Tcb /\ t.state = u.state /\ Frame(u, t, Clocked)
  BY <1>10 DEF Fine, Half, Frame, Fields, Sent, Clocked
<1>12. Going(o, t, w + n, c, k, read, write) /\ t.state # "listen"
  <2>1. u.state # "destroyed" /\ u.state # "listen" /\ t.state \in {u.state, "closed"}
        /\ (t.state # "closed" /\ t.una = t.nxt /\ t.sbuf # <<>> => t.wnd = 0)
    BY <1>8, <1>10, <1>11
  <2> QED
    BY ONLY o \in BOOLEAN, <1>7, <1>9, <1>10, <1>11, <2>1, ClockedGoing
<1>13. Grows(s, t)
  BY <1>0, <1>6, <1>7, <1>10, <1>11, GrowsTrans
<1>14. Acks(u) => Acks(s)
  BY <1>8 DEF Acks
<1> QED
  BY <1>10, <1>12, <1>13, <1>14 DEF Goes, Queued

\* An end that has connected.
Connected(o, s, r, t, w, c, k, read, write) ==
  Goes(o, s, r, t, w, c, k, read, write) /\ (Acks(t) => Acks(s)) /\ t.wnd = s.wnd

\* So does Connect.
LEMMA ConnectingGoes ==
  ASSUME NEW o \in BOOLEAN, Holds(o), NEW s, NEW r, Fine(o, s, r), s.state = "listen", 1 < SeqRange,
         NEW w \in Nat, NEW c \in Nat, NEW k \in BOOLEAN, NEW read \in BOOLEAN, NEW write \in BOOLEAN,
         Going(o, s, w, c, k, read, write), NEW t
  PROVE  t = Connecting(s) => Connected(o, s, r, t, w, c, k, read, write)
<1>a. SUFFICES ASSUME t = Connecting(s)
      PROVE  Connected(o, s, r, t, w, c, k, read, write)
  OBVIOUS
<1>0. s \in Tcb /\ r \in Tcb /\ o
  BY DEF Fine, Half, Holds
<1>1. Phase(o, s, w, c + Len(s.rbuf)) /\ Told(k, s, c)
      /\ (s.rbuf # <<>> \/ ~ s.readEnable => read \/ s.readable)
  BY DEF Going, Progress
<1>2. /\ s.nxt = 0 /\ s.una = 0 /\ s.sbuf = <<>> /\ s.rnxt = 0 /\ s.rlist = <<>> /\ s.rbuf = <<>>
      /\ s.wnd = 1 /\ ~ s.shutdown
  BY <1>1 DEF Phase, Initial
<1>3. w = 0 /\ c + Len(s.rbuf) = 0
  <2>1. Total(s) = w
    BY <1>1 DEF Phase
  <2>2. Total(s) = 0
    BY <1>2, EmptySeq DEF Total
  <2> QED
    BY <1>1, <1>2, <2>1, <2>2 DEF Phase
<1>4. PICK u : u = [s EXCEPT !.state = "syn_sent"]
  OBVIOUS
<1>5. u \in Tcb /\ u.state = "syn_sent" /\ Frame(s, u, {"state"})
  <2>1. u \in Tcb /\ u.state = "syn_sent"
    BY ONLY <1>0, <1>4 DEF Tcb, States
  <2>2. Frame(s, u, {"state"})
    BY <1>0, <1>4 DEF Frame, Fields, Tcb
  <2> QED
    BY <2>1, <2>2
<1>6. Fine(o, u, r) /\ Grows(s, u)
  <2>1. Frame(s, u, Plain)
    BY <1>5 DEF Frame, Plain, Soft
  <2> QED
    BY <1>5, <2>1, PlainFine
<1>7. PICK v : v = QueueConnectMessage(u)
  OBVIOUS
<1>8. /\ Fine(o, v, r) /\ Grows(u, v) /\ Frame(u, v, {"slist", "sbuf"})
      /\ Total(v) = 1 /\ Len(v.sbuf) = 1
  <2>1. u.una = 0 /\ u.sbuf = <<>> /\ u.wnd = 1
    BY <1>2, <1>5 DEF Frame, Fields
  <2> QED
    BY <1>6, <1>7, <2>1, QueueConnectFine
<1>9. v \in Tcb
  BY <1>8 DEF Fine, Half
<1>10. /\ Fine(o, t, r) /\ Grows(v, t) /\ Frame(v, t, Sent)
       /\ t.una = t.nxt /\ t.sbuf # <<>> => t.wnd = 0
       /\ Acks(t) => Acks(v)
  <2>1. PICK f \in Flags, idle \in BOOLEAN : f = "none" /\ idle = FALSE
    BY DEF Flags
  <2>2. t = AttemptSend(v, f, idle)
    BY <1>a, <1>4, <1>7, <2>1 DEF Connecting
  <2> QED
    <3>1. Fine(o, v, r) /\ (o \/ v.rnxt >= 1) /\ f = "none"
      BY <1>0, <1>8, <2>1
    <3>2. /\ Fine(o, t, r) /\ Grows(v, t) /\ Frame(v, t, Sent)
          /\ t.una = t.nxt /\ t.sbuf # <<>> => t.wnd = 0
          /\ f = "none" /\ Acks(t) => Acks(v)
      BY ONLY o \in BOOLEAN, f \in Flags, idle \in BOOLEAN, <2>2, <3>1, AttemptSendFine
    <3> QED
      BY <2>1, <3>2
<1>11. t \in Tcb
  BY <1>10 DEF Fine, Half
<1>12. /\ t.state = "syn_sent" /\ t.shutdown = s.shutdown /\ t.una = s.una /\ t.wnd = s.wnd /\ t.sbuf = v.sbuf
       /\ t.rnxt = s.rnxt /\ t.rbuf = s.rbuf /\ t.rlist = s.rlist /\ t.stash = s.stash
       /\ t.readEnable = s.readEnable /\ t.readable = s.readable /\ t.una = v.una /\ v.out = s.out /\ v.tack = s.tack
  BY <1>5, <1>8, <1>10 DEF Frame, Fields, Sent
<1>13. t.nxt >= 1
  <2>1. t.sbuf # <<>>
    <3>1. PICK b : b = t.sbuf
      OBVIOUS
    <3>2. Len(b) = 1
      BY <1>8, <1>12, <3>1
    <3>3. b # <<>>
      BY ONLY <3>2, EmptySeq
    <3> QED
      BY <3>1, <3>3
  <2>2. t.nxt # 0
    BY <1>2, <1>10, <1>12, <2>1
  <2>3. t.nxt \in Nat
    BY <1>11, TcbTypes
  <2> QED
    BY <2>2, <2>3
<1>14. Going(o, t, w, c, k, read, write)
  <2>1. Phase(o, t, w, c + Len(t.rbuf))
    <3>1. Total(t) = w + 1
      <4>1. Total(t) = Total(v)
        BY <1>12 DEF Total
      <4> QED
        BY <1>3, <1>8, <4>1
    <3> QED
      BY <1>0, <1>2, <1>3, <1>12, <1>13, <3>1 DEF Phase
  <2>2. Progress(t, read \/ t.readable, write \/ t.writable)
    BY <1>1, <1>10, <1>12 DEF Progress
  <2>3. Told(k, t, c)
    <3>1. \A x : Held(s, x) => Held(t, x)
      BY <1>12 DEF Held
    <3>2. Stream(s, c) => Stream(t, c)
      BY <1>12 DEF Stream
    <3>3. Kept(s, s.rnxt + 1) => Kept(t, t.rnxt + 1)
      BY <1>12, <3>1 DEF Kept
    <3> QED
      BY <1>1, <1>12, <3>2, <3>3 DEF Told
  <2> QED
    BY <2>1, <2>2, <2>3 DEF Going
<1>15. Grows(s, t)
  <2>1. Grows(s, v)
    BY <1>0, <1>5, <1>6, <1>8, <1>9, GrowsTrans
  <2> QED
    BY <1>0, <1>9, <1>10, <1>11, <2>1, GrowsTrans
<1>16. Acks(v) => Acks(s)
  BY <1>12 DEF Acks
<1> QED
  BY <1>10, <1>12, <1>14, <1>15, <1>16 DEF Goes, Connected

-------------------------------------------------------------------------------
\* The actions: what one end does, and what it leaves to the other.

\* When its packets have gone to the network and its notifications to the application.
Published(t) == [t EXCEPT !.out = <<>>, !.readable = FALSE, !.writable = FALSE]

\* What has been said leaves the control block, and the ends agree.
LEMMA PublishedFine ==
  ASSUME NEW o, NEW t, NEW r, Fine(o, t, r), NEW u
  PROVE  u = Published(t) =>
         Fine(o, u, r) /\ Grows(t, u) /\ AtRest(u) /\ Frame(t, u, {"out", "readable", "writable"})
<1>a. SUFFICES ASSUME u = Published(t)
      PROVE  Fine(o, u, r) /\ Grows(t, u) /\ AtRest(u) /\ Frame(t, u, {"out", "readable", "writable"})
  OBVIOUS
<1>0. t \in Tcb /\ r \in Tcb
  BY DEF Fine, Half
<1>1. <<>> \in Seq(Packet) /\ <<>> \in Seq(FromTo(o, u, r))
  BY EmptySeq
<1>2. PICK e \in Seq(Packet) : e = <<>>
  BY <1>1
<1>3. PICK x : x = [t EXCEPT !.out = e]
  OBVIOUS
<1>4. x \in Tcb
  BY ONLY <1>0, <1>2, <1>3, e \in Seq(Packet) DEF Tcb
<1>5. u = [x EXCEPT !.readable = FALSE, !.writable = FALSE]
  BY <1>a, <1>0, <1>2, <1>3 DEF Published, Tcb
<1>6. u \in Tcb /\ AtRest(u)
  <2>1. u \in Tcb
    BY ONLY <1>4, <1>5 DEF Tcb
  <2>2. AtRest(u)
    BY <1>a, <1>0 DEF AtRest, Published, Tcb
  <2> QED
    BY <2>1, <2>2
<1>7. Frame(t, u, {"out", "readable", "writable"})
  BY <1>a, <1>0 DEF Frame, Fields, Tcb, Published
<1>8. /\ u.slist = t.slist /\ u.sbuf = t.sbuf /\ u.una = t.una /\ u.nxt = t.nxt /\ u.wnd = t.wnd
      /\ u.rto = t.rto /\ u.rnxt = t.rnxt /\ u.rwnd = t.rwnd /\ u.rlist = t.rlist
      /\ u.rbuf = t.rbuf /\ u.stash = t.stash /\ u.recover = t.recover
      /\ u.cwnd = t.cwnd /\ u.mss = t.mss /\ u.level = t.level
  BY <1>7 DEF Frame, Fields
<1>9. Total(u) = Total(t) /\ Edge(u) = Edge(t) /\ Points(u) = Points(t)
  BY <1>8 DEF Total, Edge, Points
<1>10. Grows(t, u)
  BY <1>0, <1>8, <1>9, GrowsRefl DEF Grows
<1>11. Half(u)
  <2>1. SndOK(u)
    BY <1>8, <1>9 DEF Fine, Half, SndOK
  <2>2. RcvOK(u) /\ CcOK(u)
    BY <1>8 DEF Fine, Half, RcvOK, CcOK
  <2> QED
    BY <1>6, <2>1, <2>2 DEF Half
<1>12. Peered(u, r) /\ Peered(r, u)
  BY <1>8, <1>9 DEF Fine, Peered
<1>13. u.out \in Seq(FromTo(o, u, r))
  BY <1>1, <1>6 DEF AtRest
<1>14. o /\ u.rnxt >= 1 => u.una >= 1
  BY <1>8 DEF Fine
<1> QED
  BY <1>6, <1>7, <1>10, <1>11, <1>12, <1>13, <1>14 DEF Fine

\* The end that has done something.
After(o, m, k, s, r, n, w, g, read, write, t, u) ==
  Whole(o, m, k, u, r, n \o t.out, w, g, read \/ t.readable, write \/ t.writable) /\ Grows(s, u)

\* The end that has done something satisfies its invariant, with what is on its way to the peer.
LEMMA PublishedWhole ==
  ASSUME NEW o, NEW m \in Nat, NEW k \in BOOLEAN, NEW s, NEW r, s \in Tcb, r \in Tcb, NEW n, n \in Seq(FromTo(o, s, r)),
         NEW w, w \in 0..m, NEW g, g \in Seq(Int), k => \A i \in 1..Len(g) : g[i] = i,
         NEW read \in BOOLEAN, NEW write \in BOOLEAN,
         NEW t, Goes(o, s, r, t, w, Len(g), k, read, write), NEW u
  PROVE  u = Published(t) => After(o, m, k, s, r, n, w, g, read, write, t, u)
<1>a. SUFFICES ASSUME u = Published(t)
      PROVE  After(o, m, k, s, r, n, w, g, read, write, t, u)
  OBVIOUS
<1>1. /\ Fine(o, t, r) /\ Grows(s, t) /\ Phase(o, t, w, Len(g) + Len(t.rbuf))
      /\ Progress(t, read \/ t.readable, write \/ t.writable) /\ Told(k, t, Len(g))
  BY DEF Goes, Going
<1>2. t \in Tcb
  BY <1>1 DEF Fine, Half
<1>3. Fine(o, u, r) /\ Grows(t, u) /\ AtRest(u) /\ Frame(t, u, {"out", "readable", "writable"})
  BY <1>a, <1>1, PublishedFine
<1>4. u \in Tcb
  BY <1>3 DEF Fine, Half
<1>5. Grows(s, u)
  BY <1>1, <1>2, <1>3, <1>4, GrowsTrans
<1>6. n \o t.out \in Seq(FromTo(o, u, r))
  <2>1. FromTo(o, s, r) \subseteq FromTo(o, u, r) /\ FromTo(o, t, r) \subseteq FromTo(o, u, r)
    BY <1>2, <1>3, <1>4, <1>5, FromToGrows
  <2>2. PICK x : x = t.out
    OBVIOUS
  <2>3. x \in Seq(FromTo(o, t, r))
    BY <1>1, <2>2 DEF Fine
  <2>4. PICK S : S = FromTo(o, u, r)
    OBVIOUS
  <2>5. n \in Seq(S) /\ x \in Seq(S)
    BY <2>1, <2>3, <2>4, SeqMono
  <2>6. n \o x \in Seq(S)
    BY ONLY <2>5, ConcatProperties
  <2> QED
    BY <2>2, <2>4, <2>6
<1>7. /\ u.state = t.state /\ u.shutdown = t.shutdown /\ u.sbuf = t.sbuf /\ u.una = t.una /\ u.nxt = t.nxt
      /\ u.wnd = t.wnd /\ u.rnxt = t.rnxt /\ u.rlist = t.rlist /\ u.rbuf = t.rbuf /\ u.stash = t.stash
      /\ u.readEnable = t.readEnable /\ u.writeEnable = t.writeEnable /\ u.tack = t.tack /\ u.dups = t.dups
  BY <1>3 DEF Frame, Fields
<1>8. Phase(o, u, w, Len(g) + Len(u.rbuf))
  <2>1. Total(u) = Total(t)
    BY <1>7 DEF Total
  <2>2. Initial(t) => Initial(u)
    BY <1>7 DEF Initial
  <2> QED
    BY <1>1, <1>7, <2>1, <2>2 DEF Phase
<1>9. Progress(u, read \/ t.readable, write \/ t.writable)
  BY <1>1, <1>7 DEF Progress
<1>10. k => Content(u, g)
  <2> SUFFICES ASSUME k PROVE Content(u, g)
    OBVIOUS
  <2>1. \A x : Held(t, x) => Held(u, x)
    BY <1>7 DEF Held
  <2>2. Stream(t, Len(g)) => Stream(u, Len(g))
    BY <1>7 DEF Stream
  <2>3. Kept(t, t.rnxt + 1) => Kept(u, u.rnxt + 1)
    BY <1>7, <2>1 DEF Kept
  <2> QED
    BY <1>1, <1>7, <2>2, <2>3 DEF Told, Content
<1>11. (read \/ t.readable) \in BOOLEAN /\ (write \/ t.writable) \in BOOLEAN
  <2>1. t.readable \in BOOLEAN /\ t.writable \in BOOLEAN
    BY <1>2 DEF Tcb
  <2> QED
    BY <2>1
<1> QED
  BY <1>3, <1>5, <1>6, <1>8, <1>9, <1>10, <1>11 DEF Whole, After

\* An end of which only states and flags change.
LEMMA QuietWhole ==
  ASSUME NEW o, NEW m, NEW k \in BOOLEAN, NEW s, NEW r, NEW n, NEW w, NEW g, NEW read, NEW write,
         Whole(o, m, k, s, r, n, w, g, read, write),
         NEW u, u \in Tcb, Frame(s, u, Plain), AtRest(u), s.shutdown => u.shutdown, Phase(o, u, w, Len(g) + Len(u.rbuf)),
         NEW read2 \in BOOLEAN, NEW write2 \in BOOLEAN, Progress(u, read2, write2)
  PROVE  Whole(o, m, k, u, r, n, w, g, read2, write2) /\ Grows(s, u)
<1>1. s \in Tcb /\ r \in Tcb
  BY DEF Whole, Fine, Half
<1>2. Fine(o, u, r) /\ Grows(s, u)
  BY PlainFine DEF Whole
<1>3. n \in Seq(FromTo(o, u, r))
  <2>1. FromTo(o, s, r) \subseteq FromTo(o, u, r)
    BY <1>1, <1>2, FromToGrows
  <2>2. n \in Seq(FromTo(o, s, r))
    BY DEF Whole
  <2> QED
    BY <2>1, <2>2, SeqMono
<1>4. u.rnxt = s.rnxt /\ u.rlist = s.rlist /\ u.rbuf = s.rbuf /\ u.stash = s.stash
  BY DEF Frame, Fields, Plain, Soft
<1>5. k => Content(u, g)
  <2> SUFFICES ASSUME k PROVE Content(u, g)
    OBVIOUS
  <2>1. \A x : Held(s, x) => Held(u, x)
    BY <1>4 DEF Held
  <2>2. Stream(s, Len(g)) => Stream(u, Len(g))
    BY <1>4 DEF Stream
  <2>3. Kept(s, s.rnxt + 1) => Kept(u, u.rnxt + 1)
    BY <1>4, <2>1 DEF Kept
  <2>4. Content(s, g)
    BY DEF Whole
  <2> QED
    BY <2>2, <2>3, <2>4 DEF Content
<1>6. w \in 0..m /\ g \in Seq(Int)
  BY DEF Whole
<1> QED
  BY <1>2, <1>3, <1>5, <1>6 DEF Whole

\* The end whose peer has done something.
LEMMA PeerWhole ==
  ASSUME NEW o, NEW q, NEW m, NEW k \in BOOLEAN, NEW s, NEW r, NEW n, NEW w, NEW g, NEW read, NEW write,
         Whole(o, m, k, s, r, n, w, g, read, write),
         NEW u, Fine(q, u, s), Grows(r, u), NEW rest, rest \in Seq(FromTo(o, s, r))
  PROVE  Whole(o, m, k, s, u, rest, w, g, read, write)
<1>1. s \in Tcb /\ r \in Tcb /\ u \in Tcb
  BY DEF Whole, Fine, Half
<1>2. rest \in Seq(FromTo(o, s, u))
  <2>1. FromTo(o, s, r) \subseteq FromTo(o, s, u)
    BY <1>1, FromToGrows
  <2> QED
    BY <2>1, SeqMono
<1>3. Fine(o, s, u)
  <2>1. s.out \in Seq(FromTo(o, s, u))
    <3>1. s.out = <<>>
      BY DEF Whole, AtRest
    <3> QED
      BY <3>1, EmptySeq
  <2> QED
    BY <2>1 DEF Whole, Fine
<1> QED
  BY <1>2, <1>3 DEF Whole

\* A step of one end keeps the invariant of both when it keeps its own and unsays nothing.
LEMMA Stepped ==
  ASSUME NEW both \in BOOLEAN, TcpInv(both), NEW e \in Ends, NEW f, f = Peer(e), NEW u, Grows(tcb[e], u),
         tcb'[e] = u, tcb'[f] = tcb[f], NEW rest, net'[e] = rest,
         rest \in Seq(FromTo(Opens(f), tcb[f], tcb[e])),
         written'[f] = written[f], got'[f] = got[f], toRead'[f] = toRead[f], toWrite'[f] = toWrite[f],
         Whole(Opens(e), ToSend[e], Reads(e, both), u, tcb[f], net'[f], written'[e], got'[e], toRead'[e], toWrite'[e])
  PROVE  (\A x \in Ends : EndInv(x, both))'
<1>1. f \in Ends /\ f # e /\ Peer(f) = e /\ \A x \in Ends : x = e \/ x = f
  BY PeerFacts
<1>2. EndInv(e, both)'
  <2>1. (Opens(e))' = Opens(e) /\ (Reads(e, both))' = Reads(e, both) /\ (Peer(e))' = Peer(e)
    BY DEF Opens, Reads, Peer
  <2> QED
    BY <1>1, <2>1 DEF EndInv
<1>3. EndInv(f, both)'
  <2>1. Whole(Opens(f), ToSend[f], Reads(f, both), tcb[f], tcb[e], net[e], written[f], got[f], toRead[f], toWrite[f])
    BY <1>1 DEF TcpInv, EndInv
  <2>2. Fine(Opens(e), u, tcb[f])
    BY DEF Whole
  <2>3. Reads(f, both) \in BOOLEAN
    BY DEF Reads
  <2>4. Whole(Opens(f), ToSend[f], Reads(f, both), tcb[f], u, rest, written[f], got[f], toRead[f], toWrite[f])
    BY <2>1, <2>2, <2>3, PeerWhole
  <2>5. (Opens(f))' = Opens(f) /\ (Reads(f, both))' = Reads(f, both) /\ (Peer(f))' = Peer(f)
    BY DEF Opens, Reads, Peer
  <2> QED
    BY <1>1, <2>4, <2>5 DEF EndInv
<1> QED
  BY <1>1, <1>2, <1>3

\* The same, as the lemmas about the functions of the code have it.
Foregoing(o, m, k, s, r, n, w, g, read, write) ==
  /\ Fine(o, s, r) /\ AtRest(s) /\ s \in Tcb /\ r \in Tcb /\ n \in Seq(FromTo(o, s, r))
  /\ Phase(o, s, w, Len(g) + Len(s.rbuf)) /\ Going(o, s, w, Len(g), k, read, write)
  /\ w \in Nat /\ w <= m /\ g \in Seq(Int) /\ Len(g) \in Nat /\ read \in BOOLEAN /\ write \in BOOLEAN
  /\ k => \A i \in 1..Len(g) : g[i] = i

\* The invariant of an end gives what the lemmas above need.
LEMMA WholeGoing ==
  ASSUME NEW o, NEW m \in Nat, NEW k \in BOOLEAN, NEW s, NEW r, NEW n, NEW w, NEW g, NEW read, NEW write,
         Whole(o, m, k, s, r, n, w, g, read, write)
  PROVE  Foregoing(o, m, k, s, r, n, w, g, read, write)
<1>1. /\ Fine(o, s, r) /\ AtRest(s) /\ n \in Seq(FromTo(o, s, r))
      /\ Phase(o, s, w, Len(g) + Len(s.rbuf)) /\ Progress(s, read, write) /\ (k => Content(s, g))
  BY DEF Whole
<1>2. /\ w \in 0..m /\ g \in Seq(Int) /\ read \in BOOLEAN /\ write \in BOOLEAN
  BY DEF Whole
<1>3. w \in Nat /\ w <= m /\ Len(g) \in Nat
  BY <1>2, LenProperties
<1>4. s \in Tcb /\ r \in Tcb
  BY <1>1 DEF Fine, Half
<1>5. ~ s.readable /\ ~ s.writable
  BY <1>1 DEF AtRest
<1>6. (read \/ s.readable) = read /\ (write \/ s.writable) = write
  BY <1>2, <1>5
<1>7. Told(k, s, Len(g))
  BY <1>1 DEF Content, Told
<1>8. Going(o, s, w, Len(g), k, read, write)
  BY <1>1, <1>6, <1>7 DEF Going
<1> QED
  BY <1>1, <1>2, <1>3, <1>4, <1>8 DEF Content, Foregoing

\* What is known of end e before it does something.
LEMMA EndFacts ==
  ASSUME NEW both \in BOOLEAN, TcpInv(both), NoWrap, NEW e \in Ends, NEW f, f = Peer(e)
  PROVE  /\ f \in Ends /\ f # e /\ Peer(f) = e /\ \A x \in Ends : x = e \/ x = f
         /\ Opens(e) \in BOOLEAN /\ Opens(f) \in BOOLEAN /\ Opens(e) # Opens(f) /\ Reads(e, both) \in BOOLEAN
         /\ ToSend[e] \in Nat /\ 1 < SeqRange /\ ToSend[e] + 1 < SeqRange
         /\ Whole(Opens(e), ToSend[e], Reads(e, both), tcb[e], tcb[f], net[f], written[e], got[e],
                   toRead[e], toWrite[e])
         /\ net[e] \in Seq(FromTo(Opens(f), tcb[f], tcb[e]))
<1>1. f \in Ends /\ f # e /\ Peer(f) = e /\ \A x \in Ends : x = e \/ x = f
  BY PeerFacts
<1>2. /\ Opens(e) \in BOOLEAN /\ Opens(f) \in BOOLEAN /\ Opens(e) # Opens(f) /\ Reads(e, both) \in BOOLEAN
  BY <1>1, PseudoTcpAssumption DEF Opens, Reads
<1>3. \A x \in Ends : ToSend[x] \in Nat
  BY PseudoTcpAssumption
<1>4. ToSend[e] \in Nat /\ 1 < SeqRange /\ ToSend[e] + 1 < SeqRange
  <2>1. PICK x \in Nat, y \in Nat : x = ToSend[e] /\ y = SeqRange
    BY <1>3, Consts
  <2>2. x + 1 < y
    BY <2>1 DEF NoWrap
  <2>3. 1 < y
    BY <2>2
  <2> QED
    BY <2>1, <2>2, <2>3
<1>5. /\ EndInv(e, both) /\ EndInv(f, both)
  BY <1>1 DEF TcpInv
<1>6. Whole(Opens(f), ToSend[f], Reads(f, both), tcb[f], tcb[e], net[e], written[f], got[f], toRead[f], toWrite[f])
  BY <1>1, <1>5 DEF EndInv
<1>7. net[e] \in Seq(FromTo(Opens(f), tcb[f], tcb[e]))
  BY <1>6 DEF Whole
<1> QED
  BY <1>1, <1>2, <1>4, <1>5, <1>7 DEF EndInv

\* A step of an end that leaves LISTEN, or has left it, keeps what is said of the connect messages.
LEMMA HandshakeStep ==
  ASSUME NEW both \in BOOLEAN, TcpInv(both), NEW e \in Ends, NEW f, f = Peer(e), tcb'[f] = tcb[f], tcb'[e].state # "listen",
         tcb[e].state = "listen" => tcb[Opener].state # "listen" \/ e = Opener,
         e = Opener /\ tcb[f].state = "listen" =>
           net'[e] = <<>> /\ ~ tcb'[e].tack /\ tcb'[e].wnd = 1 /\ (\A i \in 1..Len(net'[f]) : net'[f][i].ctrl)
  PROVE  Handshake'
<1>1. f \in Ends /\ f # e /\ Peer(f) = e /\ \A x \in Ends : x = e \/ x = f
  BY PeerFacts
<1>2. (Peer(Opener))' = Peer(Opener) /\ Opener \in Ends
  BY PseudoTcpAssumption DEF Peer
<1>3. CASE e = Opener
  BY <1>1, <1>2, <1>3 DEF Handshake
<1>4. CASE e # Opener
  <2>1. f = Opener /\ Peer(Opener) = e
    BY <1>1, <1>2, <1>4
  <2>2. tcb[Opener].state # "listen"
    <3>1. Handshake
      BY DEF TcpInv
    <3> QED
      BY <1>4, <3>1 DEF Handshake
  <2> QED
    BY <1>2, <2>1, <2>2 DEF Handshake
<1> QED
  BY <1>3, <1>4

\* The opener's connect message is all that it sends before the other one is heard.
LEMMA CtrlOnly ==
  ASSUME NEW t, NEW r, Fine(TRUE, t, r), r.nxt = 0, NEW w \in Nat, NEW c, Phase(TRUE, t, w, c), t.state # "listen",
         ~ Acks(t), NEW i \in 1..Len(t.out)
  PROVE  t.out[i].ctrl
<1>0. t \in Tcb /\ r \in Tcb /\ Half(t) /\ Half(r)
  BY DEF Fine, Half
<1>1. t.rnxt = 0
  <2>1. t.rnxt \in Points(r)
    BY DEF Fine, Peered
  <2>2. t.rnxt \in Nat /\ t.rnxt <= r.nxt
    BY <1>0, <2>1, PointsFacts
  <2> QED
    BY <2>2
<1>2. Total(t) = 1
  <2>1. w = 0
    BY <1>1 DEF Phase
  <2> QED
    BY <2>1 DEF Phase
<1>3. PICK p : p = t.out[i]
  OBVIOUS
<1>4. p \in FromTo(TRUE, t, r)
  <2>1. PICK l : l = t.out
    OBVIOUS
  <2>2. PICK S : S = FromTo(TRUE, t, r)
    OBVIOUS
  <2>3. l \in Seq(S) /\ i \in 1..Len(l)
    BY <2>1, <2>2 DEF Fine
  <2>4. l[i] \in S
    BY ONLY <2>3, ElementOfSeq
  <2> QED
    BY <1>3, <2>1, <2>2, <2>4
<1>5. p.data # <<>>
  BY <1>3 DEF Acks
<1>6. PICK n \in Nat \ {0}, q \in Nat : n = Len(p.data) /\ q = p.seq
  <2>1. p.data \in Seq(Nat) /\ p.seq \in Nat
    BY <1>4 DEF FromTo, Packet
  <2>2. Len(p.data) \in Nat /\ Len(p.data) # 0
    BY <1>5, <2>1, EmptySeq, LenProperties
  <2> QED
    BY <2>1, <2>2
<1>7. q + n <= t.nxt
  <2>1. q + n \in Points(t)
    BY <1>4, <1>5, <1>6 DEF FromTo
  <2> QED
    BY <1>0, <2>1, PointsFacts
<1>8. t.nxt <= 1 /\ t.nxt \in Nat
  BY <1>0, <1>2, TcbTypes DEF Half, SndOK
<1>9. q = 0
  BY <1>7, <1>8
<1> QED
  BY <1>3, <1>4, <1>5, <1>6, <1>9 DEF FromTo

\* The invariant, but for the bound of the network's faults.
Sound(both) == Shaped /\ (\A x \in Ends : EndInv(x, both)) /\ Handshake

\* A call that keeps an end's agreement, progress and contents preserves the invariant.
LEMMA BecomesSound ==
  ASSUME NEW both \in BOOLEAN, TcpInv(both), NoWrap, NEW e \in Ends, NEW f, f = Peer(e), NEW t, NEW rest, Becomes(e, t, rest),
         rest \in Seq(FromTo(Opens(f), tcb[f], tcb[e])),
         NEW w, w \in 0..ToSend[e], written' = [written EXCEPT ![e] = w],
         NEW g, g \in Seq(Int), got' = [got EXCEPT ![e] = g], Reads(e, both) => \A i \in 1..Len(g) : g[i] = i,
         Goes(Opens(e), tcb[e], tcb[f], t, w, Len(g), Reads(e, both), toRead[e], toWrite[e]),
         tcb[e].state = "listen" => tcb[Opener].state # "listen" \/ e = Opener,
         e = Opener /\ tcb[f].state = "listen" => rest = <<>> /\ ~ Acks(t) /\ t.wnd = 1
  PROVE  Sound(both)'
<1>1. /\ f \in Ends /\ f # e /\ Peer(f) = e /\ \A x \in Ends : x = e \/ x = f
      /\ Opens(e) \in BOOLEAN /\ Opens(f) \in BOOLEAN /\ Opens(e) # Opens(f) /\ Reads(e, both) \in BOOLEAN
      /\ ToSend[e] \in Nat
      /\ Whole(Opens(e), ToSend[e], Reads(e, both), tcb[e], tcb[f], net[f], written[e], got[e],
               toRead[e], toWrite[e])
      /\ net[e] \in Seq(FromTo(Opens(f), tcb[f], tcb[e]))
  BY EndFacts
<1>b. PICK o \in BOOLEAN, m \in Nat, k \in BOOLEAN : o = Opens(e) /\ m = ToSend[e] /\ k = Reads(e, both)
  BY <1>1
<1>2. PICK s, r, n, read, write :
        /\ o = Opens(e) /\ m = ToSend[e] /\ k = Reads(e, both) /\ s = tcb[e] /\ r = tcb[f] /\ n = net[f]
        /\ read = toRead[e] /\ write = toWrite[e]
  BY <1>b
<1>3. Whole(o, m, k, s, r, n, written[e], got[e], read, write)
  BY <1>1, <1>2
<1>4. /\ Fine(o, s, r) /\ AtRest(s) /\ s \in Tcb /\ r \in Tcb /\ n \in Seq(FromTo(o, s, r))
      /\ read \in BOOLEAN /\ write \in BOOLEAN
  <2>1. Foregoing(o, m, k, s, r, n, written[e], got[e], read, write)
    BY ONLY m \in Nat, k \in BOOLEAN, <1>3, WholeGoing
  <2> QED
    BY <2>1 DEF Foregoing
<1>5. Goes(o, s, r, t, w, Len(g), k, read, write)
  BY <1>2
<1>6. PICK u : u = Published(t)
  OBVIOUS
<1>7. Whole(o, m, k, u, r, n \o t.out, w, g, read \/ t.readable, write \/ t.writable) /\ Grows(s, u)
  <2>1. w \in 0..m /\ g \in Seq(Int) /\ (k => \A i \in 1..Len(g) : g[i] = i)
    BY <1>b
  <2>2. After(o, m, k, s, r, n, w, g, read, write, t, u)
    BY ONLY m \in Nat, k \in BOOLEAN, <1>4, <1>5, <1>6, <2>1, PublishedWhole
  <2> QED
    BY <2>2 DEF After
<1>8. /\ tcb = [x \in Ends |-> tcb[x]] /\ net = [x \in Ends |-> net[x]]
      /\ written = [x \in Ends |-> written[x]] /\ got = [x \in Ends |-> got[x]]
      /\ toRead = [x \in Ends |-> toRead[x]] /\ toWrite = [x \in Ends |-> toWrite[x]]
  BY DEF TcpInv, Shaped
<1>9. /\ tcb' = [tcb EXCEPT ![e] = u] /\ net' = [x \in Ends |-> IF x = e THEN rest ELSE net[x] \o t.out]
      /\ toRead' = [toRead EXCEPT ![e] = read \/ t.readable]
      /\ toWrite' = [toWrite EXCEPT ![e] = write \/ t.writable]
  <2>1. tcb' = [tcb EXCEPT ![e] = u]
    BY <1>6 DEF Becomes, Published
  <2>2. net' = [x \in Ends |-> IF x = e THEN rest ELSE net[x] \o t.out]
    BY DEF Becomes
  <2>3. toRead' = [toRead EXCEPT ![e] = @ \/ t.readable] /\ toWrite' = [toWrite EXCEPT ![e] = @ \/ t.writable]
    BY DEF Becomes
  <2>4. toRead' = [toRead EXCEPT ![e] = read \/ t.readable] /\ toWrite' = [toWrite EXCEPT ![e] = write \/ t.writable]
    BY <1>2, <2>3
  <2> QED
    BY <2>1, <2>2, <2>4
<1>10. Shaped'
  <2>1. tcb' = [x \in Ends |-> tcb'[x]]
    BY <1>8, <1>9
  <2>2. net' = [x \in Ends |-> net'[x]]
    BY <1>9
  <2>3. written' = [x \in Ends |-> written'[x]] /\ got' = [x \in Ends |-> got'[x]]
    BY <1>8
  <2>4. toRead' = [x \in Ends |-> toRead'[x]] /\ toWrite' = [x \in Ends |-> toWrite'[x]]
    BY <1>8, <1>9
  <2> QED
    BY <2>1, <2>2, <2>3, <2>4 DEF Shaped
<1>11. /\ tcb'[e] = u /\ tcb'[f] = tcb[f] /\ net'[e] = rest /\ net'[f] = n \o t.out
  <2>1. e \in DOMAIN tcb /\ f \in DOMAIN tcb /\ f # e /\ f \in Ends
    BY <1>1, <1>8
  <2>2. tcb'[e] = u /\ tcb'[f] = tcb[f]
    BY <1>9, <2>1
  <2>3. net'[e] = rest /\ net'[f] = net[f] \o t.out
    BY ONLY e \in Ends, <1>9, <2>1
  <2> QED
    BY <1>2, <2>2, <2>3
<1>12. /\ written'[e] = w /\ written'[f] = written[f] /\ got'[e] = g /\ got'[f] = got[f]
  <2>1. e \in DOMAIN written /\ e \in DOMAIN got
    BY <1>8
  <2> QED
    BY <1>1, <2>1
<1>13. /\ toRead'[e] = (read \/ t.readable) /\ toRead'[f] = toRead[f]
       /\ toWrite'[e] = (write \/ t.writable) /\ toWrite'[f] = toWrite[f]
  <2>1. e \in DOMAIN toRead /\ e \in DOMAIN toWrite
    BY <1>8
  <2> QED
    BY <1>1, <1>9, <2>1
<1>14. (\A x \in Ends : EndInv(x, both))'
  <2>1. Whole(Opens(e), ToSend[e], Reads(e, both), u, tcb[f], net'[f], written'[e], got'[e], toRead'[e], toWrite'[e])
    BY <1>2, <1>7, <1>11, <1>12, <1>13
  <2>2. Grows(tcb[e], u)
    BY <1>2, <1>7
  <2>3. /\ tcb'[e] = u /\ tcb'[f] = tcb[f] /\ net'[e] = rest
        /\ written'[f] = written[f] /\ got'[f] = got[f] /\ toRead'[f] = toRead[f] /\ toWrite'[f] = toWrite[f]
    BY <1>11, <1>12, <1>13
  <2>4. TcpInv(both) /\ f = Peer(e) /\ rest \in Seq(FromTo(Opens(f), tcb[f], tcb[e]))
    OBVIOUS
  <2> QED
    BY ONLY e \in Ends, <2>1, <2>2, <2>3, <2>4, Stepped
<1>15. Frame(t, u, {"out", "readable", "writable"}) /\ t \in Tcb
  BY <1>5, <1>6, PublishedFine DEF Goes, Fine, Half
<1>16. u.state = t.state /\ u.tack = t.tack /\ u.wnd = t.wnd /\ t.state # "listen"
  BY <1>5, <1>15 DEF Goes, Frame, Fields
<1>17. Handshake'
  <2>1. tcb'[f] = tcb[f] /\ tcb'[e].state # "listen"
    BY <1>11, <1>16
  <2>2. ASSUME e = Opener, tcb[f].state = "listen"
        PROVE  net'[e] = <<>> /\ ~ tcb'[e].tack /\ tcb'[e].wnd = 1 /\ (\A i \in 1..Len(net'[f]) : net'[f][i].ctrl)
    <3>1. rest = <<>> /\ ~ Acks(t) /\ t.wnd = 1
      BY <2>2
    <3>2. ~ t.tack
      BY <3>1 DEF Acks
    <3>3. o = TRUE
      BY <1>2, <2>2 DEF Opens
    <3>4. r.nxt = 0
      <4>1. EndInv(f, both)
        BY <1>1 DEF TcpInv
      <4> QED
        BY <1>2, <2>2, <4>1 DEF EndInv, Whole, Phase, Initial
    <3>5. ASSUME NEW i \in 1..Len(t.out) PROVE t.out[i].ctrl
      <4>1. PICK c : c = Len(g) + Len(t.rbuf)
        OBVIOUS
      <4>2. Fine(TRUE, t, r) /\ Phase(TRUE, t, w, c) /\ t.state # "listen"
        BY <1>5, <3>3, <4>1 DEF Goes, Going
      <4>3. w \in Nat
        BY <1>1
      <4> QED
        BY ONLY i \in 1..Len(t.out), <3>1, <3>4, <4>2, <4>3, CtrlOnly
    <3>6. ASSUME NEW i \in 1..Len(n) PROVE n[i].ctrl
      <4>1. Handshake /\ Peer(Opener) = f
        BY <2>2 DEF TcpInv
      <4> QED
        BY <1>2, <2>2, <4>1 DEF Handshake
    <3>7. \A i \in 1..Len(n \o t.out) : (n \o t.out)[i].ctrl
      <4>1. PICK x, y : x = t.out /\ y = n \o x
        OBVIOUS
      <4>2. PICK S : S = FromTo(o, s, r)
        OBVIOUS
      <4>3. PICK T : T = FromTo(o, t, r)
        OBVIOUS
      <4>4. n \in Seq(Packet) /\ x \in Seq(Packet)
        <5>1. S \subseteq Packet
          BY <4>2 DEF FromTo
        <5>2. n \in Seq(S)
          BY <1>4, <4>2
        <5>3. x \in Seq(Packet)
          BY <1>15, <4>1, TcbTypes
        <5> QED
          BY <5>1, <5>2, <5>3, SeqMono
      <4>5. /\ Len(y) = Len(n) + Len(x)
            /\ \A i \in 1..Len(n) + Len(x) : y[i] = IF i <= Len(n) THEN n[i] ELSE x[i - Len(n)]
        BY ONLY <4>1, <4>4, ConcatProperties
      <4>6. Len(n) \in Nat /\ Len(x) \in Nat
        BY <4>4, LenProperties
      <4>7. ASSUME NEW i \in 1..Len(y) PROVE y[i].ctrl
        <5>1. CASE i <= Len(n)
          BY <3>6, <4>5, <4>6, <5>1
        <5>2. CASE ~ (i <= Len(n))
          <6>1. i - Len(n) \in 1..Len(x)
            BY <4>5, <4>6, <5>2
          <6>2. y[i] = x[i - Len(n)]
            BY <4>5, <5>2
          <6> QED
            BY <3>5, <4>1, <6>1, <6>2
        <5> QED
          BY <5>1, <5>2
      <4> QED
        BY <4>1, <4>7
    <3> QED
      BY <1>11, <1>16, <3>1, <3>2, <3>7
  <2> QED
    BY <2>1, <2>2, HandshakeStep
<1> QED
  BY <1>10, <1>14, <1>17 DEF Sound

-------------------------------------------------------------------------------
\* Each action preserves the invariant.

\* Until the other end has heard the connect message the opener has nothing to acknowledge.
LEMMA OpenerWaits ==
  ASSUME NEW both \in BOOLEAN, TcpInv(both), NEW e \in Ends, e = Opener, tcb[Peer(e)].state = "listen"
  PROVE  net[e] = <<>> /\ ~ Acks(tcb[e]) /\ tcb[e].wnd = 1
<1>1. Handshake /\ EndInv(e, both)
  BY DEF TcpInv
<1>2. net[e] = <<>> /\ ~ tcb[e].tack /\ tcb[e].wnd = 1
  BY <1>1 DEF Handshake
<1>3. tcb[e].out = <<>>
  BY <1>1 DEF EndInv, Whole, AtRest
<1>4. PICK l : l = tcb[e].out
  OBVIOUS
<1>5. Len(l) = 0
  BY <1>3, <1>4, EmptySeq
<1>6. ~ \E i \in 1..Len(l) : l[i].data = <<>>
  BY <1>5
<1> QED
  BY <1>2, <1>4, <1>6 DEF Acks

\* The same of a call that takes no packet.
LEMMA ActSound ==
  ASSUME NEW both \in BOOLEAN, TcpInv(both), NoWrap, NEW e \in Ends, NEW f, f = Peer(e), NEW t, Becomes(e, t, net[e]),
         written' = written, got' = got,
         Goes(Opens(e), tcb[e], tcb[f], t, written[e], Len(got[e]), Reads(e, both), toRead[e], toWrite[e]),
         tcb[e].state = "listen" => tcb[Opener].state # "listen" \/ e = Opener,
         e = Opener /\ tcb[f].state = "listen" => ~ Acks(t) /\ t.wnd = 1
  PROVE  Sound(both)'
<1>1. /\ Reads(e, both) \in BOOLEAN /\ ToSend[e] \in Nat
      /\ Whole(Opens(e), ToSend[e], Reads(e, both), tcb[e], tcb[f], net[f], written[e], got[e],
               toRead[e], toWrite[e])
      /\ net[e] \in Seq(FromTo(Opens(f), tcb[f], tcb[e]))
  BY EndFacts
<1>2. PICK w, g, rest : w = written[e] /\ g = got[e] /\ rest = net[e]
  OBVIOUS
<1>3. w \in 0..ToSend[e] /\ g \in Seq(Int) /\ (Reads(e, both) => \A i \in 1..Len(g) : g[i] = i)
  BY <1>1, <1>2 DEF Whole, Content
<1>4. written' = [written EXCEPT ![e] = w] /\ got' = [got EXCEPT ![e] = g]
  <2>1. written = [x \in Ends |-> written[x]] /\ got = [x \in Ends |-> got[x]]
    BY DEF TcpInv, Shaped
  <2> QED
    BY <1>2, <2>1
<1>5. Becomes(e, t, rest) /\ rest \in Seq(FromTo(Opens(f), tcb[f], tcb[e]))
  BY <1>1, <1>2
<1>6. Goes(Opens(e), tcb[e], tcb[f], t, w, Len(g), Reads(e, both), toRead[e], toWrite[e])
  BY <1>2
<1>7. e = Opener /\ tcb[f].state = "listen" => rest = <<>> /\ ~ Acks(t) /\ t.wnd = 1
  BY <1>2, OpenerWaits
<1>8. TcpInv(both) /\ NoWrap /\ f = Peer(e) /\ (tcb[e].state = "listen" => tcb[Opener].state # "listen" \/ e = Opener)
  OBVIOUS
<1> QED
  BY ONLY e \in Ends, <1>3, <1>4, <1>5, <1>6, <1>7, <1>8, BecomesSound

\* What the lemmas about the functions need of an end.
StandsAt(e, both, o, k, s, r, w, c, read, write) ==
  /\ o = Opens(e) /\ k = Reads(e, both) /\ s = tcb[e] /\ r = tcb[Peer(e)] /\ w = written[e] /\ c = Len(got[e])
  /\ read = toRead[e] /\ write = toWrite[e]
  /\ s \in Tcb /\ r \in Tcb /\ Fine(o, s, r) /\ AtRest(s)
  /\ Phase(o, s, w, c + Len(s.rbuf)) /\ Going(o, s, w, c, k, read, write)

\* There is such an end.
LEMMA Standing ==
  ASSUME NEW both \in BOOLEAN, TcpInv(both), NoWrap, NEW e \in Ends
  PROVE  \E o \in BOOLEAN, k \in BOOLEAN, s \in Tcb, r \in Tcb, w \in Nat, c \in Nat, read \in BOOLEAN, write \in BOOLEAN :
           StandsAt(e, both, o, k, s, r, w, c, read, write)
<1>1. PICK f : f = Peer(e)
  OBVIOUS
<1>2. /\ Opens(e) \in BOOLEAN /\ Reads(e, both) \in BOOLEAN /\ ToSend[e] \in Nat
      /\ Whole(Opens(e), ToSend[e], Reads(e, both), tcb[e], tcb[f], net[f], written[e], got[e],
               toRead[e], toWrite[e])
  BY <1>1, EndFacts
<1>3. Foregoing(Opens(e), ToSend[e], Reads(e, both), tcb[e], tcb[f], net[f], written[e], got[e], toRead[e], toWrite[e])
  BY <1>2, WholeGoing
<1>4. /\ tcb[e] \in Tcb /\ tcb[f] \in Tcb /\ written[e] \in Nat /\ Len(got[e]) \in Nat
      /\ toRead[e] \in BOOLEAN /\ toWrite[e] \in BOOLEAN
      /\ Fine(Opens(e), tcb[e], tcb[f]) /\ AtRest(tcb[e])
      /\ Phase(Opens(e), tcb[e], written[e], Len(got[e]) + Len(tcb[e].rbuf))
      /\ Going(Opens(e), tcb[e], written[e], Len(got[e]), Reads(e, both), toRead[e], toWrite[e])
  BY <1>3 DEF Foregoing
<1>5. StandsAt(e, both, Opens(e), Reads(e, both), tcb[e], tcb[f], written[e], Len(got[e]), toRead[e], toWrite[e])
  BY <1>1, <1>4 DEF StandsAt
<1> QED
  BY <1>2, <1>4, <1>5, SMTT(30)

\* Connect preserves the invariant.
LEMMA ConnectSound ==
  ASSUME NEW both \in BOOLEAN, TcpInv(both), NoWrap, Connect
  PROVE  Sound(both)'
<1>1. PICK e \in Ends : e = Opener
  BY PseudoTcpAssumption
<1>2. PICK o \in BOOLEAN, k \in BOOLEAN, s \in Tcb, r \in Tcb, w \in Nat, c \in Nat, read \in BOOLEAN, write \in BOOLEAN :
        StandsAt(e, both, o, k, s, r, w, c, read, write)
  BY Standing
<1>3. PICK t : t = Connecting(s)
  OBVIOUS
<1>4. s.state = "listen" /\ Becomes(e, t, net[e]) /\ written' = written /\ got' = got
  BY <1>1, <1>2, <1>3 DEF Connect, Connecting, StandsAt
<1>5. Holds(o) /\ Fine(o, s, r) /\ Going(o, s, w, c, k, read, write) /\ 1 < SeqRange
  BY <1>1, <1>2, EndFacts DEF StandsAt, Opens, Holds
<1>6. Goes(o, s, r, t, w, c, k, read, write) /\ (Acks(t) => Acks(s)) /\ t.wnd = s.wnd
  <2>1. Holds(o) /\ Fine(o, s, r) /\ Going(o, s, w, c, k, read, write) /\ s.state = "listen" /\ 1 < SeqRange
    BY <1>4, <1>5
  <2>2. Connected(o, s, r, t, w, c, k, read, write)
    BY ONLY o \in BOOLEAN, w \in Nat, c \in Nat, k \in BOOLEAN, read \in BOOLEAN, write \in BOOLEAN, <1>3, <2>1, ConnectingGoes
  <2> QED
    BY <2>2 DEF Connected
<1>7. Goes(Opens(e), tcb[e], tcb[Peer(e)], t, written[e], Len(got[e]), Reads(e, both), toRead[e], toWrite[e])
  BY <1>2, <1>6 DEF StandsAt
<1>8. e = Opener /\ tcb[Peer(e)].state = "listen" => ~ Acks(t) /\ t.wnd = 1
  BY <1>2, <1>6, OpenerWaits DEF StandsAt
<1> QED
  BY <1>1, <1>4, <1>7, <1>8, ActSound

\* The retransmission timer preserves it.
LEMMA RetransmitTimerSound ==
  ASSUME NEW both \in BOOLEAN, TcpInv(both), NoWrap, NEW e \in Ends, RetransmitTimer(e)
  PROVE  Sound(both)'
<1>2. PICK o \in BOOLEAN, k \in BOOLEAN, s \in Tcb, r \in Tcb, w \in Nat, c \in Nat, read \in BOOLEAN, write \in BOOLEAN :
        StandsAt(e, both, o, k, s, r, w, c, read, write)
  BY Standing
<1>3. PICK t : t = Resending(s)
  OBVIOUS
<1>4. /\ s.rto /\ s.state \notin {"closed", "destroyed"} /\ Becomes(e, t, net[e]) /\ written' = written /\ got' = got
  BY <1>2, <1>3 DEF RetransmitTimer, Resending, StandsAt, Alive
<1>5. Fine(o, s, r) /\ Going(o, s, w, c, k, read, write) /\ Phase(o, s, w, c + Len(s.rbuf))
  BY <1>2 DEF StandsAt
<1>6. Goes(o, s, r, t, w, c, k, read, write) /\ (Acks(t) => Acks(s)) /\ t.wnd = s.wnd
  BY <1>3, <1>4, <1>5, ResendingGoes
<1>7. Goes(Opens(e), tcb[e], tcb[Peer(e)], t, written[e], Len(got[e]), Reads(e, both), toRead[e], toWrite[e])
  BY <1>2, <1>6 DEF StandsAt
<1>8. e = Opener /\ tcb[Peer(e)].state = "listen" => ~ Acks(t) /\ t.wnd = 1
  BY <1>2, <1>6, OpenerWaits DEF StandsAt
<1>9. tcb[e].state # "listen"
  <2>1. s.nxt > s.una
    BY <1>4, <1>5 DEF Fine, Half, SndOK
  <2>2. s.state = "listen" => s.nxt = 0 /\ s.una = 0
    BY <1>5 DEF Phase, Initial
  <2>3. s = tcb[e]
    BY <1>2 DEF StandsAt
  <2> QED
    BY <2>1, <2>2, <2>3
<1> QED
  BY <1>4, <1>7, <1>8, <1>9, ActSound

\* So does the probe of a closed window.
LEMMA ProbeTimerSound ==
  ASSUME NEW both \in BOOLEAN, TcpInv(both), NoWrap, NEW e \in Ends, ProbeTimer(e)
  PROVE  Sound(both)'
<1>2. PICK o \in BOOLEAN, k \in BOOLEAN, s \in Tcb, r \in Tcb, w \in Nat, c \in Nat, read \in BOOLEAN, write \in BOOLEAN :
        StandsAt(e, both, o, k, s, r, w, c, read, write)
  BY Standing
<1>3. PICK t : t = Probing(s)
  OBVIOUS
<1>4. /\ s.wnd = 0 /\ s.state \notin {"closed", "destroyed"} /\ Becomes(e, t, net[e]) /\ written' = written /\ got' = got
  BY <1>2, <1>3 DEF ProbeTimer, Probing, StandsAt, Alive
<1>5. Fine(o, s, r) /\ Going(o, s, w, c, k, read, write) /\ Phase(o, s, w, c + Len(s.rbuf))
  BY <1>2 DEF StandsAt
<1>6. Goes(o, s, r, t, w, c, k, read, write)
  BY <1>3, <1>4, <1>5, ProbingGoes
<1>7. Goes(Opens(e), tcb[e], tcb[Peer(e)], t, written[e], Len(got[e]), Reads(e, both), toRead[e], toWrite[e])
  BY <1>2, <1>6 DEF StandsAt
<1>8. ~ (e = Opener /\ tcb[Peer(e)].state = "listen")
  BY <1>2, <1>4, OpenerWaits DEF StandsAt
<1>9. tcb[e].state # "listen"
  BY <1>2, <1>4, <1>5 DEF Phase, Initial, StandsAt
<1> QED
  BY <1>4, <1>7, <1>8, <1>9, ActSound

\* So does a delayed acknowledgement.
LEMMA AckTimerSound ==
  ASSUME NEW both \in BOOLEAN, TcpInv(both), NoWrap, NEW e \in Ends, AckTimer(e)
  PROVE  Sound(both)'
<1>2. PICK o \in BOOLEAN, k \in BOOLEAN, s \in Tcb, r \in Tcb, w \in Nat, c \in Nat, read \in BOOLEAN, write \in BOOLEAN :
        StandsAt(e, both, o, k, s, r, w, c, read, write)
  BY Standing
<1>3. PICK t : t = Ack(s)
  OBVIOUS
<1>4. /\ s.tack /\ s.state \notin {"closed", "destroyed"} /\ Becomes(e, t, net[e]) /\ written' = written /\ got' = got
  BY <1>2, <1>3 DEF AckTimer, StandsAt, Alive
<1>5. Fine(o, s, r) /\ Going(o, s, w, c, k, read, write) /\ Phase(o, s, w, c + Len(s.rbuf))
  BY <1>2 DEF StandsAt
<1>6. Goes(o, s, r, t, w, c, k, read, write)
  BY <1>3, <1>4, <1>5, AckGoes
<1>7. Goes(Opens(e), tcb[e], tcb[Peer(e)], t, written[e], Len(got[e]), Reads(e, both), toRead[e], toWrite[e])
  BY <1>2, <1>6 DEF StandsAt
<1>8. ~ (e = Opener /\ tcb[Peer(e)].state = "listen")
  BY <1>2, <1>4, OpenerWaits DEF StandsAt, Acks
<1>9. tcb[e].state # "listen"
  BY <1>2, <1>4, <1>5 DEF Phase, Initial, StandsAt
<1> QED
  BY <1>4, <1>7, <1>8, <1>9, ActSound

\* So does what changes neither the windows nor the buffers of an end.
LEMMA QuietSound ==
  ASSUME NEW both \in BOOLEAN, TcpInv(both), NoWrap, NEW e \in Ends, tcb[e].state # "listen",
         NEW u, u \in Tcb, Frame(tcb[e], u, Plain), u.tack = tcb[e].tack, AtRest(u), tcb[e].shutdown => u.shutdown, u.state # "listen",
         Phase(Opens(e), u, written[e], Len(got[e]) + Len(u.rbuf)),
         NEW read \in BOOLEAN, NEW write \in BOOLEAN, Progress(u, read, write),
         tcb' = [tcb EXCEPT ![e] = u], net' = net, written' = written, got' = got,
         toRead' = [toRead EXCEPT ![e] = read], toWrite' = [toWrite EXCEPT ![e] = write]
  PROVE  Sound(both)'
<1>1. PICK f : f = Peer(e)
  OBVIOUS
<1>2. /\ f \in Ends /\ f # e /\ Peer(f) = e /\ Reads(e, both) \in BOOLEAN
      /\ Whole(Opens(e), ToSend[e], Reads(e, both), tcb[e], tcb[f], net[f], written[e], got[e],
               toRead[e], toWrite[e])
      /\ net[e] \in Seq(FromTo(Opens(f), tcb[f], tcb[e]))
  BY <1>1, EndFacts
<1>3. /\ tcb = [x \in Ends |-> tcb[x]] /\ net = [x \in Ends |-> net[x]]
      /\ written = [x \in Ends |-> written[x]] /\ got = [x \in Ends |-> got[x]]
      /\ toRead = [x \in Ends |-> toRead[x]] /\ toWrite = [x \in Ends |-> toWrite[x]]
  BY DEF TcpInv, Shaped
<1>4. Shaped'
  <2>1. tcb' = [x \in Ends |-> tcb'[x]] /\ net' = [x \in Ends |-> net'[x]]
    BY <1>3
  <2>2. written' = [x \in Ends |-> written'[x]] /\ got' = [x \in Ends |-> got'[x]]
    BY <1>3
  <2>3. toRead' = [x \in Ends |-> toRead'[x]] /\ toWrite' = [x \in Ends |-> toWrite'[x]]
    BY <1>3
  <2> QED
    BY <2>1, <2>2, <2>3 DEF Shaped
<1>5. /\ tcb'[e] = u /\ tcb'[f] = tcb[f] /\ toRead'[e] = read /\ toRead'[f] = toRead[f]
      /\ toWrite'[e] = write /\ toWrite'[f] = toWrite[f]
  <2>1. e \in DOMAIN tcb /\ e \in DOMAIN toRead /\ e \in DOMAIN toWrite
    BY <1>3
  <2> QED
    BY <1>2, <2>1
<1>6. PICK o, m, k, s, r, n, w, g, rd, wr :
        /\ o = Opens(e) /\ m = ToSend[e] /\ k = Reads(e, both) /\ s = tcb[e] /\ r = tcb[f] /\ n = net[f]
        /\ w = written[e] /\ g = got[e] /\ rd = toRead[e] /\ wr = toWrite[e]
  OBVIOUS
<1>7. Whole(o, m, k, u, r, n, w, g, read, write) /\ Grows(s, u)
  <2>1. Whole(o, m, k, s, r, n, w, g, rd, wr) /\ k \in BOOLEAN
    BY <1>2, <1>6
  <2>2. /\ u \in Tcb /\ Frame(s, u, Plain) /\ AtRest(u) /\ (s.shutdown => u.shutdown)
        /\ Phase(o, u, w, Len(g) + Len(u.rbuf)) /\ Progress(u, read, write)
    BY <1>6
  <2> QED
    BY ONLY read \in BOOLEAN, write \in BOOLEAN, <2>1, <2>2, QuietWhole
<1>8. (\A x \in Ends : EndInv(x, both))'
  <2>1. Whole(Opens(e), ToSend[e], Reads(e, both), u, tcb[f], net'[f], written'[e], got'[e], toRead'[e], toWrite'[e])
    BY <1>5, <1>6, <1>7
  <2>2. Grows(tcb[e], u)
    BY <1>6, <1>7
  <2>3. PICK rest : rest = net[e]
    OBVIOUS
  <2>4. /\ tcb'[e] = u /\ tcb'[f] = tcb[f] /\ net'[e] = rest
        /\ written'[f] = written[f] /\ got'[f] = got[f] /\ toRead'[f] = toRead[f] /\ toWrite'[f] = toWrite[f]
    BY <1>5, <2>3
  <2>5. TcpInv(both) /\ f = Peer(e) /\ rest \in Seq(FromTo(Opens(f), tcb[f], tcb[e]))
    BY <1>1, <1>2, <2>3
  <2> QED
    BY ONLY e \in Ends, <2>1, <2>2, <2>4, <2>5, Stepped
<1>9. Handshake'
  <2>1. u.tack = tcb[e].tack /\ u.wnd = tcb[e].wnd
    BY DEF Frame, Fields, Plain, Soft
  <2>2. ASSUME e = Opener, tcb[f].state = "listen"
        PROVE  net'[e] = <<>> /\ ~ tcb'[e].tack /\ tcb'[e].wnd = 1 /\ (\A i \in 1..Len(net'[f]) : net'[f][i].ctrl)
    <3>1. Handshake
      BY DEF TcpInv
    <3> QED
      BY <1>1, <1>5, <2>1, <2>2, <3>1 DEF Handshake
  <2> QED
    BY <1>1, <1>5, <2>2, HandshakeStep
<1> QED
  BY <1>4, <1>8, <1>9 DEF Sound

\* Only the network changes.
LEMMA NetSound ==
  ASSUME NEW both \in BOOLEAN, TcpInv(both), NoWrap, NEW e \in Ends,
         NEW rest, rest \in Seq(FromTo(Opens(Peer(e)), tcb[Peer(e)], tcb[e])),
         tcb[Peer(e)].state = "listen" /\ e = Opener => rest = <<>>,
         tcb[Opener].state = "listen" => rest = <<>>,
         tcb[e].state = "listen" => \A i \in 1..Len(rest) : rest[i].ctrl,
         net' = [net EXCEPT ![e] = rest],
         tcb' = tcb, written' = written, got' = got, toRead' = toRead, toWrite' = toWrite
  PROVE  Sound(both)'
<1>1. PICK f : f = Peer(e)
  OBVIOUS
<1>2. /\ f \in Ends /\ f # e /\ Peer(f) = e /\ (\A x \in Ends : x = e \/ x = f)
      /\ Whole(Opens(e), ToSend[e], Reads(e, both), tcb[e], tcb[f], net[f], written[e], got[e],
               toRead[e], toWrite[e])
  BY <1>1, EndFacts
<1>3. /\ tcb = [x \in Ends |-> tcb[x]] /\ net = [x \in Ends |-> net[x]]
      /\ written = [x \in Ends |-> written[x]] /\ got = [x \in Ends |-> got[x]]
      /\ toRead = [x \in Ends |-> toRead[x]] /\ toWrite = [x \in Ends |-> toWrite[x]]
  BY DEF TcpInv, Shaped
<1>4. Shaped'
  <2>1. net' = [x \in Ends |-> net'[x]]
    BY <1>3
  <2> QED
    BY <1>3, <2>1 DEF Shaped
<1>5. net'[e] = rest /\ net'[f] = net[f]
  <2>1. e \in DOMAIN net
    BY <1>3
  <2> QED
    BY <1>2, <2>1
<1>6. (\A x \in Ends : EndInv(x, both))'
  <2>1. PICK u : u = tcb[e]
    OBVIOUS
  <2>2. Grows(tcb[e], u)
    <3>1. u \in Tcb
      BY <1>2, <2>1 DEF Whole, Fine, Half
    <3> QED
      BY <2>1, <3>1, GrowsRefl
  <2>3. Whole(Opens(e), ToSend[e], Reads(e, both), u, tcb[f], net'[f], written'[e], got'[e], toRead'[e], toWrite'[e])
    BY <1>2, <1>5, <2>1
  <2>4. /\ tcb'[e] = u /\ tcb'[f] = tcb[f] /\ net'[e] = rest
        /\ written'[f] = written[f] /\ got'[f] = got[f] /\ toRead'[f] = toRead[f] /\ toWrite'[f] = toWrite[f]
    BY <1>5, <2>1
  <2>5. TcpInv(both) /\ f = Peer(e) /\ rest \in Seq(FromTo(Opens(f), tcb[f], tcb[e]))
    BY <1>1
  <2> QED
    BY ONLY e \in Ends, <2>2, <2>3, <2>4, <2>5, Stepped
<1>7. Handshake'
  <2>1. Handshake
    BY DEF TcpInv
  <2>2. (Peer(Opener))' = Peer(Opener) /\ Opener \in Ends
    BY PseudoTcpAssumption DEF Peer
  <2>3. CASE e = Opener
    BY <1>1, <1>2, <1>5, <2>1, <2>2, <2>3 DEF Handshake
  <2>4. CASE e # Opener
    BY <1>1, <1>2, <1>5, <2>1, <2>2, <2>4 DEF Handshake
  <2> QED
    BY <2>3, <2>4
<1> QED
  BY <1>4, <1>6, <1>7 DEF Sound

\* Close preserves the invariant.
LEMMA CloseSound ==
  ASSUME NEW both \in BOOLEAN, TcpInv(both), NoWrap, NEW e \in Ends, Close(e)
  PROVE  Sound(both)'
<1>1. PICK o \in BOOLEAN, k \in BOOLEAN, s \in Tcb, r \in Tcb, w \in Nat, c \in Nat, read \in BOOLEAN, write \in BOOLEAN :
        StandsAt(e, both, o, k, s, r, w, c, read, write)
  BY Standing
<1>2. s = tcb[e] /\ o = Opens(e) /\ w = written[e] /\ c = Len(got[e]) /\ read = toRead[e] /\ write = toWrite[e]
  BY <1>1 DEF StandsAt
<1>3. s.state = "established" /\ AtRest(s) /\ Phase(o, s, w, c + Len(s.rbuf)) /\ Progress(s, read, write)
  <2>1. Progress(s, read \/ s.readable, write \/ s.writable) /\ AtRest(s)
    BY <1>1 DEF StandsAt, Going
  <2>2. (read \/ s.readable) = read /\ (write \/ s.writable) = write
    BY <2>1 DEF AtRest
  <2>3. Progress(s, read, write)
    BY <2>1, <2>2
  <2> QED
    BY <1>1, <1>2, <2>1, <2>3 DEF StandsAt, Close
<1>4. PICK u : u = [s EXCEPT !.shutdown = TRUE]
  OBVIOUS
<1>5. u \in Tcb /\ u.shutdown
  BY ONLY s \in Tcb, <1>4 DEF Tcb
<1>6. Frame(s, u, {"shutdown"})
  BY s \in Tcb, <1>4 DEF Frame, Fields, Tcb
<1>7. /\ u.state = s.state /\ u.nxt = s.nxt /\ u.una = s.una /\ u.sbuf = s.sbuf /\ u.rnxt = s.rnxt /\ u.rbuf = s.rbuf
      /\ u.wnd = s.wnd /\ u.tack = s.tack /\ u.readEnable = s.readEnable /\ u.writeEnable = s.writeEnable
      /\ u.out = s.out /\ u.readable = s.readable /\ u.writable = s.writable
  BY <1>6 DEF Frame, Fields
<1>8. AtRest(u) /\ Frame(s, u, Plain) /\ Progress(u, read, write)
  <2>1. Frame(s, u, Plain)
    BY <1>6 DEF Frame, Plain, Soft
  <2> QED
    BY <1>3, <1>7, <2>1 DEF AtRest, Progress
<1>9. Phase(o, u, w, c + Len(u.rbuf))
  <2>1. Total(u) = Total(s)
    BY <1>7 DEF Total
  <2> QED
    BY <1>3, <1>5, <1>7, <2>1 DEF Phase
<1>10. /\ tcb' = [tcb EXCEPT ![e] = u] /\ net' = net /\ written' = written /\ got' = got
       /\ toRead' = [toRead EXCEPT ![e] = read] /\ toWrite' = [toWrite EXCEPT ![e] = write]
  <2>1. tcb' = [tcb EXCEPT ![e] = u]
    BY <1>2, <1>4 DEF Close
  <2>2. toRead = [x \in Ends |-> toRead[x]] /\ toWrite = [x \in Ends |-> toWrite[x]]
    BY DEF TcpInv, Shaped
  <2>3. toRead' = toRead /\ toWrite' = toWrite
    BY DEF Close
  <2>4. toRead' = [toRead EXCEPT ![e] = read] /\ toWrite' = [toWrite EXCEPT ![e] = write]
    BY <1>2, <2>2, <2>3
  <2> QED
    BY <2>1, <2>4 DEF Close
<1>11. /\ tcb[e].state # "listen" /\ Frame(tcb[e], u, Plain) /\ u.tack = tcb[e].tack
       /\ AtRest(u) /\ (tcb[e].shutdown => u.shutdown) /\ u.state # "listen"
       /\ Phase(Opens(e), u, written[e], Len(got[e]) + Len(u.rbuf))
  BY <1>2, <1>3, <1>5, <1>7, <1>8, <1>9
<1> QED
  BY ONLY both \in BOOLEAN, TcpInv(both), NoWrap, e \in Ends, read \in BOOLEAN, write \in BOOLEAN,
          <1>5, <1>8, <1>10, <1>11, QuietSound

\* So does the end of the object, which waits until everything has been acknowledged.
LEMMA DestroySound ==
  ASSUME NEW both \in BOOLEAN, TcpInv(both), NoWrap, NEW e \in Ends, Destroy(e)
  PROVE  Sound(both)'
<1>1. PICK o \in BOOLEAN, k \in BOOLEAN, s \in Tcb, r \in Tcb, w \in Nat, c \in Nat, read \in BOOLEAN, write \in BOOLEAN :
        StandsAt(e, both, o, k, s, r, w, c, read, write)
  BY Standing
<1>2. s = tcb[e] /\ o = Opens(e) /\ w = written[e] /\ c = Len(got[e]) /\ read = toRead[e] /\ write = toWrite[e]
  BY <1>1 DEF StandsAt
<1>3. AtRest(s) /\ Phase(o, s, w, c + Len(s.rbuf)) /\ Progress(s, read, write)
  <2>1. Progress(s, read \/ s.readable, write \/ s.writable) /\ AtRest(s)
    BY <1>1 DEF StandsAt, Going
  <2>2. (read \/ s.readable) = read /\ (write \/ s.writable) = write
    BY <2>1 DEF AtRest
  <2>3. Progress(s, read, write)
    BY <2>1, <2>2
  <2> QED
    BY <1>1, <2>1, <2>3 DEF StandsAt
<1>4. s.state = "established" /\ s.sbuf = <<>> /\ s.shutdown
  BY <1>2, <1>3 DEF Destroy, Alive, Phase
<1>5. PICK u : u = [s EXCEPT !.state = "destroyed"]
  OBVIOUS
<1>6. u \in Tcb /\ u.state = "destroyed"
  BY ONLY s \in Tcb, <1>5 DEF Tcb, States
<1>7. Frame(s, u, {"state"})
  BY s \in Tcb, <1>5 DEF Frame, Fields, Tcb
<1>8. /\ u.shutdown = s.shutdown /\ u.nxt = s.nxt /\ u.una = s.una /\ u.sbuf = s.sbuf /\ u.rnxt = s.rnxt /\ u.rbuf = s.rbuf
      /\ u.wnd = s.wnd /\ u.tack = s.tack /\ u.readEnable = s.readEnable /\ u.writeEnable = s.writeEnable
      /\ u.out = s.out /\ u.readable = s.readable /\ u.writable = s.writable
  BY <1>7 DEF Frame, Fields
<1>9. AtRest(u) /\ Frame(s, u, Plain) /\ Progress(u, read, write)
  <2>1. Frame(s, u, Plain)
    BY <1>7 DEF Frame, Plain, Soft
  <2> QED
    BY <1>3, <1>6, <1>8, <2>1 DEF AtRest, Progress
<1>10. Phase(o, u, w, c + Len(u.rbuf))
  <2>1. Total(u) = Total(s)
    BY <1>8 DEF Total
  <2>2. s.una = w + 1
    <3>1. Total(s) = w + 1
      BY <1>3, <1>4 DEF Phase
    <3>2. Len(s.sbuf) = 0 /\ s.una \in Nat
      BY <1>4, EmptySeq, TcbTypes
    <3> QED
      BY <3>1, <3>2 DEF Total
  <2> QED
    BY <1>3, <1>4, <1>6, <1>8, <2>1, <2>2 DEF Phase
<1>11. /\ tcb' = [tcb EXCEPT ![e] = u] /\ net' = net /\ written' = written /\ got' = got
       /\ toRead' = [toRead EXCEPT ![e] = read] /\ toWrite' = [toWrite EXCEPT ![e] = write]
  <2>1. tcb' = [tcb EXCEPT ![e] = u]
    BY <1>2, <1>5 DEF Destroy
  <2>2. toRead = [x \in Ends |-> toRead[x]] /\ toWrite = [x \in Ends |-> toWrite[x]]
    BY DEF TcpInv, Shaped
  <2>3. toRead' = toRead /\ toWrite' = toWrite
    BY DEF Destroy
  <2>4. toRead' = [toRead EXCEPT ![e] = read] /\ toWrite' = [toWrite EXCEPT ![e] = write]
    BY <1>2, <2>2, <2>3
  <2> QED
    BY <2>1, <2>4 DEF Destroy
<1>12. u \in Tcb /\ Progress(u, read, write)
  BY <1>4, <1>6, <1>8, <1>9, <1>10
<1>13. /\ tcb[e].state # "listen" /\ Frame(tcb[e], u, Plain) /\ u.tack = tcb[e].tack
       /\ AtRest(u) /\ (tcb[e].shutdown => u.shutdown) /\ u.state # "listen"
       /\ Phase(Opens(e), u, written[e], Len(got[e]) + Len(u.rbuf))
  BY <1>2, <1>4, <1>6, <1>8, <1>9, <1>10
<1> QED
  BY ONLY both \in BOOLEAN, TcpInv(both), NoWrap, e \in Ends, read \in BOOLEAN, write \in BOOLEAN,
          <1>11, <1>12, <1>13, QuietSound

\* What is left of the packets on their way when one of them is gone.
Rests(n, rest) == \A S : n \in Seq(S) => rest \in Seq(S)

\* What is left of the packets without one of them.
LEMMA RestsRemove ==
  ASSUME NEW S, NEW n \in Seq(S), NEW i \in 1..Len(n), NEW rest
  PROVE  rest = RemoveAt(n, i) => Rests(n, rest)
<1>1. SUFFICES ASSUME rest = RemoveAt(n, i), NEW T, n \in Seq(T)
      PROVE  rest \in Seq(T)
  BY DEF Rests
<1> QED
  BY <1>1, Removing

\* What a packet that is on its way to e may be, and what is left without it.
LEMMA Pending ==
  ASSUME NEW both \in BOOLEAN, TcpInv(both), NoWrap, NEW e \in Ends, NEW rest, Rests(net[e], rest)
  PROVE  /\ rest \in Seq(FromTo(Opens(Peer(e)), tcb[Peer(e)], tcb[e]))
         /\ tcb[Peer(e)].state = "listen" /\ e = Opener => rest = <<>>
         /\ tcb[Opener].state = "listen" => rest = <<>>
         /\ tcb[e].state = "listen" => \A i \in 1..Len(rest) : rest[i].ctrl
<1>1. PICK f : f = Peer(e)
  OBVIOUS
<1>2. /\ f \in Ends /\ f # e /\ Peer(f) = e /\ (\A x \in Ends : x = e \/ x = f)
      /\ net[e] \in Seq(FromTo(Opens(f), tcb[f], tcb[e]))
  BY <1>1, EndFacts
<1>3. rest \in Seq(FromTo(Opens(f), tcb[f], tcb[e]))
  BY <1>2 DEF Rests
<1>4. Handshake
  BY DEF TcpInv
<1>5. net[e] = <<>> => rest = <<>>
  <2>1. SUFFICES ASSUME net[e] = <<>> PROVE rest = <<>>
    OBVIOUS
  <2>2. net[e] \in Seq({})
    BY <2>1, EmptySeq
  <2>3. rest \in Seq({})
    BY <2>2 DEF Rests
  <2>4. Len(rest) \in Nat /\ \A i \in 1..Len(rest) : rest[i] \in {}
    BY <2>3, LenProperties, ElementOfSeq
  <2>5. Len(rest) = 0
    BY <2>4
  <2> QED
    BY <2>3, <2>5, EmptySeq
<1>6. tcb[f].state = "listen" /\ e = Opener => rest = <<>>
  BY <1>1, <1>4, <1>5 DEF Handshake
<1>7. tcb[Opener].state = "listen" => rest = <<>>
  BY <1>4, <1>5 DEF Handshake
<1>8. ASSUME tcb[e].state = "listen", NEW i \in 1..Len(rest) PROVE rest[i].ctrl
  <2>1. CASE e = Opener
    <3>1. rest = <<>>
      BY <1>7, <1>8, <2>1
    <3>2. Len(rest) = 0
      BY <3>1, EmptySeq
    <3> QED
      BY <1>8, <3>2
  <2>2. CASE e # Opener
    <3>1. Peer(Opener) = e
      <4>1. Opener \in Ends
        BY PseudoTcpAssumption
      <4>2. f = Opener
        BY <1>2, <2>2, <4>1
      <4> QED
        BY <1>2, <4>2
    <3>2. \A j \in 1..Len(net[e]) : net[e][j].ctrl
      BY <1>4, <1>8, <3>1 DEF Handshake
    <3>3. PICK S : S = FromTo(Opens(f), tcb[f], tcb[e])
      OBVIOUS
    <3>4. PICK C : C = {x \in S : x.ctrl}
      OBVIOUS
    <3>5. PICK n : n = net[e]
      OBVIOUS
    <3>6. n \in Seq(S) /\ \A j \in 1..Len(n) : n[j].ctrl
      BY <1>2, <3>2, <3>3, <3>5
    <3>7. n \in Seq(C)
      <4>1. Len(n) \in Nat /\ n \in [1..Len(n) -> S]
        BY ONLY <3>6, LenProperties
      <4>2. \A j \in 1..Len(n) : n[j] \in C
        BY <3>4, <3>6, <4>1
      <4>3. n \in [1..Len(n) -> C]
        BY <4>1, <4>2
      <4> QED
        BY <4>1, <4>3, SeqDef
    <3>8. rest \in Seq(C)
      BY <3>5, <3>7 DEF Rests
    <3>9. rest[i] \in C
      BY ONLY <3>8, i \in 1..Len(rest), ElementOfSeq
    <3> QED
      BY <3>4, <3>9
  <2> QED
    BY <2>1, <2>2
<1> QED
  BY <1>1, <1>3, <1>6, <1>7, <1>8

\* A packet that is lost preserves the invariant.
LEMMA LoseSound ==
  ASSUME NEW both \in BOOLEAN, TcpInv(both), NoWrap, NEW e \in Ends, Lose(e)
  PROVE  Sound(both)'
<1>1. PICK rest : rest = Tail(net[e])
  OBVIOUS
<1>2. Rests(net[e], rest)
  <2>1. SUFFICES ASSUME NEW S, net[e] \in Seq(S) PROVE rest \in Seq(S)
    BY DEF Rests
  <2>2. net[e] # <<>>
    BY DEF Lose
  <2> QED
    BY <1>1, <2>1, <2>2, HeadTailProperties
<1>3. /\ net' = [net EXCEPT ![e] = rest] /\ tcb' = tcb /\ written' = written /\ got' = got
      /\ toRead' = toRead /\ toWrite' = toWrite
  BY <1>1 DEF Lose
<1>4. /\ rest \in Seq(FromTo(Opens(Peer(e)), tcb[Peer(e)], tcb[e]))
      /\ tcb[Peer(e)].state = "listen" /\ e = Opener => rest = <<>>
      /\ tcb[Opener].state = "listen" => rest = <<>>
      /\ tcb[e].state = "listen" => \A i \in 1..Len(rest) : rest[i].ctrl
  BY <1>2, Pending
<1> QED
  BY ONLY both \in BOOLEAN, TcpInv(both), NoWrap, e \in Ends, <1>3, <1>4, NetSound

\* So does one that is delivered, whichever of those on their way it is, and whether or not a
\* copy of it stays.
LEMMA Delivering ==
  ASSUME NEW both \in BOOLEAN, TcpInv(both), NoWrap, both => ConnectFirst, NEW e \in Ends, Alive(e),
         NEW i \in 1..Len(net[e]), NEW idle \in BOOLEAN, NEW rest, Rests(net[e], rest),
         Becomes(e, Process(tcb[e], net[e][i], idle), rest),
         written' = written, got' = got
  PROVE  Sound(both)'
<1>1. PICK f : f = Peer(e)
  OBVIOUS
<1>2. /\ f \in Ends /\ f # e /\ Peer(f) = e /\ Opens(f) \in BOOLEAN /\ Opens(e) # Opens(f) /\ 1 < SeqRange
      /\ ToSend[e] \in Nat /\ Reads(e, both) \in BOOLEAN
      /\ net[e] \in Seq(FromTo(Opens(f), tcb[f], tcb[e]))
      /\ Whole(Opens(e), ToSend[e], Reads(e, both), tcb[e], tcb[f], net[f], written[e], got[e],
               toRead[e], toWrite[e])
  BY <1>1, EndFacts
<1>3. PICK o \in BOOLEAN, k \in BOOLEAN, s \in Tcb, r \in Tcb, w \in Nat, c \in Nat, read \in BOOLEAN, write \in BOOLEAN :
        StandsAt(e, both, o, k, s, r, w, c, read, write)
  BY Standing
<1>4. /\ s = tcb[e] /\ r = tcb[f] /\ o = Opens(e) /\ k = Reads(e, both) /\ w = written[e] /\ c = Len(got[e])
      /\ read = toRead[e] /\ write = toWrite[e]
      /\ Fine(o, s, r) /\ AtRest(s) /\ Going(o, s, w, c, k, read, write)
  BY <1>1, <1>3 DEF StandsAt
<1>5. PICK q \in BOOLEAN : q = Opens(f) /\ q # o
  BY <1>2, <1>4
<1>6. PICK p : p = net[e][i]
  OBVIOUS
<1>7. p \in FromTo(q, r, s)
  <2>1. PICK n, S : n = net[e] /\ S = FromTo(q, r, s)
    OBVIOUS
  <2>2. n \in Seq(S) /\ i \in 1..Len(n)
    BY <1>2, <1>4, <1>5, <2>1
  <2>3. n[i] \in S
    BY ONLY <2>2, ElementOfSeq
  <2> QED
    BY <1>6, <2>1, <2>3
<1>8. PICK n : n = net[e]
  OBVIOUS
<1>9. n # <<>>
  <2>1. n = <<>> => Len(n) = 0
    BY EmptySeq
  <2>2. i \in 1..Len(n)
    BY <1>8
  <2> QED
    BY <2>1, <2>2
<1>10. /\ tcb[f].state = "listen" /\ e = Opener => n = <<>>
       /\ tcb[Opener].state = "listen" => n = <<>>
       /\ tcb[e].state = "listen" => \A j \in 1..Len(n) : n[j].ctrl
  <2>1. Rests(net[e], n)
    BY <1>8 DEF Rests
  <2> QED
    BY <1>1, <2>1, Pending
<1>11. Fits(o, s, p)
  <2>1. s.state = "listen" => p.ctrl
    BY <1>4, <1>6, <1>8, <1>10
  <2>2. s.state = "listen" => ~ o
    BY <1>4, <1>9, <1>10 DEF Opens
  <2> QED
    BY <1>4, <2>1, <2>2 DEF Fits, Alive
<1>12. PICK t : t = Process(s, p, idle)
  OBVIOUS
<1>13. Goes(o, s, r, t, w, c, k, read, write)
  <2>1. /\ Fine(o, s, r) /\ q # o /\ Fits(o, s, p) /\ 1 < SeqRange /\ ~ s.readable /\ ~ s.writable
        /\ (k /\ o => InTurn(s)) /\ Going(o, s, w, c, k, read, write)
    <3>1. k /\ o => InTurn(s)
      BY <1>4 DEF Reads, Opens, ConnectFirst
    <3> QED
      BY <1>2, <1>4, <1>5, <1>11, <3>1 DEF AtRest
  <2>2. Fine(o, t, r) /\ Grows(s, t) /\ Going(o, t, w, c, k, read, write) /\ t.state # "listen"
    BY ONLY o \in BOOLEAN, q \in BOOLEAN, k \in BOOLEAN, w \in Nat, c \in Nat, read \in BOOLEAN, write \in BOOLEAN,
            idle \in BOOLEAN, <1>7, <1>12, <2>1, ProcessFine
  <2> QED
    BY <2>2 DEF Goes
<1>14. PICK g : g = got[e]
  OBVIOUS
<1>15. w \in 0..ToSend[e] /\ g \in Seq(Int) /\ (Reads(e, both) => \A j \in 1..Len(g) : g[j] = j)
  BY <1>2, <1>4, <1>14 DEF Whole, Content
<1>16. written' = [written EXCEPT ![e] = w] /\ got' = [got EXCEPT ![e] = g]
  <2>1. written = [x \in Ends |-> written[x]] /\ got = [x \in Ends |-> got[x]]
    BY DEF TcpInv, Shaped
  <2> QED
    BY <1>4, <1>14, <2>1
<1>17. Goes(Opens(e), tcb[e], tcb[f], t, w, Len(g), Reads(e, both), toRead[e], toWrite[e])
  BY <1>4, <1>13, <1>14
<1>18. rest \in Seq(FromTo(Opens(f), tcb[f], tcb[e])) /\ Becomes(e, t, rest)
  BY <1>2, <1>4, <1>6, <1>12 DEF Rests
<1>19. /\ f = Peer(e) /\ (tcb[e].state = "listen" => tcb[Opener].state # "listen" \/ e = Opener)
       /\ (e = Opener /\ tcb[f].state = "listen" => rest = <<>> /\ ~ Acks(t) /\ t.wnd = 1)
  BY <1>1, <1>9, <1>10
<1> QED
  BY ONLY both \in BOOLEAN, TcpInv(both), NoWrap, e \in Ends, <1>15, <1>16, <1>17, <1>18, <1>19, BecomesSound

\* So does the handler of packets, in order or not.
LEMMA ReceiveSound ==
  ASSUME NEW both \in BOOLEAN, TcpInv(both), NoWrap, both => ConnectFirst, NEW e \in Ends, Receive(e)
  PROVE  Sound(both)'
<1>1. PICK i \in DOMAIN net[e], idle \in Idles(e), again \in BOOLEAN :
        LET rest == IF again THEN net[e] ELSE RemoveAt(net[e], i)
        IN  IF Alive(e) THEN Becomes(e, Process(tcb[e], net[e][i], idle), rest)
            ELSE net' = [net EXCEPT ![e] = rest] /\ UNCHANGED <<tcb, toRead, toWrite>>
  BY DEF Receive
<1>2. PICK rest : rest = IF again THEN net[e] ELSE RemoveAt(net[e], i)
  OBVIOUS
<1>3. written' = written /\ got' = got /\ idle \in BOOLEAN
  <2>1. idle \in BOOLEAN
    BY DEF Idles
  <2> QED
    BY <2>1 DEF Receive
<1>4. i \in 1..Len(net[e]) /\ Rests(net[e], rest)
  <2>1. PICK S : net[e] \in Seq(S)
    <3>1. PICK f : f = Peer(e)
      OBVIOUS
    <3>2. net[e] \in Seq(FromTo(Opens(f), tcb[f], tcb[e]))
      BY ONLY both \in BOOLEAN, TcpInv(both), NoWrap, e \in Ends, <3>1, EndFacts
    <3> QED
      BY <3>2
  <2>2. PICK n : n = net[e]
    OBVIOUS
  <2>3. DOMAIN n = 1..Len(n)
    BY ONLY <2>1, <2>2, LenProperties
  <2>4. i \in 1..Len(n)
    BY <2>2, <2>3
  <2>5. CASE again
    BY <1>2, <2>2, <2>4, <2>5 DEF Rests
  <2>6. CASE ~ again
    <3>1. rest = RemoveAt(n, i) /\ n \in Seq(S)
      BY <1>2, <2>1, <2>2, <2>6
    <3>2. Rests(n, rest)
      BY ONLY i \in 1..Len(n), <2>4, <3>1, RestsRemove
    <3> QED
      BY <2>2, <2>4, <3>2
  <2> QED
    BY <2>5, <2>6
<1>5. CASE Alive(e)
  <2>1. Becomes(e, Process(tcb[e], net[e][i], idle), rest)
    BY <1>1, <1>2, <1>5
  <2> QED
    BY ONLY both \in BOOLEAN, TcpInv(both), NoWrap, both => ConnectFirst, e \in Ends, <1>3, <1>4, <1>5, <2>1, Delivering
<1>6. CASE ~ Alive(e)
  <2>1. net' = [net EXCEPT ![e] = rest] /\ tcb' = tcb /\ toRead' = toRead /\ toWrite' = toWrite
    BY <1>1, <1>2, <1>6
  <2>2. /\ rest \in Seq(FromTo(Opens(Peer(e)), tcb[Peer(e)], tcb[e]))
        /\ tcb[Peer(e)].state = "listen" /\ e = Opener => rest = <<>>
        /\ tcb[Opener].state = "listen" => rest = <<>>
        /\ tcb[e].state = "listen" => \A j \in 1..Len(rest) : rest[j].ctrl
    BY <1>4, Pending
  <2> QED
    BY ONLY both \in BOOLEAN, TcpInv(both), NoWrap, e \in Ends, <1>3, <2>1, <2>2, NetSound
<1> QED
  BY <1>5, <1>6

\* How much Send writes.
Share(s, m, w) == Smaller(Chunk, Smaller(SndSpace(s), m - w))

\* It is within the buffer, and nothing only when the buffer is full.
LEMMA ShareFacts ==
  ASSUME NEW s \in Tcb, SndOK(s), NEW m \in Nat, NEW w \in Nat, w < m
  PROVE  /\ Share(s, m, w) \in Nat /\ Share(s, m, w) <= SndSpace(s) /\ w + Share(s, m, w) <= m
         /\ Share(s, m, w) = 0 => Len(s.sbuf) >= Smaller(SndBuf, (SndBuf + RcvBuf) \div 2)
<1>1. PICK len \in Nat, cap \in Nat, chunk \in Nat \ {0}, rcv \in Nat : len = Len(s.sbuf) /\ cap = SndBuf /\ chunk = Chunk /\ rcv = RcvBuf
  BY TcbTypes, Consts
<1>2. len <= cap
  BY <1>1 DEF SndOK
<1>3. SndSpace(s) = cap - len
  BY <1>1 DEF SndSpace
<1>4. PICK d \in Nat, a \in Nat : d = m - w /\ d > 0 /\ a = cap - len
  BY <1>2
<1>5. PICK b \in Nat : b = Smaller(a, d) /\ b <= a /\ b <= d /\ (b = 0 => a = 0)
  BY <1>4 DEF Smaller
<1>6. PICK n \in Nat : n = Smaller(chunk, b) /\ n <= b /\ (n = 0 => b = 0)
  BY <1>1, <1>5 DEF Smaller
<1>7. Share(s, m, w) = n
  BY <1>1, <1>3, <1>4, <1>5, <1>6 DEF Share
<1>8. n <= a /\ w + n <= m
  BY <1>4, <1>5, <1>6
<1>9. n = 0 => Len(s.sbuf) >= Smaller(SndBuf, (SndBuf + RcvBuf) \div 2)
  <2>1. PICK h \in Int : h = (cap + rcv) \div 2
    OBVIOUS
  <2>2. Smaller(cap, h) <= cap
    BY <2>1 DEF Smaller
  <2>3. n = 0 => len = cap
    BY <1>2, <1>4, <1>5, <1>6
  <2> QED
    BY <1>1, <2>1, <2>2, <2>3
<1> QED
  BY <1>3, <1>4, <1>7, <1>8, <1>9

\* The application could not write: it waits to be told.
LEMMA BlockedSend ==
  ASSUME NEW both \in BOOLEAN, TcpInv(both), NoWrap, NEW e \in Ends, tcb[e].state = "established",
         Len(tcb[e].sbuf) >= Smaller(SndBuf, (SndBuf + RcvBuf) \div 2),
         tcb' = [tcb EXCEPT ![e].writeEnable = TRUE], toWrite' = [toWrite EXCEPT ![e] = FALSE],
         net' = net, toRead' = toRead, written' = written, got' = got
  PROVE  Sound(both)'
<1>1. PICK o \in BOOLEAN, k \in BOOLEAN, s \in Tcb, r \in Tcb, w \in Nat, c \in Nat, read \in BOOLEAN, write \in BOOLEAN :
        StandsAt(e, both, o, k, s, r, w, c, read, write)
  BY Standing
<1>2. s = tcb[e] /\ o = Opens(e) /\ w = written[e] /\ c = Len(got[e]) /\ read = toRead[e] /\ write = toWrite[e]
  BY <1>1 DEF StandsAt
<1>3. AtRest(s) /\ Phase(o, s, w, c + Len(s.rbuf)) /\ Progress(s, read, write)
  <2>1. Progress(s, read \/ s.readable, write \/ s.writable) /\ AtRest(s)
    BY <1>1 DEF StandsAt, Going
  <2>2. (read \/ s.readable) = read /\ (write \/ s.writable) = write
    BY <2>1 DEF AtRest
  <2>3. Progress(s, read, write)
    BY <2>1, <2>2
  <2> QED
    BY <1>1, <2>1, <2>3 DEF StandsAt
<1>4. PICK u : u = [s EXCEPT !.writeEnable = TRUE]
  OBVIOUS
<1>5. u \in Tcb /\ u.writeEnable
  BY ONLY s \in Tcb, <1>4 DEF Tcb
<1>6. Frame(s, u, {"writeEnable"})
  BY s \in Tcb, <1>4 DEF Frame, Fields, Tcb
<1>7. /\ u.state = s.state /\ u.shutdown = s.shutdown /\ u.nxt = s.nxt /\ u.una = s.una /\ u.sbuf = s.sbuf
      /\ u.rnxt = s.rnxt /\ u.rbuf = s.rbuf /\ u.wnd = s.wnd /\ u.tack = s.tack /\ u.readEnable = s.readEnable
      /\ u.out = s.out /\ u.readable = s.readable /\ u.writable = s.writable
  BY <1>6 DEF Frame, Fields
<1>8. AtRest(u) /\ Frame(s, u, Plain) /\ Progress(u, read, FALSE)
  <2>1. Frame(s, u, Plain)
    BY <1>6 DEF Frame, Plain, Soft
  <2>2. Len(u.sbuf) >= Smaller(SndBuf, (SndBuf + RcvBuf) \div 2)
    BY <1>2, <1>7
  <2> QED
    BY <1>3, <1>5, <1>7, <2>1, <2>2 DEF AtRest, Progress
<1>9. Phase(o, u, w, c + Len(u.rbuf))
  <2>1. Total(u) = Total(s)
    BY <1>7 DEF Total
  <2> QED
    BY <1>2, <1>3, <1>7, <2>1 DEF Phase
<1>10. /\ tcb' = [tcb EXCEPT ![e] = u] /\ net' = net /\ written' = written /\ got' = got
       /\ toRead' = [toRead EXCEPT ![e] = read] /\ toWrite' = [toWrite EXCEPT ![e] = FALSE]
  <2>1. tcb' = [tcb EXCEPT ![e] = u]
    BY <1>2, <1>4
  <2>2. toRead = [x \in Ends |-> toRead[x]]
    BY DEF TcpInv, Shaped
  <2>3. toRead' = [toRead EXCEPT ![e] = read]
    BY <1>2, <2>2
  <2> QED
    BY <2>1, <2>3
<1>11. PICK no \in BOOLEAN : no = FALSE
  OBVIOUS
<1>12. /\ u \in Tcb /\ Frame(tcb[e], u, Plain) /\ u.tack = tcb[e].tack /\ AtRest(u) /\ (tcb[e].shutdown => u.shutdown)
       /\ u.state # "listen" /\ tcb[e].state # "listen"
       /\ Phase(Opens(e), u, written[e], Len(got[e]) + Len(u.rbuf)) /\ Progress(u, read, no)
       /\ tcb' = [tcb EXCEPT ![e] = u] /\ net' = net /\ written' = written /\ got' = got
       /\ toRead' = [toRead EXCEPT ![e] = read] /\ toWrite' = [toWrite EXCEPT ![e] = no]
  BY <1>2, <1>5, <1>7, <1>8, <1>9, <1>10, <1>11
<1> QED
  BY ONLY both \in BOOLEAN, TcpInv(both), NoWrap, e \in Ends, read \in BOOLEAN, no \in BOOLEAN, <1>12, QuietSound

\* Send preserves the invariant, whether or not the application is blocked.
LEMMA SendSound ==
  ASSUME NEW both \in BOOLEAN, TcpInv(both), NoWrap, NEW e \in Ends, Send(e)
  PROVE  Sound(both)'
<1>1. PICK o \in BOOLEAN, k \in BOOLEAN, s \in Tcb, r \in Tcb, w \in Nat, c \in Nat, read \in BOOLEAN, write \in BOOLEAN :
        StandsAt(e, both, o, k, s, r, w, c, read, write)
  BY Standing
<1>2. PICK m \in Nat : m = ToSend[e]
  BY PseudoTcpAssumption
<1>f. PICK f : f = Peer(e)
  OBVIOUS
<1>3. /\ s = tcb[e] /\ r = tcb[f] /\ o = Opens(e) /\ k = Reads(e, both) /\ w = written[e] /\ c = Len(got[e])
      /\ read = toRead[e] /\ write = toWrite[e]
      /\ Fine(o, s, r) /\ AtRest(s) /\ Going(o, s, w, c, k, read, write)
  BY <1>1, <1>f DEF StandsAt
<1>4. PICK n : n = Share(s, m, w)
  OBVIOUS
<1>5. write /\ s.state = "established" /\ w < m /\ got' = got
  BY <1>2, <1>3 DEF Send
<1>6. /\ n \in Nat /\ n <= SndSpace(s) /\ w + n <= m
      /\ n = 0 => Len(s.sbuf) >= Smaller(SndBuf, (SndBuf + RcvBuf) \div 2)
  <2>1. SndOK(s)
    BY <1>3 DEF Fine, Half
  <2> QED
    BY <1>4, <1>5, <2>1, ShareFacts
<1>7. IF n = 0
      THEN tcb' = [tcb EXCEPT ![e].writeEnable = TRUE] /\ toWrite' = [toWrite EXCEPT ![e] = FALSE]
           /\ net' = net /\ toRead' = toRead /\ written' = written
      ELSE /\ \E idle \in Idles(e) : Becomes(e, Sending(s, w, n, idle), net[e])
           /\ written' = [written EXCEPT ![e] = @ + n]
  BY <1>2, <1>3, <1>4 DEF Send, Share, Sending
<1>8. CASE n = 0
  BY <1>3, <1>5, <1>6, <1>7, <1>8, BlockedSend
<1>9. CASE n # 0
  <2>1. PICK idle \in BOOLEAN : Becomes(e, Sending(s, w, n, idle), net[e])
    BY <1>7, <1>9 DEF Idles
  <2>2. PICK t : t = Sending(s, w, n, idle)
    OBVIOUS
  <2>3. Goes(o, s, r, t, w + n, c, k, read, write) /\ (Acks(t) => Acks(s))
    <3>1. PICK x \in Nat : x = SeqRange /\ m + 1 < x
      <4>1. m + 1 < SeqRange
        BY <1>2 DEF NoWrap
      <4> QED
        BY <4>1, Consts
    <3>2. Room(s, w, n)
      BY <1>6, <1>9, <3>1 DEF Room
    <3>3. Holds(write)
      BY <1>5 DEF Holds
    <3>4. Fine(o, s, r) /\ s.state = "established" /\ Going(o, s, w, c, k, read, write)
      BY <1>3, <1>5
    <3>5. Queued(o, s, r, t, w, n, c, k, read, write)
      BY ONLY o \in BOOLEAN, w \in Nat, c \in Nat, k \in BOOLEAN, read \in BOOLEAN, write \in BOOLEAN, idle \in BOOLEAN,
              <1>6, <2>2, <3>2, <3>3, <3>4, SendingGoes
    <3> QED
      BY <3>5 DEF Queued
  <2>4. PICK v, g, rest : v = w + n /\ g = got[e] /\ rest = net[e]
    OBVIOUS
  <2>5. /\ Whole(Opens(e), ToSend[e], Reads(e, both), tcb[e], tcb[f], net[f], written[e], got[e],
               toRead[e], toWrite[e])
        /\ net[e] \in Seq(FromTo(Opens(f), tcb[f], tcb[e]))
    BY <1>f, EndFacts
  <2>6. v \in 0..ToSend[e] /\ g \in Seq(Int) /\ (Reads(e, both) => \A j \in 1..Len(g) : g[j] = j)
    <3>1. v \in 0..m
      BY <1>6, <2>4
    <3> QED
      BY <1>2, <2>4, <2>5, <3>1 DEF Whole, Content
  <2>7. written' = [written EXCEPT ![e] = v] /\ got' = [got EXCEPT ![e] = g]
    <3>1. written = [x \in Ends |-> written[x]] /\ got = [x \in Ends |-> got[x]]
      BY DEF TcpInv, Shaped
    <3>2. written' = [written EXCEPT ![e] = written[e] + n]
      BY <1>7, <1>9
    <3> QED
      BY <1>3, <1>5, <2>4, <3>1, <3>2
  <2>8. Goes(Opens(e), tcb[e], tcb[f], t, v, Len(g), Reads(e, both), toRead[e], toWrite[e])
    BY <1>3, <2>3, <2>4
  <2>9. rest \in Seq(FromTo(Opens(f), tcb[f], tcb[e])) /\ Becomes(e, t, rest)
    BY <2>1, <2>2, <2>4, <2>5
  <2>10. ~ (e = Opener /\ tcb[f].state = "listen")
    <3>1. SUFFICES ASSUME e = Opener, tcb[f].state = "listen" PROVE FALSE
      OBVIOUS
    <3>2. s.rnxt >= 1
      BY <1>3, <1>5 DEF Going, Phase
    <3>3. f \in Ends /\ r.nxt = 0
      <4>1. f \in Ends /\ EndInv(f, both)
        BY <1>f, EndFacts DEF TcpInv
      <4> QED
        BY <1>3, <3>1, <4>1 DEF EndInv, Whole, Phase, Initial
    <3>4. s.rnxt \in Points(r) /\ Half(r)
      BY <1>3 DEF Fine, Peered
    <3>5. s.rnxt \in Nat /\ s.rnxt <= r.nxt
      BY <3>4, PointsFacts
    <3> QED
      BY <3>2, <3>3, <3>5
  <2>11. /\ f = Peer(e) /\ (tcb[e].state = "listen" => tcb[Opener].state # "listen" \/ e = Opener)
         /\ (e = Opener /\ tcb[f].state = "listen" => rest = <<>> /\ ~ Acks(t) /\ t.wnd = 1)
    BY <1>f, <1>3, <1>5, <2>10
  <2> QED
    BY ONLY both \in BOOLEAN, TcpInv(both), NoWrap, e \in Ends, <2>6, <2>7, <2>8, <2>9, <2>11, BecomesSound
<1> QED
  BY <1>8, <1>9

\* An end that is established has heard of the other one.
LEMMA Heeded ==
  ASSUME NEW both \in BOOLEAN, TcpInv(both), NoWrap, NEW e \in Ends, tcb[e].state = "established"
  PROVE  tcb[Peer(e)].state # "listen"
<1>1. SUFFICES ASSUME tcb[Peer(e)].state = "listen" PROVE FALSE
  OBVIOUS
<1>2. PICK o \in BOOLEAN, k \in BOOLEAN, s \in Tcb, r \in Tcb, w \in Nat, c \in Nat, read \in BOOLEAN, write \in BOOLEAN :
        StandsAt(e, both, o, k, s, r, w, c, read, write)
  BY Standing
<1>3. s.state = "established" /\ Fine(o, s, r) /\ Phase(o, s, w, c + Len(s.rbuf)) /\ r = tcb[Peer(e)]
  BY <1>2 DEF StandsAt
<1>4. s.rnxt >= 1
  BY <1>3 DEF Phase
<1>5. r.nxt = 0
  <2>1. Peer(e) \in Ends
    BY PeerFacts
  <2>2. EndInv(Peer(e), both)
    BY <2>1 DEF TcpInv
  <2> QED
    BY <1>1, <1>3, <2>2 DEF EndInv, Whole, Phase, Initial
<1>6. s.rnxt \in Points(r) /\ Half(r)
  BY <1>3 DEF Fine, Peered
<1>7. s.rnxt \in Nat /\ s.rnxt <= r.nxt
  BY <1>6, PointsFacts
<1> QED
  BY <1>4, <1>5, <1>7

\* The application could not read: it waits to be told.
LEMMA BlockedRecv ==
  ASSUME NEW both \in BOOLEAN, TcpInv(both), NoWrap, NEW e \in Ends, tcb[e].state = "established", tcb[e].rbuf = <<>>,
         tcb' = [tcb EXCEPT ![e].readEnable = TRUE], toRead' = [toRead EXCEPT ![e] = FALSE],
         net' = net, toWrite' = toWrite, written' = written, got' = got
  PROVE  Sound(both)'
<1>1. PICK o \in BOOLEAN, k \in BOOLEAN, s \in Tcb, r \in Tcb, w \in Nat, c \in Nat, read \in BOOLEAN, write \in BOOLEAN :
        StandsAt(e, both, o, k, s, r, w, c, read, write)
  BY Standing
<1>2. s = tcb[e] /\ o = Opens(e) /\ w = written[e] /\ c = Len(got[e]) /\ read = toRead[e] /\ write = toWrite[e]
  BY <1>1 DEF StandsAt
<1>3. AtRest(s) /\ Phase(o, s, w, c + Len(s.rbuf)) /\ Progress(s, read, write)
  <2>1. Progress(s, read \/ s.readable, write \/ s.writable) /\ AtRest(s)
    BY <1>1 DEF StandsAt, Going
  <2>2. (read \/ s.readable) = read /\ (write \/ s.writable) = write
    BY <2>1 DEF AtRest
  <2>3. Progress(s, read, write)
    BY <2>1, <2>2
  <2> QED
    BY <1>1, <2>1, <2>3 DEF StandsAt
<1>4. PICK u : u = [s EXCEPT !.readEnable = TRUE]
  OBVIOUS
<1>5. u \in Tcb /\ u.readEnable
  BY ONLY s \in Tcb, <1>4 DEF Tcb
<1>6. Frame(s, u, {"readEnable"})
  BY s \in Tcb, <1>4 DEF Frame, Fields, Tcb
<1>7. /\ u.state = s.state /\ u.shutdown = s.shutdown /\ u.nxt = s.nxt /\ u.una = s.una /\ u.sbuf = s.sbuf
      /\ u.rnxt = s.rnxt /\ u.rbuf = s.rbuf /\ u.wnd = s.wnd /\ u.tack = s.tack /\ u.writeEnable = s.writeEnable
      /\ u.out = s.out /\ u.readable = s.readable /\ u.writable = s.writable
  BY <1>6 DEF Frame, Fields
<1>8. AtRest(u) /\ Frame(s, u, Plain) /\ Progress(u, FALSE, write)
  <2>1. Frame(s, u, Plain)
    BY <1>6 DEF Frame, Plain, Soft
  <2> QED
    BY <1>2, <1>3, <1>5, <1>7, <2>1 DEF AtRest, Progress
<1>9. Phase(o, u, w, c + Len(u.rbuf))
  <2>1. Total(u) = Total(s)
    BY <1>7 DEF Total
  <2> QED
    BY <1>2, <1>3, <1>7, <2>1 DEF Phase
<1>10. /\ tcb' = [tcb EXCEPT ![e] = u] /\ net' = net /\ written' = written /\ got' = got
       /\ toRead' = [toRead EXCEPT ![e] = FALSE] /\ toWrite' = [toWrite EXCEPT ![e] = write]
  <2>1. tcb' = [tcb EXCEPT ![e] = u]
    BY <1>2, <1>4
  <2>2. toWrite = [x \in Ends |-> toWrite[x]]
    BY DEF TcpInv, Shaped
  <2>3. toWrite' = [toWrite EXCEPT ![e] = write]
    BY <1>2, <2>2
  <2> QED
    BY <2>1, <2>3
<1>11. PICK no \in BOOLEAN : no = FALSE
  OBVIOUS
<1>12. /\ u \in Tcb /\ Frame(tcb[e], u, Plain) /\ u.tack = tcb[e].tack /\ AtRest(u) /\ (tcb[e].shutdown => u.shutdown)
       /\ u.state # "listen" /\ tcb[e].state # "listen"
       /\ Phase(Opens(e), u, written[e], Len(got[e]) + Len(u.rbuf)) /\ Progress(u, no, write)
       /\ tcb' = [tcb EXCEPT ![e] = u] /\ net' = net /\ written' = written /\ got' = got
       /\ toRead' = [toRead EXCEPT ![e] = no] /\ toWrite' = [toWrite EXCEPT ![e] = write]
  BY <1>2, <1>5, <1>7, <1>8, <1>9, <1>10, <1>11
<1> QED
  BY ONLY both \in BOOLEAN, TcpInv(both), NoWrap, e \in Ends, write \in BOOLEAN, no \in BOOLEAN, <1>12, QuietSound

\* What has been read, when the first n of b follow what g has.
GoesOn(k, g, b) == k => (\A i \in 1..Len(g) : g[i] = i) /\ (\A i \in 1..Len(b) : b[i] = Len(g) + i)

\* What has been read, when n units more have been.
Extended(k, g, h, n) ==
  h \in Seq(Int) /\ Len(h) = Len(g) + n /\ (k => \A i \in 1..Len(h) : h[i] = i)

\* It is the beginning of the stream if m_rbuf is what follows.
LEMMA ReadOn ==
  ASSUME NEW g \in Seq(Int), NEW b \in Seq(Int), NEW n \in Nat, n <= Len(b), NEW k,
         GoesOn(k, g, b), NEW h
  PROVE  h = g \o SubSeq(b, 1, n) => Extended(k, g, h, n)
<1>a. SUFFICES ASSUME h = g \o SubSeq(b, 1, n)
      PROVE  Extended(k, g, h, n)
  OBVIOUS
<1>1. PICK c \in Nat, m \in Nat : c = Len(g) /\ m = Len(b)
  BY LenProperties
<1>2. PICK x : x = SubSeq(b, 1, n)
  OBVIOUS
<1>3. x \in Seq(Int) /\ Len(x) = n /\ \A i \in 1..n : x[i] = b[i]
  <2>1. \A i \in 1..n : b[i] \in Int
    BY <1>1, ElementOfSeq
  <2>2. SubSeq(b, 1, n) \in Seq(Int) /\ Len(SubSeq(b, 1, n)) = (IF 1 <= n THEN n - 1 + 1 ELSE 0)
        /\ \A i \in 1..n - 1 + 1 : SubSeq(b, 1, n)[i] = b[1 + i - 1]
    BY <2>1, SubSeqProperties
  <2> QED
    BY <1>2, <2>2
<1>4. /\ h \in Seq(Int) /\ Len(h) = c + n
      /\ \A i \in 1..c + n : h[i] = IF i <= c THEN g[i] ELSE x[i - c]
  <2>1. h = g \o x
    BY <1>a, <1>2
  <2>2. /\ g \o x \in Seq(Int) /\ Len(g \o x) = Len(g) + Len(x)
        /\ \A i \in 1..Len(g) + Len(x) : (g \o x)[i] = IF i <= Len(g) THEN g[i] ELSE x[i - Len(g)]
    BY ONLY g \in Seq(Int), <1>3, ConcatProperties
  <2> QED
    BY ONLY <1>1, <1>3, <2>1, <2>2
<1>5. ASSUME k, NEW i \in 1..c + n PROVE h[i] = i
  <2>1. CASE i <= c
    BY <1>1, <1>4, <1>5, <2>1 DEF GoesOn
  <2>2. CASE ~ (i <= c)
    <3>1. i - c \in 1..n /\ i - c \in 1..m
      BY <1>1, <1>5, <2>2
    <3>2. h[i] = b[i - c]
      BY <1>3, <1>4, <1>5, <2>2, <3>1
    <3>3. b[i - c] = c + (i - c)
      BY <1>1, <1>5, <3>1 DEF GoesOn
    <3> QED
      BY <1>5, <3>2, <3>3
  <2> QED
    BY <2>1, <2>2
<1> QED
  BY <1>1, <1>4, <1>5 DEF Extended

\* Recv preserves the invariant, whether or not the application is blocked.
LEMMA RecvSound ==
  ASSUME NEW both \in BOOLEAN, TcpInv(both), NoWrap, NEW e \in Ends, Recv(e)
  PROVE  Sound(both)'
<1>1. PICK o \in BOOLEAN, k \in BOOLEAN, s \in Tcb, r \in Tcb, w \in Nat, c \in Nat, read \in BOOLEAN, write \in BOOLEAN :
        StandsAt(e, both, o, k, s, r, w, c, read, write)
  BY Standing
<1>f. PICK f : f = Peer(e)
  OBVIOUS
<1>3. /\ s = tcb[e] /\ r = tcb[f] /\ o = Opens(e) /\ k = Reads(e, both) /\ w = written[e] /\ c = Len(got[e])
      /\ read = toRead[e] /\ write = toWrite[e]
      /\ Fine(o, s, r) /\ AtRest(s) /\ Going(o, s, w, c, k, read, write)
  BY <1>1, <1>f DEF StandsAt
<1>4. PICK n : n = Smaller(Chunk, Len(s.rbuf))
  OBVIOUS
<1>5. s.state = "established" /\ written' = written
  BY <1>3 DEF Recv
<1>6. n \in Nat /\ n <= Len(s.rbuf) /\ (n = 0 => s.rbuf = <<>>)
  <2>1. PICK len \in Nat, chunk \in Nat \ {0} : len = Len(s.rbuf) /\ chunk = Chunk
    BY TcbTypes, Consts
  <2>2. n \in Nat /\ n <= len /\ (n = 0 => len = 0)
    BY <1>4, <2>1 DEF Smaller
  <2>3. s.rbuf \in Seq(Int)
    BY TcbTypes
  <2> QED
    BY <2>1, <2>2, <2>3, EmptySeq
<1>7. IF n = 0
      THEN tcb' = [tcb EXCEPT ![e].readEnable = TRUE] /\ toRead' = [toRead EXCEPT ![e] = FALSE]
           /\ net' = net /\ toWrite' = toWrite /\ got' = got
      ELSE /\ \E idle \in Idles(e) : Becomes(e, Read(s, n, idle), net[e])
           /\ got' = [got EXCEPT ![e] = @ \o SubSeq(s.rbuf, 1, n)]
  BY <1>3, <1>4 DEF Recv
<1>8. CASE n = 0
  BY <1>3, <1>5, <1>6, <1>7, <1>8, BlockedRecv
<1>9. CASE n # 0
  <2>1. PICK idle \in BOOLEAN : Becomes(e, Read(s, n, idle), net[e])
    BY <1>7, <1>9 DEF Idles
  <2>2. PICK t : t = Read(s, n, idle)
    OBVIOUS
  <2>3. Goes(o, s, r, t, w, c + n, k, read, write)
    <3>1. n \in Nat /\ n > 0 /\ n <= Len(s.rbuf)
      BY <1>6, <1>9
    <3>2. Taken(o, s, r, t, w, c, n, k, read, write)
      BY ONLY o \in BOOLEAN, w \in Nat, c \in Nat, k \in BOOLEAN, read \in BOOLEAN, write \in BOOLEAN,
              idle \in BOOLEAN, <1>3, <1>5, <2>2, <3>1, ReadOutFine, SMTT(30)
    <3> QED
      BY <3>2 DEF Goes, Taken
  <2>5. /\ Whole(Opens(e), ToSend[e], Reads(e, both), tcb[e], tcb[f], net[f], written[e], got[e],
               toRead[e], toWrite[e])
        /\ net[e] \in Seq(FromTo(Opens(f), tcb[f], tcb[e]))
    BY <1>f, EndFacts
  <2>4. PICK g, h, b, rest : g = got[e] /\ h = g \o SubSeq(b, 1, n) /\ b = s.rbuf /\ rest = net[e]
    OBVIOUS
  <2>6. w \in 0..ToSend[e] /\ g \in Seq(Int) /\ (k => \A j \in 1..Len(g) : g[j] = j)
    BY <1>3, <2>4, <2>5 DEF Whole, Content
  <2>7. h \in Seq(Int) /\ Len(h) = c + n /\ (k => \A j \in 1..Len(h) : h[j] = j)
    <3>1. b \in Seq(Int) /\ n <= Len(b)
      BY <1>6, <2>4, TcbTypes
    <3>2. GoesOn(k, g, b)
      BY <1>3, <2>4, <2>6 DEF Going, Told, Stream, GoesOn
    <3>3. Extended(k, g, h, n)
      BY ONLY <1>6, <2>4, <2>6, <3>1, <3>2, ReadOn
    <3> QED
      BY <1>3, <2>4, <3>3 DEF Extended
  <2>8. written' = [written EXCEPT ![e] = w] /\ got' = [got EXCEPT ![e] = h]
    <3>1. written = [x \in Ends |-> written[x]] /\ got = [x \in Ends |-> got[x]]
      BY DEF TcpInv, Shaped
    <3>2. got' = [got EXCEPT ![e] = got[e] \o SubSeq(s.rbuf, 1, n)]
      BY <1>7, <1>9
    <3> QED
      BY <1>3, <1>5, <2>4, <3>1, <3>2
  <2>9. Goes(Opens(e), tcb[e], tcb[f], t, w, Len(h), Reads(e, both), toRead[e], toWrite[e])
    BY <1>3, <2>3, <2>7
  <2>10. rest \in Seq(FromTo(Opens(f), tcb[f], tcb[e])) /\ Becomes(e, t, rest)
    BY <2>1, <2>2, <2>4, <2>5
  <2>11. /\ f = Peer(e) /\ (tcb[e].state = "listen" => tcb[Opener].state # "listen" \/ e = Opener)
         /\ (e = Opener /\ tcb[f].state = "listen" => rest = <<>> /\ ~ Acks(t) /\ t.wnd = 1)
    BY <1>f, <1>3, <1>5, Heeded
  <2>12. Reads(e, both) => \A j \in 1..Len(h) : h[j] = j
    BY <1>3, <2>7
  <2> QED
    BY ONLY both \in BOOLEAN, TcpInv(both), NoWrap, e \in Ends, <2>6, <2>7, <2>8, <2>9, <2>10, <2>11, <2>12, BecomesSound
<1> QED
  BY <1>8, <1>9

\* PACKET_MAXIMUMS descends.
LEMMA LevelsDescend ==
  ASSUME NEW i \in 1..Len(Levels)
  PROVE  Levels[i] <= Levels[1]
<1>1. Len(Levels) \in Nat \ {0} /\ \A j \in 1..Len(Levels) : Levels[j] \in Nat
  BY Consts
<1>2. \A j \in 1..Len(Levels) - 1 : Levels[j] > Levels[j + 1]
  BY PseudoTcpAssumption
<1> DEFINE T == {j \in 1..Len(Levels) : Levels[j] > Levels[1]}
<1>3. T = {}
  <2> SUFFICES ASSUME T # {} PROVE FALSE
    OBVIOUS
  <2>1. T \subseteq Nat
    OBVIOUS
  <2>2. PICK x \in T : \A y \in T : x <= y
    BY <2>1, Least
  <2>3. x \in 1..Len(Levels) /\ Levels[x] > Levels[1]
    OBVIOUS
  <2>4. x # 1
    BY <1>1, <2>3
  <2>5. x - 1 \in 1..Len(Levels) - 1 /\ x - 1 \in 1..Len(Levels) /\ (x - 1) + 1 = x
    BY <1>1, <2>3, <2>4
  <2>6. Levels[x - 1] > Levels[x]
    BY <1>2, <2>5
  <2>7. ~ (x - 1 \in T)
    BY <2>2, <2>3
  <2>8. ~ (Levels[x - 1] > Levels[1])
    BY <2>5, <2>7
  <2> QED
    BY <1>1, <2>3, <2>5, <2>6, <2>8
<1> QED
  BY <1>1, <1>3

\* A new end agrees with another.
LEMMA NewTcbFine ==
  ASSUME NEW o \in BOOLEAN, NEW s
  PROVE  s = NewTcb => Fine(o, s, s)
<1>a. SUFFICES ASSUME s = NewTcb PROVE Fine(o, s, s)
  OBVIOUS
<1>1. PICK mss \in Nat \ {0}, top \in Nat, rcv \in Nat \ {0} :
        mss = Levels[Len(Levels)] /\ top = Levels[1] /\ rcv = RcvBuf /\ mss <= top /\ mss <= PathMss
  BY Consts, LevelsDescend
<1>2. PICK cw \in Nat \ {0} : cw = 2 * mss /\ cw <= MaxCwnd
  <2>1. 2 * mss \in Nat \ {0}
    OBVIOUS
  <2>2. 2 * mss <= 2 * rcv + 3 * top
    BY <1>1
  <2> QED
    BY <1>1, <2>1, <2>2 DEF MaxCwnd
<1>3. <<>> \in Seq(SegType) /\ <<>> \in Seq(Nat) /\ <<>> \in Seq(RangeType) /\ <<>> \in Seq(Int) /\ <<>> \in Seq(Packet)
      /\ Len(<<>>) = 0
  BY EmptySeq
<1>4. /\ s.state = "listen" /\ s.slist = <<>> /\ s.sbuf = <<>> /\ s.una = 0 /\ s.nxt = 0 /\ s.wnd = 1
      /\ s.rto = FALSE /\ s.cwnd = cw /\ s.recover = 0 /\ s.mss = mss /\ s.level = 1
      /\ s.rnxt = 0 /\ s.rwnd = rcv /\ s.rlist = <<>> /\ s.rbuf = <<>> /\ s.stash = <<>> /\ s.out = <<>>
  BY <1>a, <1>1, <1>2 DEF NewTcb
<1>5. s \in Tcb
  <2>1. PICK sl \in Seq(SegType), sb \in Seq(Nat), rl \in Seq(RangeType), rb \in Seq(Int), ou \in Seq(Packet) :
          sl = <<>> /\ sb = <<>> /\ rl = <<>> /\ rb = <<>> /\ ou = <<>>
    BY <1>3
  <2>2. s = [state |-> "listen", shutdown |-> FALSE,
             slist |-> sl, sbuf |-> sb,
             una |-> 0, nxt |-> 0, wnd |-> 1, scaled |-> FALSE,
             rto |-> FALSE, probes |-> 0,
             cwnd |-> cw, ssthresh |-> rcv, dups |-> 0, recover |-> 0,
             mss |-> mss, level |-> 1,
             rnxt |-> 0, rwnd |-> rcv, rlist |-> rl, rbuf |-> rb, stash |-> rb,
             tack |-> FALSE, lastack |-> 0, readEnable |-> TRUE, writeEnable |-> FALSE,
             out |-> ou, readable |-> FALSE, writable |-> FALSE]
    BY <1>a, <1>1, <1>2, <2>1 DEF NewTcb
  <2>3. "listen" \in States
    BY DEF States
  <2> QED
    BY ONLY sl \in Seq(SegType), sb \in Seq(Nat), rl \in Seq(RangeType), rb \in Seq(Int), ou \in Seq(Packet),
            mss \in Nat \ {0}, rcv \in Nat \ {0}, cw \in Nat \ {0}, <2>2, <2>3 DEF Tcb
<1>6. Total(s) = 0 /\ Edge(s) = rcv
  BY <1>1, <1>3, <1>4 DEF Total, Edge
<1>7. SegsOK(s.slist, 0, 0, 0)
  <2>1. PICK l : l = s.slist
    OBVIOUS
  <2>2. l \in Seq(SegType) /\ Len(l) = 0
    BY <1>3, <1>4, <2>1
  <2>3. At(l, 0, 1) = 0
    BY <2>2 DEF At
  <2>4. SentTo(l, 0, 0, 0)
    BY <2>2, <2>3 DEF SentTo
  <2>5. SegsOK(l, 0, 0, 0)
    BY <2>2, <2>3, <2>4 DEF SegsOK
  <2> QED
    BY <2>1, <2>5
<1>8. Half(s)
  <2>1. SndOK(s)
    BY <1>3, <1>4, <1>6, <1>7, Consts DEF SndOK
  <2>2. CcOK(s)
    <3>1. \E i \in 1..Len(Levels) : s.mss = Levels[i]
      BY <1>1, <1>4, Consts
    <3>2. ~ (s.mss > PathMss)
      BY <1>1, <1>4, Consts
    <3> QED
      BY <1>2, <1>4, <3>1, <3>2, Consts DEF CcOK
  <2>3. RcvOK(s)
    BY <1>1, <1>3, <1>4 DEF RcvOK
  <2> QED
    BY <1>5, <2>1, <2>2, <2>3 DEF Half
<1>9. 0 \in Points(s)
  BY <1>4 DEF Points, Pts
<1>10. Peered(s, s)
  <2>1. Len(s.rlist) = 0
    BY <1>3, <1>4
  <2>2. \A i \in 1..Len(s.rlist) : s.rlist[i].seq + s.rlist[i].len \in Points(s)
    BY <2>1
  <2> QED
    BY <1>1, <1>4, <1>6, <1>9, <2>2 DEF Peered
<1>11. s.out \in Seq(FromTo(o, s, s))
  BY <1>4, EmptySeq
<1> QED
  BY <1>4, <1>8, <1>10, <1>11 DEF Fine

\* The invariant holds initially.
LEMMA InitSound ==
  ASSUME NEW both \in BOOLEAN, Init
  PROVE  TcpInv(both)
<1>1. PICK s : s = NewTcb
  OBVIOUS
<1>2. /\ tcb = [x \in Ends |-> s] /\ net = [x \in Ends |-> <<>>] /\ written = [x \in Ends |-> 0]
      /\ got = [x \in Ends |-> <<>>] /\ toRead = [x \in Ends |-> FALSE] /\ toWrite = [x \in Ends |-> FALSE]
      /\ faults = 0
  BY <1>1 DEF Init
<1>3. Shaped
  <2>1. tcb = [x \in Ends |-> tcb[x]] /\ net = [x \in Ends |-> net[x]]
    BY <1>2
  <2>2. written = [x \in Ends |-> written[x]] /\ got = [x \in Ends |-> got[x]]
    BY <1>2
  <2>3. toRead = [x \in Ends |-> toRead[x]] /\ toWrite = [x \in Ends |-> toWrite[x]]
    BY <1>2
  <2> QED
    BY <2>1, <2>2, <2>3 DEF Shaped
<1>4. /\ s.state = "listen" /\ s.sbuf = <<>> /\ s.una = 0 /\ s.nxt = 0 /\ s.wnd = 1 /\ s.rnxt = 0
      /\ s.rlist = <<>> /\ s.rbuf = <<>> /\ s.out = <<>> /\ ~ s.tack /\ ~ s.shutdown /\ s.dups = 0
      /\ s.readEnable /\ ~ s.readable /\ ~ s.writable
  BY <1>1 DEF NewTcb
<1>5. ASSUME NEW e \in Ends PROVE EndInv(e, both)
  <2>1. /\ tcb[e] = s /\ tcb[Peer(e)] = s /\ net[Peer(e)] = <<>> /\ written[e] = 0 /\ got[e] = <<>>
        /\ toRead[e] = FALSE /\ toWrite[e] = FALSE
    BY <1>2, PeerFacts
  <2>2. PICK o \in BOOLEAN, m \in Nat, k \in BOOLEAN : o = Opens(e) /\ m = ToSend[e] /\ k = Reads(e, both)
    BY PseudoTcpAssumption DEF Opens, Reads
  <2>3. Fine(o, s, s)
    BY <1>1, NewTcbFine
  <2>4. PICK g : g = <<>>
    OBVIOUS
  <2>5. g \in Seq(Int) /\ g \in Seq(FromTo(o, s, s)) /\ Len(g) = 0
    BY <2>4, EmptySeq
  <2>6. Phase(o, s, 0, Len(g) + Len(s.rbuf))
    <3>1. Total(s) = 0 /\ Len(s.rbuf) = 0
      BY <1>4, EmptySeq DEF Total
    <3> QED
      BY <1>4, <2>5, <3>1 DEF Phase, Initial
  <2>7. Progress(s, FALSE, FALSE) /\ AtRest(s)
    BY <1>4 DEF Progress, AtRest
  <2>8. Content(s, g)
    <3>1. Len(s.rbuf) = 0 /\ Len(s.rlist) = 0
      BY <1>4, EmptySeq
    <3> QED
      BY <2>5, <3>1 DEF Content, Stream, Kept
  <2>9. Whole(o, m, k, s, s, g, 0, g, FALSE, FALSE)
    <3>1. 0 \in 0..m /\ FALSE \in BOOLEAN
      OBVIOUS
    <3>2. PICK w, no : w = 0 /\ no = FALSE
      OBVIOUS
    <3>3. /\ Fine(o, s, s) /\ AtRest(s) /\ g \in Seq(FromTo(o, s, s)) /\ w \in 0..m /\ g \in Seq(Int)
          /\ no \in BOOLEAN /\ Phase(o, s, w, Len(g) + Len(s.rbuf)) /\ Progress(s, no, no) /\ Content(s, g)
      BY <2>3, <2>5, <2>6, <2>7, <2>8, <3>1, <3>2
    <3>4. Whole(o, m, k, s, s, g, w, g, no, no)
      BY <3>3 DEF Whole
    <3> QED
      BY <3>2, <3>4
  <2>10. Whole(Opens(e), ToSend[e], Reads(e, both), tcb[e], tcb[Peer(e)], net[Peer(e)], written[e], got[e], toRead[e], toWrite[e])
    BY <2>1, <2>2, <2>4, <2>9
  <2> QED
    BY <2>10 DEF EndInv
<1>6. Handshake
  <2>1. Opener \in Ends /\ Peer(Opener) \in Ends
    BY PseudoTcpAssumption, PeerFacts
  <2>2. tcb[Opener] = s /\ net[Opener] = <<>> /\ net[Peer(Opener)] = <<>> /\ \A e \in Ends : net[e] = <<>> /\ tcb[e] = s
    BY <1>2, <2>1
  <2>3. Len(net[Peer(Opener)]) = 0
    BY <2>2, EmptySeq
  <2>4. \A i \in 1..Len(net[Peer(Opener)]) : net[Peer(Opener)][i].ctrl
    BY <2>3
  <2> QED
    BY <1>4, <2>2, <2>4 DEF Handshake
<1>7. faults \in 0..MaxFaults
  BY <1>2, PseudoTcpAssumption
<1> QED
  BY <1>3, <1>5, <1>6, <1>7 DEF TcpInv

\* The network goes wrong no more often than its bound says.
LEMMA FaultsBounded ==
  ASSUME faults \in 0..MaxFaults, UNCHANGED faults \/ GoesWrong
  PROVE  faults' \in 0..MaxFaults
<1>1. MaxFaults \in Nat
  BY PseudoTcpAssumption
<1> QED
  BY <1>1 DEF GoesWrong

\* Every step preserves it.
LEMMA NextSound ==
  ASSUME NEW both \in BOOLEAN, TcpInv(both), NoWrap, both => ConnectFirst, [Next]_vars
  PROVE  TcpInv(both)'
<1>1. CASE UNCHANGED vars
  <2>1. Shaped' /\ Handshake' /\ faults' \in 0..MaxFaults
    BY <1>1 DEF TcpInv, vars, Shaped, Handshake, Peer
  <2>2. ASSUME NEW x \in Ends PROVE EndInv(x, both)'
    BY <1>1 DEF TcpInv, vars, EndInv, Opens, Reads, Peer
  <2> QED
    BY <2>1, <2>2 DEF TcpInv
<1>2. CASE Next
  <2>1. Sound(both)' /\ (UNCHANGED faults \/ GoesWrong)
    <3>1. CASE Connect
      BY <3>1, ConnectSound DEF Connect
    <3>2. ASSUME NEW e \in Ends, Receive(e) PROVE Sound(both)' /\ (UNCHANGED faults \/ GoesWrong)
      BY <3>2, ReceiveSound DEF Receive
    <3>3. ASSUME NEW e \in Ends, Send(e) PROVE Sound(both)' /\ (UNCHANGED faults \/ GoesWrong)
      BY <3>3, SendSound DEF Send
    <3>4. ASSUME NEW e \in Ends, Recv(e) PROVE Sound(both)' /\ (UNCHANGED faults \/ GoesWrong)
      BY <3>4, RecvSound DEF Recv
    <3>5. ASSUME NEW e \in Ends, RetransmitTimer(e) PROVE Sound(both)' /\ (UNCHANGED faults \/ GoesWrong)
      BY <3>5, RetransmitTimerSound DEF RetransmitTimer, MayFire
    <3>6. ASSUME NEW e \in Ends, ProbeTimer(e) PROVE Sound(both)' /\ (UNCHANGED faults \/ GoesWrong)
      BY <3>6, ProbeTimerSound DEF ProbeTimer, MayFire
    <3>7. ASSUME NEW e \in Ends, AckTimer(e) PROVE Sound(both)' /\ (UNCHANGED faults \/ GoesWrong)
      BY <3>7, AckTimerSound DEF AckTimer
    <3>8. ASSUME NEW e \in Ends, Destroy(e) PROVE Sound(both)' /\ (UNCHANGED faults \/ GoesWrong)
      BY <3>8, DestroySound DEF Destroy
    <3>9. ASSUME NEW e \in Ends, Close(e) PROVE Sound(both)' /\ (UNCHANGED faults \/ GoesWrong)
      BY <3>9, CloseSound DEF Close
    <3>10. ASSUME NEW e \in Ends, Lose(e) PROVE Sound(both)' /\ (UNCHANGED faults \/ GoesWrong)
      BY <3>10, LoseSound DEF Lose
    <3> QED
      BY <1>2, <3>1, <3>2, <3>3, <3>4, <3>5, <3>6, <3>7, <3>8, <3>9, <3>10 DEF Next, EndNext
  <2>2. faults' \in 0..MaxFaults
    BY <2>1, FaultsBounded DEF TcpInv
  <2> QED
    BY <2>1, <2>2 DEF TcpInv, Sound
<1> QED
  BY <1>1, <1>2

\* The invariant of the two ends and the network between them: every list of segments covers
\* what has been written and not acknowledged, every packet on its way says something of its
\* sender that is still true, and neither end waits without a reason.
THEOREM TcpInvHolds == ASSUME NoWrap PROVE Spec => []TcpInv(FALSE)
<1>1. Init => TcpInv(FALSE)
  BY InitSound
<1>2. TcpInv(FALSE) /\ [Next]_vars => TcpInv(FALSE)'
  BY NextSound
<1> QED
  BY <1>1, <1>2, PTL DEF Spec

\* Where no connect message comes after data, both ends read in order.
THEOREM BothRead == ASSUME NoWrap PROVE Spec /\ []ConnectFirst => []TcpInv(TRUE)
<1>1. Init => TcpInv(TRUE)
  BY InitSound
<1>2. TcpInv(TRUE) /\ ConnectFirst /\ [Next]_vars => TcpInv(TRUE)'
  BY NextSound
<1> QED
  BY <1>1, <1>2, PTL DEF Spec

-------------------------------------------------------------------------------
\* What follows from the invariant.

\* What the invariant says of an end, as its properties need it.
View(e, o, s, r, w, c) ==
  /\ o = Opens(e) /\ s = tcb[e] /\ r = tcb[Peer(e)] /\ w = written[e] /\ c = Len(got[e]) + Len(s.rbuf)
  /\ Fine(o, s, r) /\ Phase(o, s, w, c) /\ Progress(s, toRead[e], toWrite[e])
  /\ w <= ToSend[e] /\ s.una <= s.nxt /\ s.nxt <= Total(s) /\ Total(s) < SeqRange
  /\ s.una <= r.rnxt /\ s.rnxt <= r.nxt /\ r.nxt <= Edge(s)

\* The invariant gives that of every end.
LEMMA Viewed ==
  ASSUME NEW both \in BOOLEAN, TcpInv(both), NoWrap, NEW e \in Ends
  PROVE  \E o \in BOOLEAN, s \in Tcb, r \in Tcb, w \in Nat, c \in Nat : View(e, o, s, r, w, c)
<1>1. PICK o \in BOOLEAN, k \in BOOLEAN, s \in Tcb, r \in Tcb, w \in Nat, n \in Nat, read \in BOOLEAN, write \in BOOLEAN :
        StandsAt(e, both, o, k, s, r, w, n, read, write)
  BY Standing
<1>2. /\ o = Opens(e) /\ s = tcb[e] /\ r = tcb[Peer(e)] /\ w = written[e] /\ n = Len(got[e])
      /\ read = toRead[e] /\ write = toWrite[e]
      /\ Fine(o, s, r) /\ AtRest(s) /\ Phase(o, s, w, n + Len(s.rbuf)) /\ Progress(s, read \/ s.readable, write \/ s.writable)
  BY <1>1 DEF StandsAt, Going
<1>3. PICK c \in Nat : c = n + Len(s.rbuf)
  <2>1. PICK m \in Nat : m = Len(s.rbuf)
    BY TcbTypes
  <2> QED
    BY <2>1
<1>4. Progress(s, toRead[e], toWrite[e])
  <2>1. (read \/ s.readable) = read /\ (write \/ s.writable) = write
    BY <1>2 DEF AtRest
  <2> QED
    BY <1>2, <2>1
<1>5. w <= ToSend[e]
  <2>1. PICK m \in Nat : m = ToSend[e]
    BY PseudoTcpAssumption
  <2>2. w \in 0..m
    BY <1>2, <2>1 DEF TcpInv, EndInv, Whole
  <2> QED
    BY <2>1, <2>2
<1>6. s.una <= s.nxt /\ s.nxt <= Total(s) /\ Total(s) < SeqRange
  BY <1>2 DEF Fine, Half, SndOK
<1>7. s.una <= r.rnxt /\ s.rnxt <= r.nxt /\ r.nxt <= Edge(s)
  <2>1. s.rnxt \in Points(r) /\ Half(r)
    BY <1>2 DEF Fine, Peered
  <2> QED
    BY <1>2, <2>1, PointsFacts DEF Fine, Peered
<1> QED
  BY <1>2, <1>3, <1>4, <1>5, <1>6, <1>7 DEF View

\* The types follow from the invariant.
LEMMA InvTypeOK ==
  ASSUME NEW both \in BOOLEAN, TcpInv(both), NoWrap
  PROVE  TypeOK
<1>1. ASSUME NEW e \in Ends, NEW s, s = tcb[e]
      PROVE  /\ s.state \in States /\ {s.una, s.nxt, s.rnxt} \subseteq Seqs
             /\ InFlight(s) <= Len(s.sbuf)
             /\ s.rwnd \in 0..RcvBuf /\ Len(s.rbuf) <= RcvBuf
             /\ Len(s.sbuf) <= SndBuf /\ Len(s.stash) <= RcvSpace(s)
             /\ s.cwnd \in 0..MaxCwnd /\ s.mss \in ToSet(Levels)
             /\ {s.rto, s.tack, s.readEnable, s.writeEnable, s.shutdown} \subseteq BOOLEAN
             /\ written[e] \in 0..ToSend[e]
  <2>1. PICK o \in BOOLEAN, r \in Tcb, w \in Nat, c \in Nat : s \in Tcb /\ View(e, o, s, r, w, c)
    <3>1. PICK o \in BOOLEAN, t \in Tcb, r \in Tcb, w \in Nat, c \in Nat : View(e, o, t, r, w, c)
      BY Viewed
    <3>2. t = s
      BY <1>1, <3>1 DEF View
    <3> QED
      BY <3>1, <3>2
  <2>2. Half(s) /\ Half(r)
    BY <2>1 DEF View, Fine
  <2>3. PICK una \in Nat, nxt \in Nat, len \in Nat, range \in Nat, rnxt \in Nat, rn \in Nat, tot \in Nat :
          /\ una = s.una /\ nxt = s.nxt /\ len = Len(s.sbuf) /\ range = SeqRange /\ rnxt = s.rnxt
          /\ rn = r.nxt /\ tot = Total(r)
    BY <2>1, TcbTypes, Consts
  <2>4. una <= nxt /\ nxt <= una + len /\ una + len < range /\ rnxt <= rn /\ rn <= tot /\ tot < range
    <3>1. SndOK(r)
      BY <2>2 DEF Half
    <3> QED
      BY <2>1, <2>3, <3>1 DEF View, Total, SndOK
  <2>5. {s.una, s.nxt, s.rnxt} \subseteq Seqs
    <3>1. una \in 0..range - 1 /\ nxt \in 0..range - 1 /\ rnxt \in 0..range - 1
      BY ONLY una \in Nat, nxt \in Nat, len \in Nat, range \in Nat, rnxt \in Nat, rn \in Nat,
              tot \in Nat, <2>4
    <3> QED
      BY <2>3, <3>1 DEF Seqs
  <2>6. InFlight(s) <= Len(s.sbuf)
    <3>2. nxt < SeqRange /\ una <= nxt
      BY <2>3, <2>4
    <3>1. Minus(nxt, una) = nxt - una
      BY ONLY nxt \in Nat, una \in Nat, <3>2, NoWrapping
    <3> QED
      BY <2>3, <2>4, <3>1 DEF InFlight
  <2>7. PICK rwnd \in Nat, rl \in Nat, st \in Nat, cap \in Nat :
          rwnd = s.rwnd /\ rl = Len(s.rbuf) /\ st = Len(s.stash) /\ cap = RcvBuf
    BY <2>1, TcbTypes, Consts
  <2>8. rwnd + rl <= cap /\ st + rl <= cap
    BY <2>2, <2>7 DEF Half, RcvOK
  <2>9. s.rwnd \in 0..RcvBuf /\ Len(s.rbuf) <= RcvBuf /\ Len(s.stash) <= RcvSpace(s)
    <3>1. rwnd \in 0..cap /\ rl <= cap /\ st <= cap - rl
      BY <2>8
    <3>2. RcvSpace(s) = cap - rl
      BY <2>7 DEF RcvSpace
    <3> QED
      BY <2>7, <3>1, <3>2
  <2>10. Len(s.sbuf) <= SndBuf
    BY <2>2 DEF Half, SndOK
  <2>11. s.cwnd \in 0..MaxCwnd /\ s.mss \in ToSet(Levels)
    <3>1. CcOK(s)
      BY <2>2 DEF Half
    <3>2. s.cwnd \in 0..MaxCwnd
      BY <2>1, <3>1, TcbTypes, Consts DEF CcOK
    <3>3. DOMAIN Levels = 1..Len(Levels)
      BY PseudoTcpAssumption, LenProperties
    <3> QED
      BY <3>1, <3>2, <3>3 DEF CcOK, ToSet
  <2>12. s.state \in States /\ {s.rto, s.tack, s.readEnable, s.writeEnable, s.shutdown} \subseteq BOOLEAN
    BY <2>1 DEF Tcb
  <2>13. written[e] \in 0..ToSend[e]
    <3>1. PICK m \in Nat : m = ToSend[e]
      BY PseudoTcpAssumption
    <3>2. written[e] = w /\ w <= m
      BY <2>1, <3>1 DEF View
    <3> QED
      BY <3>1, <3>2
  <2> QED
    BY <2>5, <2>6, <2>9, <2>10, <2>11, <2>12, <2>13
<1>2. faults \in 0..MaxFaults
  BY DEF TcpInv
<1> QED
  BY <1>1, <1>2 DEF TypeOK

\* So does that m_slist covers m_sbuf.
LEMMA InvSegments ==
  ASSUME NEW both \in BOOLEAN, TcpInv(both), NoWrap
  PROVE  SegmentsMatch
<1>1. ASSUME NEW e \in Ends, NEW s, s = tcb[e], NEW sent, sent = {k \in DOMAIN s.slist : s.slist[k].xmit > 0}
      PROVE  /\ Start(s, 1) = s.una
             /\ \A k \in DOMAIN s.slist : Start(s, k + 1) = Plus(s.slist[k].seq, s.slist[k].len)
             /\ sent = 1..Cardinality(sent) /\ Start(s, Cardinality(sent) + 1) = s.nxt
             /\ s.rto <=> s.una # s.nxt
  <2>1. s \in Tcb /\ SndOK(s)
    <3>1. PICK o \in BOOLEAN, t \in Tcb, r \in Tcb, w \in Nat, c \in Nat : View(e, o, t, r, w, c)
      BY Viewed
    <3> QED
      BY <1>1, <3>1 DEF View, Fine, Half
  <2>2. PICK una \in Nat, nxt \in Nat, tot \in Nat, range \in Nat :
          una = s.una /\ nxt = s.nxt /\ tot = Total(s) /\ range = SeqRange
    BY <2>1, TcbTypes, Consts
  <2>3. PICK l : l = s.slist
    OBVIOUS
  <2>4. /\ l \in Seq(SegType) /\ At(l, tot, 1) = una /\ una <= nxt /\ nxt <= tot /\ tot < range
        /\ \A k \in 1..Len(l) : At(l, tot, k + 1) = l[k].seq + l[k].len
        /\ \E m \in 0..Len(l) : SentTo(l, nxt, tot, m)
    BY <2>1, <2>2, <2>3 DEF SndOK, SegsOK
  <2>5. Len(l) \in Nat /\ DOMAIN l = 1..Len(l) /\ \A k \in 1..Len(l) : l[k] \in SegType
    BY <2>4, LenProperties, ElementOfSeq
  <2>6. PICK m \in 0..Len(l) : SentTo(l, nxt, tot, m)
    BY <2>4
  <2>7. \A k : Start(s, k) = At(l, tot, k)
    <3>1. Plus(s.una, Len(s.sbuf)) = tot
      <4>1. PICK n \in Nat : n = Len(s.sbuf)
        BY <2>1, TcbTypes
      <4>2. tot = una + n /\ una + n < SeqRange
        BY <2>2, <2>4, <4>1 DEF Total
      <4>3. Plus(una, n) = una + n
        BY ONLY una \in Nat, n \in Nat, <4>2, NoWrapping
      <4> QED
        BY <2>2, <4>1, <4>2, <4>3
    <3> QED
      BY <2>3, <3>1 DEF Start, At
  <2>8. sent = 1..m
    BY <1>1, <2>3, <2>5, <2>6 DEF SentTo
  <2>9. Cardinality(sent) = m
    <3>1. Cardinality(1..m) = (IF 1 > m THEN 0 ELSE m - 1 + 1)
      BY <2>5, FS_Interval
    <3> QED
      BY <2>5, <2>8, <3>1
  <2>10. Start(s, m + 1) = s.nxt
    BY <2>2, <2>6, <2>7 DEF SentTo
  <2>11. ASSUME NEW k \in 1..Len(l) PROVE Start(s, k + 1) = Plus(l[k].seq, l[k].len)
    <3>1. PICK a \in Nat, n \in Nat : a = l[k].seq /\ n = l[k].len
      BY <2>5 DEF SegType
    <3>2. At(l, tot, k + 1) = a + n
      BY <2>4, <3>1
    <3>3. a + n <= tot
      <4>1. CASE k + 1 <= Len(l)
        <5>1. SegsOK(l, una, nxt, tot)
          BY <2>1, <2>2, <2>3 DEF SndOK
        <5>2. \A i \in 1..Len(l) + 1 : \A j \in 1..i - 1 : At(l, tot, j) < At(l, tot, i)
          BY ONLY tot \in Nat, <5>1, AtIncreases
        <5>3. Len(l) + 1 \in 1..Len(l) + 1 /\ k + 1 \in 1..(Len(l) + 1) - 1
          BY <2>5, <4>1
        <5>4. At(l, tot, k + 1) < At(l, tot, Len(l) + 1)
          BY <5>2, <5>3
        <5>5. At(l, tot, Len(l) + 1) = tot
          BY <2>5 DEF At
        <5> QED
          BY <3>1, <3>2, <5>4, <5>5
      <4>2. CASE ~ (k + 1 <= Len(l))
        BY <3>2, <4>2 DEF At
      <4> QED
        BY <4>1, <4>2
    <3>4. a + n < SeqRange
      BY <2>2, <2>4, <3>1, <3>3
    <3>5. Plus(a, n) = a + n
      BY ONLY a \in Nat, n \in Nat, <3>4, NoWrapping
    <3> QED
      BY <2>7, <3>1, <3>2, <3>5
  <2>12. Start(s, 1) = s.una
    BY <2>2, <2>4, <2>7
  <2>13. s.rto <=> s.una # s.nxt
    <3>1. s.rto <=> nxt > una
      BY <2>1, <2>2 DEF SndOK
    <3> QED
      BY <2>2, <2>4, <3>1
  <2> QED
    BY <2>3, <2>5, <2>8, <2>9, <2>10, <2>11, <2>12, <2>13
<1> QED
  BY <1>1 DEF SegmentsMatch

\* So does that nothing is sent behind the window.
LEMMA InvNoOverrun ==
  ASSUME NEW both \in BOOLEAN, TcpInv(both), NoWrap
  PROVE  NoOverrun
<1>1. ASSUME NEW e \in Ends, NEW i \in DOMAIN net[e], NEW p, p = net[e][i]
      PROVE  p.seq + Len(p.data) - tcb[e].rnxt <= RcvSpace(tcb[e])
  <2>1. PICK o \in BOOLEAN, s \in Tcb, r \in Tcb, w \in Nat, c \in Nat : View(e, o, s, r, w, c)
    BY Viewed
  <2>2. s = tcb[e] /\ r = tcb[Peer(e)] /\ Half(s) /\ Half(r) /\ r.nxt <= Edge(s)
    BY <2>1 DEF View, Fine
  <2>3. p \in FromTo(Opens(Peer(e)), r, s)
    <3>1. PICK n, S : n = net[e] /\ S = FromTo(Opens(Peer(e)), r, s)
      OBVIOUS
    <3>2. n \in Seq(S)
      BY <2>2, <3>1, EndFacts
    <3>3. i \in 1..Len(n)
      <4>1. DOMAIN n = 1..Len(n)
        BY ONLY <3>2, LenProperties
      <4> QED
        BY <3>1, <4>1
    <3>4. n[i] \in S
      BY ONLY <3>2, <3>3, ElementOfSeq
    <3> QED
      BY <1>1, <3>1, <3>4
  <2>4. PICK q \in Nat, len \in Nat, nxt \in Nat, rnxt \in Nat, rwnd \in Nat, cap \in Nat, rl \in Nat :
          /\ q = p.seq /\ len = Len(p.data) /\ nxt = r.nxt /\ rnxt = s.rnxt /\ rwnd = s.rwnd /\ cap = RcvBuf /\ rl = Len(s.rbuf)
    <3>1. p.seq \in Nat /\ p.data \in Seq(Nat)
      BY <2>3 DEF FromTo, Packet
    <3>2. Len(p.data) \in Nat
      BY <3>1, LenProperties
    <3> QED
      BY <3>1, <3>2, TcbTypes, Consts
  <2>5. q + len <= nxt
    <3>1. CASE p.data = <<>>
      <4>1. len = 0
        BY <2>4, <3>1, EmptySeq
      <4>2. q <= nxt
        BY <2>3, <2>4, <3>1 DEF FromTo
      <4> QED
        BY <4>1, <4>2
    <3>2. CASE p.data # <<>>
      <4>1. q + len \in Points(r)
        BY <2>3, <2>4, <3>2 DEF FromTo
      <4> QED
        BY <2>2, <2>4, <4>1, PointsFacts
    <3> QED
      BY <3>1, <3>2
  <2>6. nxt <= rnxt + rwnd /\ rwnd + rl <= cap
    BY <2>2, <2>4 DEF Edge, Half, RcvOK
  <2>7. q + len - rnxt <= cap - rl
    BY <2>5, <2>6
  <2> QED
    BY <2>2, <2>4, <2>7 DEF RcvSpace
<1> QED
  BY <1>1 DEF NoOverrun

\* So does that an object ends only when all has been acknowledged.
LEMMA InvCloseDelivers ==
  ASSUME NEW both \in BOOLEAN, TcpInv(both), NoWrap
  PROVE  CloseDelivers
<1>1. SUFFICES ASSUME NEW e \in Ends, tcb[e].state = "destroyed", Alive(Peer(e)), ~ tcb[Peer(e)].shutdown
      PROVE  Len(got[Peer(e)]) + Len(tcb[Peer(e)].rbuf) = written[e]
  BY DEF CloseDelivers
<1>f. PICK f \in Ends : f = Peer(e) /\ Peer(f) = e
  BY PeerFacts
<1>2. PICK o \in BOOLEAN, s \in Tcb, r \in Tcb, w \in Nat, c \in Nat : View(e, o, s, r, w, c)
  BY Viewed
<1>3. PICK q \in BOOLEAN, t \in Tcb, x \in Tcb, v \in Nat, d \in Nat : View(f, q, t, x, v, d)
  BY Viewed
<1>4. t = r /\ x = s /\ w = written[e] /\ d = Len(got[f]) + Len(r.rbuf) /\ r = tcb[f] /\ s = tcb[e]
  BY <1>f, <1>2, <1>3 DEF View
<1>5. PICK una \in Nat, nxt \in Nat, tot \in Nat, rnxt \in Nat : una = s.una /\ nxt = s.nxt /\ tot = Total(s) /\ rnxt = r.rnxt
  BY TcbTypes
<1>6. una = w + 1 /\ tot = w + 1 /\ nxt <= tot /\ una <= rnxt /\ rnxt <= nxt
  BY <1>1, <1>2, <1>3, <1>4, <1>5 DEF View, Phase
<1>7. d + 1 = rnxt
  <2>1. rnxt > 0
    BY <1>6
  <2> QED
    BY <1>1, <1>f, <1>3, <1>4, <1>5, <2>1 DEF View, Phase
<1>8. d = w
  BY <1>6, <1>7
<1> QED
  BY <1>f, <1>4, <1>8

\* An end that waits for nothing has been heard out.
Idle(e) == net[e] = <<>> /\ ~ tcb[e].rto /\ ~ tcb[e].tack /\ tcb[e].wnd # 0 /\ ~ toRead[e]
           /\ (toWrite[e] => ~ (written[e] < ToSend[e])) /\ Alive(e) /\ ~ tcb[e].shutdown

\* An end that is established and waits for nothing has sent and delivered everything.
LEMMA IdleEmpty ==
  ASSUME NEW e \in Ends, NEW o \in BOOLEAN, NEW s \in Tcb, NEW r \in Tcb, NEW w \in Nat, NEW c \in Nat,
         View(e, o, s, r, w, c), Idle(e)
  PROVE  s.una = s.nxt /\ s.sbuf = <<>> /\ s.una = Total(s) /\ s.rbuf = <<>>
<1>1. s = tcb[e] /\ s.una <= s.nxt /\ SndOK(s)
  BY DEF View, Fine, Half
<1>2. s.una = s.nxt
  <2>1. ~ (s.nxt > s.una)
    BY <1>1 DEF Idle, SndOK
  <2> QED
    BY <1>1, <2>1, TcbTypes
<1>3. s.sbuf = <<>>
  BY <1>1, <1>2 DEF Idle, Alive, View, Progress
<1>4. s.una = Total(s)
  <2>1. Len(s.sbuf) = 0
    BY <1>3, EmptySeq
  <2> QED
    BY <2>1, TcbTypes DEF Total
<1>5. s.rbuf = <<>>
  BY <1>1 DEF Idle, View, Progress
<1> QED
  BY <1>2, <1>3, <1>4, <1>5

\* Two such ends are done, so that there is always a timer, a packet or an application to go on.
LEMMA InvNeverStuck ==
  ASSUME NEW both \in BOOLEAN, TcpInv(both), NoWrap
  PROVE  NeverStuck
<1>1. SUFFICES ASSUME tcb[Opener].state # "listen", \A e \in Ends : Idle(e)
      PROVE  \A e \in Ends : ~ Unfinished(e)
  BY DEF NeverStuck, Idle, Awake
<1>2. ASSUME NEW e \in Ends PROVE ~ Unfinished(e)
  <2>f. PICK f \in Ends : f = Peer(e) /\ Peer(f) = e /\ f # e /\ \A x \in Ends : x = e \/ x = f
    BY PeerFacts
  <2>1. PICK o \in BOOLEAN, s \in Tcb, r \in Tcb, w \in Nat, c \in Nat : View(e, o, s, r, w, c)
    BY Viewed
  <2>2. PICK q \in BOOLEAN, t \in Tcb, x \in Tcb, v \in Nat, d \in Nat : View(f, q, t, x, v, d)
    BY Viewed
  <2>3. t = r /\ x = s /\ w = written[e] /\ d = Len(got[f]) + Len(r.rbuf) /\ r = tcb[f] /\ s = tcb[e]
    BY <2>f, <2>1, <2>2 DEF View
  <2>4. /\ s.una = s.nxt /\ s.sbuf = <<>> /\ s.una = Total(s) /\ s.rbuf = <<>>
        /\ r.una = r.nxt /\ r.sbuf = <<>> /\ r.una = Total(r) /\ r.rbuf = <<>>
    <3>1. View(e, o, s, r, w, c) /\ Idle(e)
      BY <1>1, <2>1
    <3>2. View(f, q, r, s, v, d) /\ Idle(f)
      BY <1>1, <2>2, <2>3
    <3>3. s.una = s.nxt /\ s.sbuf = <<>> /\ s.una = Total(s) /\ s.rbuf = <<>>
      BY <3>1, IdleEmpty
    <3>4. r.una = r.nxt /\ r.sbuf = <<>> /\ r.una = Total(r) /\ r.rbuf = <<>>
      BY <3>2, IdleEmpty
    <3> QED
      BY <3>3, <3>4
  <2>5. PICK una \in Nat, una2 \in Nat, rnxt \in Nat, rnxt2 \in Nat :
          una = s.una /\ una2 = r.una /\ rnxt = s.rnxt /\ rnxt2 = r.rnxt
    BY TcbTypes
  <2>6. una <= rnxt2 /\ una2 <= rnxt
    BY <2>1, <2>2, <2>3, <2>5 DEF View
  <2>7. s.state # "listen" /\ r.state # "listen"
    <3>1. s.state # "listen" => una >= 1
      BY <2>1, <2>4, <2>5 DEF View, Phase
    <3>2. r.state # "listen" => una2 >= 1
      BY <2>2, <2>3, <2>4, <2>5 DEF View, Phase
    <3>3. s.state = "listen" => rnxt = 0
      BY <2>1, <2>5 DEF View, Phase, Initial
    <3>4. r.state = "listen" => rnxt2 = 0
      BY <2>2, <2>3, <2>5 DEF View, Phase, Initial
    <3>5. s.state # "listen" \/ r.state # "listen"
      <4>1. Opener \in Ends
        BY PseudoTcpAssumption
      <4> QED
        BY <1>1, <2>f, <2>3, <4>1
    <3> QED
      BY <2>6, <3>1, <3>2, <3>3, <3>4, <3>5
  <2>8. una = w + 1 /\ una2 >= 1
    <3>1. una = w + 1
      BY <2>1, <2>4, <2>5, <2>7 DEF View, Phase
    <3>2. una2 >= 1
      BY <2>2, <2>3, <2>4, <2>5, <2>7 DEF View, Phase
    <3> QED
      BY <3>1, <3>2
  <2>9. s.state = "established"
    <3>1. s.state \in States
      BY DEF Tcb
    <3>2. s.state \notin {"closed", "destroyed"}
      BY <1>1, <2>3 DEF Idle, Alive
    <3>3. s.state # "syn_sent"
      BY <2>1, <2>5, <2>6, <2>8 DEF View, Phase
    <3>4. s.state # "syn_received"
      BY <2>1, <2>5, <2>8 DEF View, Phase
    <3> QED
      BY <2>7, <3>1, <3>2, <3>3, <3>4 DEF States
  <2>10. ~ (written[e] < ToSend[e])
    <3>1. SUFFICES ASSUME written[e] < ToSend[e] PROVE FALSE
      OBVIOUS
    <3>2. ~ toWrite[e]
      BY <1>1, <3>1 DEF Idle
    <3>3. Len(s.sbuf) >= Smaller(SndBuf, (SndBuf + RcvBuf) \div 2)
      BY <2>1, <2>9, <3>2 DEF View, Progress
    <3>4. Len(s.sbuf) = 0
      BY <2>4, EmptySeq
    <3>5. PICK a \in Nat \ {0}, b \in Nat \ {0} : a = SndBuf /\ b = RcvBuf
      BY Consts
    <3>6. PICK h \in Int : h = (a + b) \div 2 /\ h >= 1
      BY <3>5
    <3>7. PICK y \in Int : y = Smaller(a, h) /\ y >= 1
      BY <3>6 DEF Smaller
    <3>8. Smaller(SndBuf, (SndBuf + RcvBuf) \div 2) = y
      BY <3>5, <3>6, <3>7
    <3> QED
      BY <3>3, <3>4, <3>7, <3>8
  <2>11. ~ (Len(got[Peer(e)]) < written[e])
    <3>1. d + 1 = rnxt2
      <4>1. rnxt2 > 0
        BY <2>6, <2>8
      <4>2. ~ r.shutdown
        BY <1>1, <2>3 DEF Idle
      <4> QED
        BY <2>2, <2>3, <2>5, <4>1, <4>2 DEF View, Phase
    <3>2. Len(r.rbuf) = 0
      BY <2>4, EmptySeq
    <3>3. PICK n \in Nat : n = Len(got[f])
      <4>1. got[f] \in Seq(Int)
        BY DEF TcpInv, EndInv, Whole
      <4> QED
        BY <4>1, LenProperties
    <3>4. d = n
      BY <2>3, <3>2, <3>3
    <3>5. n >= w
      BY <2>6, <2>8, <3>1, <3>4
    <3> QED
      BY <2>f, <2>3, <3>3, <3>5
  <2> QED
    BY <2>10, <2>11 DEF Unfinished
<1> QED
  BY <1>2

\* What an end reads, and what waits for it, is the beginning of what the other one wrote.
InOrderAt(e) ==
  LET s == got[e] \o tcb[e].rbuf
  IN  Len(s) <= written[Peer(e)] /\ \A i \in 1..Len(s) : s[i] = i

\* What is read in order, where the invariant says so.
LEMMA InvInOrder ==
  ASSUME NEW both \in BOOLEAN, TcpInv(both), NoWrap, NEW e \in Ends, Reads(e, both)
  PROVE  InOrderAt(e)
<1>f. PICK f \in Ends : f = Peer(e) /\ Peer(f) = e
  BY PeerFacts
<1>1. PICK o \in BOOLEAN, s \in Tcb, r \in Tcb, w \in Nat, c \in Nat : View(e, o, s, r, w, c)
  BY Viewed
<1>2. PICK q \in BOOLEAN, t \in Tcb, x \in Tcb, v \in Nat, d \in Nat : View(f, q, t, x, v, d)
  BY Viewed
<1>3. t = r /\ v = written[f] /\ c = Len(got[e]) + Len(s.rbuf) /\ s = tcb[e]
  BY <1>f, <1>1, <1>2 DEF View
<1>4. PICK rnxt \in Nat, nxt \in Nat, tot \in Nat : rnxt = s.rnxt /\ nxt = r.nxt /\ tot = Total(r)
  BY TcbTypes
<1>p. Phase(o, s, w, c)
  BY <1>1 DEF View
<1>q. (rnxt = 0 => c = 0) /\ (rnxt # 0 => c + 1 <= rnxt)
  BY <1>4, <1>p DEF Phase
<1>5. c <= v
  <2>1. rnxt <= nxt /\ nxt <= tot
    BY <1>1, <1>2, <1>3, <1>4 DEF View
  <2>2. tot = v \/ tot = v + 1
    BY <1>2, <1>3, <1>4 DEF View, Phase
  <2>3. CASE rnxt = 0
    BY <1>q, <2>3
  <2>4. CASE rnxt # 0
    <3>1. c + 1 <= rnxt
      BY <1>q, <2>4
    <3> QED
      BY <2>1, <2>2, <3>1
  <2> QED
    BY <2>3, <2>4
<1>6. PICK g, b : g = got[e] /\ b = s.rbuf
  OBVIOUS
<1>7. g \in Seq(Int) /\ b \in Seq(Int) /\ Content(s, g)
  BY <1>3, <1>6, TcbTypes DEF TcpInv, EndInv, Whole
<1>8. PICK h : h = g \o b
  OBVIOUS
<1>9. Len(g) \in Nat /\ Len(b) \in Nat
  BY <1>7, LenProperties
<1>10. /\ Len(h) = Len(g) + Len(b)
       /\ \A i \in 1..Len(g) + Len(b) : h[i] = IF i <= Len(g) THEN g[i] ELSE b[i - Len(g)]
  BY ONLY <1>7, <1>8, ConcatProperties
<1>11. ASSUME NEW i \in 1..Len(h) PROVE h[i] = i
  <2>1. CASE i <= Len(g)
    BY <1>7, <1>9, <1>10, <2>1 DEF Content
  <2>2. CASE ~ (i <= Len(g))
    <3>1. i - Len(g) \in 1..Len(b)
      BY <1>9, <1>10, <2>2
    <3>2. b[i - Len(g)] = Len(g) + (i - Len(g))
      BY <1>6, <1>7, <3>1 DEF Content, Stream
    <3> QED
      BY <1>9, <1>10, <2>2, <3>2
  <2> QED
    BY <2>1, <2>2
<1>12. Len(h) <= written[f]
  BY <1>3, <1>5, <1>6, <1>10
<1> QED
  BY <1>f, <1>3, <1>6, <1>8, <1>11, <1>12 DEF InOrderAt

\* The types of the control blocks, the network and the applications, for buffers and segment
\* sizes of every size.
THEOREM TypeCorrect == ASSUME NoWrap PROVE Spec => []TypeOK
<1>1. TcpInv(FALSE) => TypeOK
  BY InvTypeOK
<1> QED
  BY <1>1, TcpInvHolds, PTL

\* m_slist covers exactly what m_sbuf holds, segment after segment, whatever attemptSend,
\* transmit and process have split, joined, sent again and freed.
THEOREM SegmentsCover == ASSUME NoWrap PROVE Spec => []SegmentsMatch
<1>1. TcpInv(FALSE) => SegmentsMatch
  BY InvSegments
<1> QED
  BY <1>1, TcpInvHolds, PTL

\* An end never has more in flight than the other one's receive buffer has space for.
THEOREM WindowsHold == ASSUME NoWrap PROVE Spec => []NoOverrun
<1>1. TcpInv(FALSE) => NoOverrun
  BY InvNoOverrun
<1> QED
  BY <1>1, TcpInvHolds, PTL

\* When a closed object is gone, its peer has received all that had been written.
THEOREM ClosesDelivered == ASSUME NoWrap PROVE Spec => []CloseDelivers
<1>1. TcpInv(FALSE) => CloseDelivers
  BY InvCloseDelivers
<1> QED
  BY <1>1, TcpInvHolds, PTL

\* The two ends never wait for each other with data unsent or unread and no timer set, no packet
\* on its way and no application about to call.
THEOREM StuckNever == ASSUME NoWrap PROVE Spec => []NeverStuck
<1>1. TcpInv(FALSE) => NeverStuck
  BY InvNeverStuck
<1> QED
  BY <1>1, TcpInvHolds, PTL

\* What the opener writes arrives in order.
THEOREM ResponderReadsInOrder ==
  ASSUME NoWrap
  PROVE  Spec => [](\A e \in Ends \ {Opener} : InOrderAt(e))
<1>1. TcpInv(FALSE) => \A e \in Ends \ {Opener} : InOrderAt(e)
  BY InvInOrder DEF Reads
<1> QED
  BY <1>1, TcpInvHolds, PTL

\* What an end reads, and what waits to be read, is the beginning of what the other one wrote,
\* however much both write, in every execution in which no data of the end that answers is kept
\* before its connect message has come.
THEOREM StreamsInOrder ==
  ASSUME NoWrap
  PROVE  Spec /\ []ConnectFirst => []InOrder
<1>1. TcpInv(TRUE) => InOrder
  BY InvInOrder DEF InOrder, InOrderAt, Reads
<1> QED
  BY <1>1, BothRead, PTL
=================================================================================
