------------------------ MODULE StereoRecorderProofs ------------------------
(***************************************************************************)
(* Proofs about the stereo recorder, for every chunk size, queue capacity    *)
(* and threshold of lag, and for any interleaving of the two sides.          *)
(***************************************************************************)
EXTENDS StereoRecorder, SequenceTheorems, TLAPS

----------------------------------------------------------------------------
(* Sequences of bytes                                                       *)

Bytes == Nat \cup {Pad}

LEMMA Joined ==
  ASSUME NEW s \in Seq(Bytes), NEW t \in Seq(Bytes)
  PROVE  /\ s \o t \in Seq(Bytes) /\ Len(s) \in Nat /\ Len(t) \in Nat
         /\ Len(s \o t) = Len(s) + Len(t)
         /\ \A i \in 1..Len(s) : (s \o t)[i] = s[i]
         /\ \A i \in 1..Len(t) : (s \o t)[Len(s) + i] = t[i]
<1>1. /\ s \o t \in Seq(Bytes) /\ Len(s) \in Nat /\ Len(t) \in Nat
      /\ Len(s \o t) = Len(s) + Len(t)
      /\ \A i \in 1..(Len(s) + Len(t)) :
           (s \o t)[i] = IF i <= Len(s) THEN s[i] ELSE t[i - Len(s)]
  BY ConcatProperties, LenProperties
<1>2. ASSUME NEW i \in 1..Len(s) PROVE (s \o t)[i] = s[i]
  <2>1. i \in 1..(Len(s) + Len(t)) /\ i <= Len(s)
    BY <1>1
  <2> QED BY <1>1, <2>1
<1>3. ASSUME NEW i \in 1..Len(t) PROVE (s \o t)[Len(s) + i] = t[i]
  <2>1. Len(s) + i \in 1..(Len(s) + Len(t)) /\ ~(Len(s) + i <= Len(s)) /\ (Len(s) + i) - Len(s) = i
    BY <1>1
  <2>2. (s \o t)[Len(s) + i] = t[(Len(s) + i) - Len(s)]
    BY <1>1, <2>1
  <2> QED BY <2>1, <2>2
<1> QED BY <1>1, <1>2, <1>3

\* Every byte of a joined sequence is of one of its parts.
LEMMA OfEither ==
  ASSUME NEW s \in Seq(Bytes), NEW t \in Seq(Bytes), NEW i \in 1..Len(s \o t)
  PROVE  \/ i \in 1..Len(s) /\ (s \o t)[i] = s[i]
         \/ i - Len(s) \in 1..Len(t) /\ (s \o t)[i] = t[i - Len(s)] /\ i > Len(s)
<1>1. Len(s) \in Nat /\ Len(t) \in Nat /\ Len(s \o t) = Len(s) + Len(t)
  BY Joined
<1>2. CASE i <= Len(s)
  <2>1. i \in 1..Len(s)
    BY <1>1, <1>2
  <2> QED BY <2>1, Joined
<1>3. CASE ~(i <= Len(s))
  <2>1. i - Len(s) \in 1..Len(t) /\ i > Len(s) /\ Len(s) + (i - Len(s)) = i
    BY <1>1, <1>3
  <2>2. (s \o t)[Len(s) + (i - Len(s))] = t[i - Len(s)]
    BY <2>1, Joined
  <2> QED BY <2>1, <2>2
<1> QED BY <1>2, <1>3

LEMMA SilenceIsPads ==
  ASSUME NEW n \in Nat
  PROVE  Silence(n) \in Seq(Bytes) /\ Len(Silence(n)) = n /\ \A i \in 1..n : Silence(n)[i] = Pad
<1>1. Silence(n) \in [1..n -> Bytes]
  BY DEF Silence, Bytes
<1> QED BY <1>1 DEF Silence

\* The bytes n+1..n+k.
Numbers(n, k) == [i \in 1..k |-> n + i]

LEMMA NumbersAreBytes ==
  ASSUME NEW n \in Nat, NEW k \in Nat
  PROVE  /\ Numbers(n, k) \in Seq(Bytes) /\ Len(Numbers(n, k)) = k
         /\ \A i \in 1..k : Numbers(n, k)[i] = n + i
<1>1. Numbers(n, k) \in [1..k -> Bytes]
  BY DEF Numbers, Bytes
<1> QED BY <1>1 DEF Numbers

\* Taking n bytes off the front of b and putting them behind f.
LEMMA Moved ==
  ASSUME NEW f \in Seq(Bytes), NEW b \in Seq(Bytes), NEW n \in Nat, n <= Len(b)
  PROVE  /\ f \o SubSeq(b, 1, n) \in Seq(Bytes) /\ SubSeq(b, n + 1, Len(b)) \in Seq(Bytes)
         /\ Len(f \o SubSeq(b, 1, n)) = Len(f) + n
         /\ Len(SubSeq(b, n + 1, Len(b))) = Len(b) - n
         /\ (f \o SubSeq(b, 1, n)) \o SubSeq(b, n + 1, Len(b)) = f \o b
         /\ Len(f) \in Nat /\ Len(b) \in Nat
<1> DEFINE front == SubSeq(b, 1, n)
           back == SubSeq(b, n + 1, Len(b))
<1>1. Len(f) \in Nat /\ Len(b) \in Nat
  BY LenProperties
<1>2. front \in Seq(Bytes) /\ Len(front) = n
  <2>1. \A i \in 1..n : b[i] \in Bytes
    BY <1>1, ElementOfSeq
  <2>2. front \in Seq(Bytes) /\ Len(front) = IF 1 <= n THEN n - 1 + 1 ELSE 0
    BY <2>1, SubSeqProperties
  <2> QED BY <2>2
<1>3. back \in Seq(Bytes) /\ Len(back) = Len(b) - n
  <2>1. \A i \in (n + 1)..Len(b) : b[i] \in Bytes
    BY <1>1, ElementOfSeq
  <2>2. n + 1 \in Int /\ Len(b) \in Int
    BY <1>1
  <2>3. back \in Seq(Bytes) /\ Len(back) = IF n + 1 <= Len(b) THEN Len(b) - (n + 1) + 1 ELSE 0
    BY <2>1, <2>2, SubSeqProperties
  <2> QED BY <1>1, <2>3
<1>4. front \o back = b
  <2>1. 1 \in 1..(Len(b) + 1) /\ n \in (1 - 1)..Len(b) /\ Len(b) \in n..Len(b)
    BY <1>1
  <2>2. front \o back = SubSeq(b, 1, Len(b))
    BY ONLY <2>1, b \in Seq(Bytes), ConcatAdjacentSubSeq
  <2> QED BY <2>2, SubSeqFull
<1> HIDE DEF front, back
<1>5. (f \o front) \o back = f \o b
  <2>1. ASSUME NEW x \in Seq(Bytes), NEW y \in Seq(Bytes), NEW z \in Seq(Bytes)
        PROVE  (x \o y) \o z = x \o (y \o z)
    BY ONLY <2>1, ConcatAssociative
  <2>2. (f \o front) \o back = f \o (front \o back)
    BY <1>2, <1>3, <2>1
  <2> QED BY <1>4, <2>2
<1>6. f \o front \in Seq(Bytes) /\ Len(f \o front) = Len(f) + n
  BY <1>2, Joined
<1> QED BY <1>1, <1>3, <1>5, <1>6 DEF front, back

----------------------------------------------------------------------------
(* What a sequence holds                                                    *)

Place(s, i) == i \in 1..Len(s) /\ s[i] # Pad

LEMMA HoldsAtPlaces ==
  ASSUME NEW s, NEW n
  PROVE  Holds(s, n) <=>
           /\ \A i : Place(s, i) => s[i] \in 1..n
           /\ \A i, j : Place(s, i) /\ Place(s, j) /\ i < j => s[i] < s[j]
           /\ \A k \in 1..n : \E i : Place(s, i) /\ s[i] = k
  BY DEF Holds, Place

LEMMA SilenceHoldsNothing ==
  ASSUME NEW s \in Seq(Bytes), NEW n \in Nat, Holds(s, n), NEW k \in Nat
  PROVE  Holds(s \o Silence(k), n)
<1> DEFINE t == Silence(k)
<1>1. t \in Seq(Bytes) /\ Len(t) = k /\ \A i \in 1..k : t[i] = Pad
  BY SilenceIsPads
<1> HIDE DEF t
<1>2. ASSUME NEW i, Place(s \o t, i) PROVE Place(s, i) /\ (s \o t)[i] = s[i]
  BY <1>1, <1>2, OfEither DEF Place
<1>3. ASSUME NEW i, Place(s, i) PROVE Place(s \o t, i) /\ (s \o t)[i] = s[i]
  <2>1. i \in 1..Len(s \o t)
    BY <1>1, <1>3, Joined DEF Place
  <2> QED BY <1>1, <1>3, <2>1, Joined DEF Place
<1>4. Holds(s \o t, n)
  BY <1>2, <1>3, HoldsAtPlaces
<1> QED BY <1>4 DEF t

LEMMA NumbersAreHeld ==
  ASSUME NEW s \in Seq(Bytes), NEW n \in Nat, Holds(s, n), NEW k \in Nat
  PROVE  Holds(s \o Numbers(n, k), n + k)
<1> DEFINE t == Numbers(n, k)
<1>1. t \in Seq(Bytes) /\ Len(t) = k /\ \A i \in 1..k : t[i] = n + i
  BY NumbersAreBytes
<1> HIDE DEF t
<1>2. ASSUME NEW i, Place(s \o t, i)
      PROVE  /\ i \in Int
             /\ \/ Place(s, i) /\ (s \o t)[i] = s[i] /\ s[i] \in 1..n
                \/ i - Len(s) \in 1..k /\ (s \o t)[i] = n + (i - Len(s)) /\ i > Len(s)
  <2>1. i \in 1..Len(s \o t) /\ (s \o t)[i] # Pad
    BY <1>2 DEF Place
  <2>2. CASE i \in 1..Len(s) /\ (s \o t)[i] = s[i]
    <3>1. Place(s, i)
      BY <2>1, <2>2 DEF Place
    <3> QED BY <2>1, <2>2, <3>1, HoldsAtPlaces
  <2>3. CASE i - Len(s) \in 1..Len(t) /\ (s \o t)[i] = t[i - Len(s)] /\ i > Len(s)
    BY <1>1, <2>1, <2>3
  <2> QED BY <1>1, <2>1, <2>2, <2>3, OfEither
<1>3. ASSUME NEW i, Place(s, i) PROVE Place(s \o t, i) /\ (s \o t)[i] = s[i]
  <2>1. i \in 1..Len(s \o t)
    BY <1>1, <1>3, Joined DEF Place
  <2> QED BY <1>1, <1>3, <2>1, Joined DEF Place
<1>4. ASSUME NEW i \in 1..k PROVE Place(s \o t, Len(s) + i) /\ (s \o t)[Len(s) + i] = n + i
  <2>1. (s \o t)[Len(s) + i] = n + i
    BY <1>1, Joined
  <2>2. Len(s) + i \in 1..Len(s \o t)
    BY <1>1, Joined
  <2>3. n + i # Pad
    BY StereoRecorderConstants
  <2> QED BY <2>1, <2>2, <2>3 DEF Place
<1>5. Len(s) \in Nat
  BY LenProperties
<1>6. ASSUME NEW i, Place(s \o t, i) PROVE (s \o t)[i] \in 1..(n + k)
  <2> HIDE DEF t
  <2> DEFINE v == (s \o t)[i]
  <2>1. \/ v = s[i] /\ s[i] \in 1..n
        \/ i - Len(s) \in 1..k /\ v = n + (i - Len(s))
    BY <1>2, <1>6
  <2> HIDE DEF v
  <2>2. v \in 1..(n + k)
    <3>1. CASE v = s[i] /\ s[i] \in 1..n
      BY <3>1
    <3>2. ASSUME NEW d \in 1..k, v = n + d PROVE v \in 1..(n + k)
      BY <3>2
    <3> QED BY <2>1, <3>1, <3>2
  <2> QED BY <2>2 DEF v
<1>7. ASSUME NEW i, NEW j, Place(s \o t, i), Place(s \o t, j), i < j
      PROVE  (s \o t)[i] < (s \o t)[j]
  <2>1. CASE Place(s, i) /\ Place(s, j)
    <3>1. s[i] < s[j]
      BY <1>7, <2>1, HoldsAtPlaces
    <3>2. (s \o t)[i] = s[i]
      BY <1>3, <2>1
    <3>3. (s \o t)[j] = s[j]
      BY <1>3, <2>1
    <3> QED BY <3>1, <3>2, <3>3
  <2>2. CASE Place(s, i) /\ ~Place(s, j)
    <3>1. (s \o t)[i] = s[i] /\ s[i] \in 1..n
      BY <1>3, <2>2, HoldsAtPlaces
    <3>2. j - Len(s) \in 1..k /\ (s \o t)[j] = n + (j - Len(s))
      BY <1>2, <1>7, <2>2
    <3>3. ASSUME NEW d \in 1..k, NEW v \in 1..n PROVE v < n + d
      OBVIOUS
    <3> QED BY <3>1, <3>2, <3>3
  <2>3. CASE ~Place(s, i)
    <3>1. i > Len(s) /\ i \in Int /\ j \in Int /\ (s \o t)[i] = n + (i - Len(s))
      BY <1>2, <1>7, <2>3
    <3>2. ~Place(s, j)
      BY <1>5, <1>7, <3>1 DEF Place
    <3>3. (s \o t)[j] = n + (j - Len(s))
      BY <1>2, <1>7, <3>2
    <3> QED BY <1>5, <1>7, <3>1, <3>3
  <2> QED BY <2>1, <2>2, <2>3
<1>8. ASSUME NEW m \in 1..(n + k) PROVE \E i : Place(s \o t, i) /\ (s \o t)[i] = m
  <2>1. CASE m <= n
    <3>1. PICK i : Place(s, i) /\ s[i] = m
      <4>1. m \in 1..n
        BY <2>1
      <4> QED BY <4>1, HoldsAtPlaces
    <3> QED BY <1>3, <3>1
  <2>2. CASE ~(m <= n)
    <3>1. m - n \in 1..k /\ n + (m - n) = m
      BY <2>2
    <3> QED BY <1>4, <3>1
  <2> QED BY <2>1, <2>2
<1>9. Holds(s \o t, n + k)
  BY <1>6, <1>7, <1>8, HoldsAtPlaces
<1> QED BY <1>9 DEF t

----------------------------------------------------------------------------
(* Even lengths                                                             *)

IsEven(n) == n % 2 = 0

LEMMA EvenOf ==
  ASSUME NEW n \in Nat
  PROVE  Even(n) \in Nat /\ Even(n) <= n /\ n <= Even(n) + 1 /\ IsEven(Even(n))
BY DEF Even, IsEven

LEMMA EvenSum ==
  ASSUME NEW a \in Int, NEW b \in Int, IsEven(a)
  PROVE  IsEven(a + b) <=> IsEven(b)
BY DEF IsEven

\* Below an odd number the even numbers stop one short.
LEMMA EvenBelowOdd ==
  ASSUME NEW a \in Nat, NEW n \in Nat, a <= n, ~IsEven(n)
  PROVE  Even(a) < n
BY DEF Even, IsEven

\* What is left when even is taken from even.
LEMMA EvenRest ==
  ASSUME NEW a \in Int, NEW b \in Int, IsEven(a), IsEven(b)
  PROVE  IsEven(a - b)
BY DEF IsEven

\* A total and its even part leave the other part as it is.
LEMMA EvenTotal ==
  ASSUME NEW a \in Int, NEW b \in Int, NEW c \in Int, IsEven(a), IsEven(a + b - c)
  PROVE  IsEven(b) <=> IsEven(c)
BY DEF IsEven

----------------------------------------------------------------------------
(* The queue                                                                *)

\* The first chunk of a queue that goes on from n, and what the rest goes on from.
LEMMA FirstChunk ==
  ASSUME NEW q \in Seq(Seq(Nat)), NEW n \in Nat, NEW m \in Nat, q # <<>>, GoOn(q, n, m)
  PROVE  \E k \in Nat \ {0} :
           /\ Head(q) = Numbers(n, k) /\ k = Len(q[1]) /\ q[1][k] = n + k
           /\ GoOn(Tail(q), n + k, m)
<1> DEFINE h == Head(q)
           t == Tail(q)
           k == Len(q[1])
<1>1. /\ Len(q) \in Nat \ {0} /\ h = q[1] /\ q[1] \in Seq(Nat)
  BY EmptySeq, LenProperties, HeadTailProperties, ElementOfSeq
<1>2. /\ t \in Seq(Seq(Nat)) /\ Len(t) = Len(q) - 1
      /\ \A i \in 1..Len(t) : t[i] = q[i + 1]
  BY HeadTailProperties
<1>3. \A i \in 1..Len(q) :
        /\ q[i] # <<>>
        /\ \A j \in 1..Len(q[i]) : q[i][j] = (IF i = 1 THEN n ELSE LastByte(q[i - 1])) + j
  BY DEF GoOn
<1>4. m = LastByte(q[Len(q)])
  BY DEF GoOn
<1>5. 1 \in 1..Len(q)
  BY <1>1
<1>6. k \in Nat \ {0}
  BY <1>1, <1>3, <1>5, EmptySeq, LenProperties
<1>7. \A j \in 1..k : q[1][j] = n + j
  BY <1>3, <1>5
<1>8. h = Numbers(n, k)
  <2>1. q[1] \in [1..k -> Nat]
    BY <1>1, LenProperties
  <2>2. q[1] = [j \in 1..k |-> n + j]
    BY <1>7, <2>1
  <2> QED BY <1>1, <2>2 DEF Numbers
<1>9. q[1][k] = n + k /\ LastByte(q[1]) = n + k
  BY <1>6, <1>7 DEF LastByte
<1> HIDE DEF h, t, k
<1>10. ASSUME NEW i \in 1..Len(t)
       PROVE  /\ t[i] # <<>>
              /\ \A j \in 1..Len(t[i]) : t[i][j] = (IF i = 1 THEN n + k ELSE LastByte(t[i - 1])) + j
  <2>1. i + 1 \in 1..Len(q) /\ i + 1 # 1 /\ (i + 1) - 1 = i
    BY <1>1, <1>2
  <2>2. t[i] = q[i + 1]
    BY <1>2
  <2>3. LastByte(q[i]) = IF i = 1 THEN n + k ELSE LastByte(t[i - 1])
    <3>1. CASE i = 1
      BY <1>9, <3>1
    <3>2. CASE i # 1
      <4>1. i - 1 \in 1..Len(t) /\ (i - 1) + 1 = i
        BY <1>1, <1>2, <3>2
      <4>2. t[i - 1] = q[i]
        BY <1>2, <4>1
      <4> QED BY <3>2, <4>2
    <3> QED BY <3>1, <3>2
  <2> QED BY <1>3, <2>1, <2>2, <2>3
<1>11. m = IF t = <<>> THEN n + k ELSE LastByte(t[Len(t)])
  <2>1. CASE t = <<>>
    <3>1. Len(q) = 1
      BY <1>1, <1>2, <2>1
    <3> QED BY <1>4, <1>9, <2>1, <3>1
  <2>2. CASE t # <<>>
    <3>1. Len(t) \in 1..Len(t) /\ Len(t) + 1 = Len(q)
      BY <1>1, <1>2, <2>2, EmptySeq, LenProperties
    <3>2. t[Len(t)] = q[Len(q)]
      BY <1>2, <3>1
    <3> QED BY <1>4, <2>2, <3>2
  <2> QED BY <2>1, <2>2
<1>12. GoOn(t, n + k, m)
  BY <1>10, <1>11 DEF GoOn
<1> QED BY <1>6, <1>8, <1>9, <1>12 DEF h, t, k

\* A chunk that is pushed goes on from what was accepted.
LEMMA NextChunk ==
  ASSUME NEW q \in Seq(Seq(Nat)), NEW n \in Nat, NEW m \in Nat, GoOn(q, n, m),
         NEW k \in Nat \ {0}
  PROVE  GoOn(Append(q, Numbers(m, k)), n, m + k)
<1> DEFINE x == Numbers(m, k)
           a == Append(q, x)
<1>1. x \in Seq(Nat) /\ Len(x) = k /\ \A j \in 1..k : x[j] = m + j
  <2>1. x \in [1..k -> Nat]
    BY DEF Numbers
  <2> QED BY <2>1 DEF Numbers
<1> HIDE DEF x
<1>2. /\ Len(q) \in Nat /\ Len(a) = Len(q) + 1 /\ a # <<>>
      /\ \A i \in 1..Len(q) : a[i] = q[i]
      /\ a[Len(q) + 1] = x
  BY <1>1, LenProperties, AppendProperties
<1> HIDE DEF a
<1>3. \A i \in 1..Len(q) :
        /\ q[i] # <<>>
        /\ \A j \in 1..Len(q[i]) : q[i][j] = (IF i = 1 THEN n ELSE LastByte(q[i - 1])) + j
  BY DEF GoOn
<1>4. m = IF q = <<>> THEN n ELSE LastByte(q[Len(q)])
  BY DEF GoOn
<1>5. ASSUME NEW i \in 1..Len(a)
      PROVE  /\ a[i] # <<>>
             /\ \A j \in 1..Len(a[i]) : a[i][j] = (IF i = 1 THEN n ELSE LastByte(a[i - 1])) + j
  <2>1. CASE i \in 1..Len(q)
    <3>1. a[i] = q[i]
      BY <1>2, <2>1
    <3>2. i # 1 => a[i - 1] = q[i - 1]
      <4>1. i # 1 => i - 1 \in 1..Len(q)
        BY <1>2, <2>1
      <4> QED BY <1>2, <4>1
    <3> QED BY <1>3, <2>1, <3>1, <3>2
  <2>2. CASE i = Len(q) + 1
    <3>1. a[i] = x /\ x # <<>>
      BY <1>1, <1>2, <2>2
    <3>2. m = IF i = 1 THEN n ELSE LastByte(a[i - 1])
      <4>1. CASE i = 1
        <5>1. q = <<>>
          BY <1>2, <2>2, <4>1, EmptySeq
        <5> QED BY <1>4, <4>1, <5>1
      <4>2. CASE i # 1
        <5>1. i - 1 = Len(q) /\ i - 1 \in 1..Len(q)
          BY <1>2, <2>2, <4>2
        <5>2. q # <<>>
          BY <5>1
        <5> QED BY <1>2, <1>4, <4>2, <5>1, <5>2
      <4> QED BY <4>1, <4>2
    <3> QED BY <1>1, <3>1, <3>2
  <2> QED BY <1>2, <2>1, <2>2
<1>6. m + k = LastByte(a[Len(a)])
  BY <1>1, <1>2 DEF LastByte
<1>7. GoOn(a, n, m + k)
  BY <1>2, <1>5, <1>6 DEF GoOn
<1> QED BY <1>7 DEF a, x

----------------------------------------------------------------------------
(* The invariant                                                            *)

SRTypes ==
  /\ run \in {"starting", "running", "draining", "closing", "done", "failed"} /\ ctxDone \in BOOLEAN
  /\ queue \in [Channels -> Seq(Seq(Nat))]
  /\ buf \in [Channels -> Seq(Bytes)]
  /\ written \in [Channels -> Seq(Bytes)]
  /\ accepted \in [Channels -> Nat]
  /\ sure \in [Channels -> Nat]

\* Of c's bytes the first n are in the file and the buffer, the others in the queue;
\* silence is put in between in whole samples, until the end.
StreamAt(c, n) ==
  /\ Holds(written[c] \o buf[c], n)
  /\ GoOn(queue[c], n, accepted[c])
  /\ run \notin {"closing", "done"} => IsEven((Len(written[c]) + Len(buf[c])) - n)

StreamInv == \A c \in Channels : \E n \in 0..accepted[c] : StreamAt(c, n)

QueueInv ==
  \A c \in Channels : \A i \in 1..Len(queue[c]) : \A k \in 1..Len(queue[c][i]) :
    queue[c][i][k] <= accepted[c]

FileInv == Len(written["left"]) = Len(written["right"]) /\ IsEven(Len(written["left"]))

AllIsWritten ==
  \A c \in Channels : \A k \in 1..Even(sure[c]) : \E i \in 1..Len(written[c]) : written[c][i] = k

\* The header gets its size last, and only after everything is in the file.
HeaderInv ==
  /\ broken \in BOOLEAN
  /\ run # "done" \/ broken => size = 0
  /\ run = "done" /\ ~broken => disk = DataBytes(written) /\ size = disk

EndInv ==
  /\ \A c \in Channels : sure[c] <= accepted[c] /\ (~ctxDone => sure[c] = accepted[c])
  /\ run \in {"draining", "closing", "done"} => ctxDone
  /\ run \in {"closing", "done"} => AllIsWritten

SRInv == SRTypes /\ StreamInv /\ QueueInv /\ FileInv /\ EndInv /\ HeaderInv

\* What a write of n bytes of each of the buffers b does.
LEMMA Written ==
  ASSUME SRTypes, FileInv, NEW b \in [Channels -> Seq(Bytes)], NEW n \in Nat, IsEven(n),
         \A c \in Channels : n <= Len(b[c]), WriteInterleaved(b, n)
  PROVE  /\ written' \in [Channels -> Seq(Bytes)] /\ buf' \in [Channels -> Seq(Bytes)] /\ FileInv'
         /\ \A c \in Channels :
              /\ written'[c] \o buf'[c] = written[c] \o b[c]
              /\ Len(written'[c]) = Len(written[c]) + n /\ Len(buf'[c]) = Len(b[c]) - n
<1>1. ASSUME NEW c \in Channels
      PROVE  /\ written'[c] \in Seq(Bytes) /\ buf'[c] \in Seq(Bytes)
             /\ written'[c] \o buf'[c] = written[c] \o b[c]
             /\ Len(written'[c]) = Len(written[c]) + n /\ Len(buf'[c]) = Len(b[c]) - n
             /\ Len(written[c]) \in Nat
  <2>1. written[c] \in Seq(Bytes) /\ b[c] \in Seq(Bytes) /\ n <= Len(b[c])
    BY DEF SRTypes
  <2>2. written'[c] = written[c] \o SubSeq(b[c], 1, n) /\ buf'[c] = SubSeq(b[c], n + 1, Len(b[c]))
    BY DEF WriteInterleaved
  <2>3. ASSUME NEW f \in Seq(Bytes), NEW x \in Seq(Bytes), n <= Len(x)
        PROVE  /\ f \o SubSeq(x, 1, n) \in Seq(Bytes) /\ SubSeq(x, n + 1, Len(x)) \in Seq(Bytes)
               /\ (f \o SubSeq(x, 1, n)) \o SubSeq(x, n + 1, Len(x)) = f \o x
               /\ Len(f \o SubSeq(x, 1, n)) = Len(f) + n
               /\ Len(SubSeq(x, n + 1, Len(x))) = Len(x) - n /\ Len(f) \in Nat
    BY ONLY <2>3, n \in Nat, Moved
  <2> DEFINE front == SubSeq(b[c], 1, n)
             back == SubSeq(b[c], n + 1, Len(b[c]))
  <2>4. /\ written[c] \o front \in Seq(Bytes) /\ back \in Seq(Bytes)
        /\ (written[c] \o front) \o back = written[c] \o b[c]
        /\ Len(written[c] \o front) = Len(written[c]) + n
        /\ Len(back) = Len(b[c]) - n /\ Len(written[c]) \in Nat
    BY <2>1, <2>3
  <2>5. written'[c] = written[c] \o front /\ buf'[c] = back
    BY <2>2
  <2> HIDE DEF front, back
  <2> QED BY <2>4, <2>5
<1>2. written' \in [Channels -> Seq(Bytes)] /\ buf' \in [Channels -> Seq(Bytes)]
  <2>1. /\ written' = [c \in Channels |-> written'[c]]
        /\ buf' = [c \in Channels |-> buf'[c]]
    BY DEF WriteInterleaved
  <2> QED BY <1>1, <2>1
<1>3. FileInv'
  <2>1. "left" \in Channels /\ "right" \in Channels
    BY DEF Channels
  <2>2. Len(written'["left"]) = Len(written'["right"]) /\ Len(written'["left"]) = n + Len(written["left"])
    <3>1. Len(written'["left"]) = Len(written["left"]) + n /\ Len(written["left"]) \in Nat
      BY <1>1, <2>1
    <3>2. Len(written'["right"]) = Len(written["right"]) + n
      BY <1>1, <2>1
    <3>3. Len(written["left"]) = Len(written["right"])
      BY DEF FileInv
    <3> QED BY <3>1, <3>2, <3>3
  <2>3. IsEven(n + Len(written["left"]))
    <3>1. Len(written["left"]) \in Int /\ n \in Int
      BY <1>1, <2>1
    <3>2. IsEven(Len(written["left"]))
      BY DEF FileInv
    <3> QED BY <3>1, <3>2, EvenSum
  <2> QED BY <2>2, <2>3 DEF FileInv
<1> QED BY <1>1, <1>2, <1>3

\* A pass of process.
LEMMA Processed ==
  ASSUME SRTypes, FileInv, NEW b \in [Channels -> Seq(Bytes)], Process(b)
  PROVE  /\ written' \in [Channels -> Seq(Bytes)] /\ buf' \in [Channels -> Seq(Bytes)] /\ FileInv'
         /\ \A c \in Channels :
              /\ written'[c] \o buf'[c] = written[c] \o b[c]
              /\ Len(written'[c]) + Len(buf'[c]) = Len(written[c]) + Len(b[c])
<1> DEFINE least == Lesser(Len(b["left"]), Len(b["right"]))
           n == Even(least)
<1>1. \A c \in Channels : Len(b[c]) \in Nat /\ Len(written[c]) \in Nat
  BY LenProperties DEF SRTypes
<1>2. least \in Nat /\ \A c \in Channels : least <= Len(b[c])
  BY <1>1 DEF Lesser, Channels
<1>3. WriteInterleaved(b, n)
  BY DEF Process, WholeSamples
<1> HIDE DEF least
<1>4. n \in Nat /\ n <= least /\ IsEven(n)
  BY <1>2, EvenOf
<1> HIDE DEF n
<1>5. \A c \in Channels : n <= Len(b[c])
  BY <1>1, <1>2, <1>4
<1>6. /\ written' \in [Channels -> Seq(Bytes)] /\ buf' \in [Channels -> Seq(Bytes)] /\ FileInv'
      /\ \A c \in Channels :
           /\ written'[c] \o buf'[c] = written[c] \o b[c]
           /\ Len(written'[c]) = Len(written[c]) + n /\ Len(buf'[c]) = Len(b[c]) - n
  BY <1>3, <1>4, <1>5, Written
<1>7. ASSUME NEW c \in Channels PROVE Len(written'[c]) + Len(buf'[c]) = Len(written[c]) + Len(b[c])
  BY <1>1, <1>4, <1>6
<1> QED BY <1>6, <1>7

\* Until the file is closed its header tells no size, whatever the writes do.
LEMMA WriteKeepsHeader ==
  ASSUME HeaderInv, run # "done", run' # "done", UNCHANGED size, NEW b, NEW n,
         WriteInterleaved(b, n)
  PROVE  HeaderInv'
<1>1. broken' \in BOOLEAN
  <2>1. UNCHANGED broken \/ broken' = TRUE
    BY DEF WriteInterleaved, BufferedWrite, WriteFails
  <2> QED BY <2>1 DEF HeaderInv
<1>2. size' = 0
  BY DEF HeaderInv
<1> QED BY <1>1, <1>2 DEF HeaderInv

LEMMA ProcessKeepsHeader ==
  ASSUME HeaderInv, run \in {"running", "draining"}, UNCHANGED <<run, size>>, NEW b, Process(b)
  PROVE  HeaderInv'
BY WriteKeepsHeader DEF Process

\* The chunk that is taken goes on from what the buffer ends with.
LEMMA TakenChunk ==
  ASSUME SRInv, NEW c \in Channels, queue[c] # <<>>
  PROVE  \E n \in 0..accepted[c] : \E k \in Nat \ {0} :
           /\ StreamAt(c, n) /\ n + k \in 0..accepted[c]
           /\ Head(queue[c]) = Numbers(n, k) /\ k = Len(queue[c][1])
           /\ GoOn(Tail(queue[c]), n + k, accepted[c])
<1>1. PICK n \in 0..accepted[c] : StreamAt(c, n)
  BY DEF SRInv, StreamInv
<1>2. accepted[c] \in Nat /\ n \in Nat /\ queue[c] \in Seq(Seq(Nat))
  BY DEF SRInv, SRTypes
<1>3. GoOn(queue[c], n, accepted[c])
  BY <1>1 DEF StreamAt
<1>4. PICK k \in Nat \ {0} :
        /\ Head(queue[c]) = Numbers(n, k) /\ k = Len(queue[c][1]) /\ queue[c][1][k] = n + k
        /\ GoOn(Tail(queue[c]), n + k, accepted[c])
  BY <1>2, <1>3, FirstChunk
<1>5. n + k <= accepted[c]
  <2>1. 1 \in 1..Len(queue[c])
    BY <1>2, EmptySeq, LenProperties
  <2>2. k \in 1..Len(queue[c][1])
    BY <1>4
  <2>3. queue[c][1][k] <= accepted[c]
    BY <2>1, <2>2 DEF SRInv, QueueInv
  <2> QED BY <1>4, <2>3
<1>6. n + k \in 0..accepted[c]
  BY <1>2, <1>4, <1>5
<1> QED BY <1>1, <1>4, <1>6

\* The rest of a queue keeps QueueInv's bound.
LEMMA TailBounded ==
  ASSUME SRInv, NEW c \in Channels, queue[c] # <<>>
  PROVE  /\ Tail(queue[c]) \in Seq(Seq(Nat))
         /\ \A i \in 1..Len(Tail(queue[c])) :
              i + 1 \in 1..Len(queue[c]) /\ Tail(queue[c])[i] = queue[c][i + 1]
<1>1. queue[c] \in Seq(Seq(Nat))
  BY DEF SRInv, SRTypes
<1>2. /\ Tail(queue[c]) \in Seq(Seq(Nat)) /\ Len(Tail(queue[c])) = Len(queue[c]) - 1
      /\ \A i \in 1..Len(Tail(queue[c])) : Tail(queue[c])[i] = queue[c][i + 1]
  BY <1>1, HeadTailProperties
<1>3. Len(queue[c]) \in Nat
  BY <1>1, LenProperties
<1>4. \A i \in 1..Len(Tail(queue[c])) : i + 1 \in 1..Len(queue[c])
  BY <1>2, <1>3
<1> QED BY <1>2, <1>4

----------------------------------------------------------------------------
(* The steps                                                                *)

LEMMA PushKeeps ==
  ASSUME SRInv, NEW c \in Channels, NEW k \in Chunks[c], Push(c, k)
  PROVE  SRInv'
<1> DEFINE chunk == Numbers(accepted[c], k)
<1>1. k \in Nat \ {0} /\ accepted \in [Channels -> Nat] /\ accepted[c] \in Nat
  BY StereoRecorderConstants DEF SRInv, SRTypes
<1>2. /\ queue' = [queue EXCEPT ![c] = Append(@, chunk)]
      /\ accepted' = [accepted EXCEPT ![c] = @ + k]
      /\ UNCHANGED <<run, ctxDone, buf, written, disk, broken, size>>
      /\ sure' = IF ctxDone THEN sure ELSE accepted'
  BY DEF Push, Numbers, wav
<1>3. chunk \in Seq(Nat) /\ Len(chunk) = k /\ \A j \in 1..k : chunk[j] = accepted[c] + j
  <2>1. chunk \in [1..k -> Nat]
    BY <1>1 DEF Numbers
  <2> QED BY <1>1, <2>1 DEF Numbers
<1> HIDE DEF chunk
<1>4. queue \in [Channels -> Seq(Seq(Nat))] /\ queue[c] \in Seq(Seq(Nat))
  BY DEF SRInv, SRTypes
<1>5. SRTypes'
  <2>1. queue' \in [Channels -> Seq(Seq(Nat))]
    <3>1. Append(queue[c], chunk) \in Seq(Seq(Nat))
      BY <1>3, <1>4, AppendProperties
    <3> QED BY <1>2, <1>4, <3>1
  <2>2. accepted' \in [Channels -> Nat]
    BY <1>1, <1>2
  <2> QED BY <1>2, <2>1, <2>2 DEF SRInv, SRTypes
<1>6. /\ accepted'[c] = accepted[c] + k /\ queue'[c] = Append(queue[c], chunk)
      /\ \A d \in Channels : d # c => accepted'[d] = accepted[d] /\ queue'[d] = queue[d]
  BY <1>1, <1>2, <1>4
<1>7. StreamInv'
  <2> SUFFICES ASSUME NEW d \in Channels PROVE \E n \in 0..accepted'[d] : StreamAt(d, n)'
    BY DEF StreamInv
  <2>1. PICK n \in 0..accepted[d] : StreamAt(d, n)
    BY DEF SRInv, StreamInv
  <2>2. accepted[d] \in Nat
    BY <1>1
  <2>3. GoOn(queue'[d], n, accepted'[d])
    <3>1. CASE d = c
      <4>1. GoOn(Append(queue[c], chunk), n, accepted[c] + k)
        BY <1>1, <1>4, <2>1, <3>1, NextChunk DEF StreamAt, chunk
      <4> QED BY <1>6, <3>1, <4>1
    <3>2. CASE d # c
      BY <1>6, <2>1, <3>2 DEF StreamAt
    <3> QED BY <3>1, <3>2
  <2>4. n \in 0..accepted'[d]
    BY <1>1, <1>6, <2>2
  <2> QED BY <1>2, <2>1, <2>3, <2>4 DEF StreamAt
<1>8. QueueInv'
  <2> SUFFICES ASSUME NEW d \in Channels, NEW i \in 1..Len(queue'[d]),
                      NEW j \in 1..Len(queue'[d][i])
               PROVE  queue'[d][i][j] <= accepted'[d]
    BY DEF QueueInv
  <2>1. accepted[d] \in Nat /\ accepted[d] <= accepted'[d]
    BY <1>1, <1>6
  <2>2. CASE i \in 1..Len(queue[d]) /\ queue'[d][i] = queue[d][i]
    <3>1. j \in 1..Len(queue[d][i]) /\ queue[d][i][j] <= accepted[d]
      BY <2>2 DEF SRInv, QueueInv
    <3>2. queue[d][i][j] \in Nat
      <4>1. queue[d][i] \in Seq(Nat)
        BY <1>4, <2>2, ElementOfSeq
      <4> QED BY <3>1, <4>1, ElementOfSeq
    <3>3. accepted'[d] \in Nat
      BY <1>5 DEF SRTypes
    <3> QED BY <2>1, <2>2, <3>1, <3>2, <3>3
  <2>3. CASE d = c /\ i = Len(queue[c]) + 1 /\ queue'[d][i] = chunk
    <3>1. j \in 1..k /\ queue'[d][i][j] = accepted[c] + j
      BY <1>3, <2>3
    <3>2. accepted'[d] = accepted[c] + k
      BY <1>6, <2>3
    <3>3. accepted[c] + j <= accepted[c] + k
      BY <1>1, <3>1
    <3> QED BY <3>1, <3>2, <3>3
  <2>4. \/ i \in 1..Len(queue[d]) /\ queue'[d][i] = queue[d][i]
        \/ d = c /\ i = Len(queue[c]) + 1 /\ queue'[d][i] = chunk
    <3>1. CASE d = c
      <4>1. /\ Len(queue'[c]) = Len(queue[c]) + 1 /\ Len(queue[c]) \in Nat
            /\ \A e \in 1..Len(queue[c]) : queue'[c][e] = queue[c][e]
            /\ queue'[c][Len(queue[c]) + 1] = chunk
        BY <1>3, <1>4, <1>6, AppendProperties, LenProperties
      <4>2. i \in 1..Len(queue[c]) \/ i = Len(queue[c]) + 1
        BY <3>1, <4>1
      <4> QED BY <3>1, <4>1, <4>2
    <3>2. CASE d # c
      BY <1>6, <3>2
    <3> QED BY <3>1, <3>2
  <2> QED BY <2>2, <2>3, <2>4
<1>9. FileInv'
  BY <1>2 DEF SRInv, FileInv
<1>10. EndInv'
  <2>1. ASSUME NEW d \in Channels
        PROVE  sure'[d] <= accepted'[d] /\ (~ctxDone' => sure'[d] = accepted'[d])
    <3>1. /\ accepted[d] \in Nat /\ accepted'[d] \in Nat /\ sure[d] \in Nat
          /\ accepted[d] <= accepted'[d]
      <4>1. accepted[d] \in Nat /\ sure[d] \in Nat /\ accepted'[d] \in Nat
        BY <1>5 DEF SRInv, SRTypes
      <4>2. CASE d = c
        BY <1>1, <1>6, <4>1, <4>2
      <4>3. CASE d # c
        BY <1>6, <4>1, <4>3
      <4> QED BY <4>1, <4>2, <4>3
    <3>2. sure[d] <= accepted[d]
      BY DEF SRInv, EndInv
    <3> QED BY <1>2, <3>1, <3>2
  <2>2. run' \in {"draining", "closing", "done"} => ctxDone'
    BY <1>2 DEF SRInv, EndInv
  <2>3. run' \in {"closing", "done"} => AllIsWritten'
    <3>1. SUFFICES ASSUME run' \in {"closing", "done"} PROVE AllIsWritten'
      OBVIOUS
    <3>2. ctxDone /\ AllIsWritten
      BY <1>2, <3>1 DEF SRInv, EndInv
    <3> QED BY <1>2, <3>2 DEF AllIsWritten
  <2> QED BY <2>1, <2>2, <2>3 DEF EndInv
<1>11. HeaderInv'
  BY <1>2 DEF SRInv, HeaderInv
<1> QED BY <1>5, <1>7, <1>8, <1>9, <1>10, <1>11 DEF SRInv

\* A pass of process after x is put behind c's buffer.
LEMMA FilledAndProcessed ==
  ASSUME SRTypes, FileInv, NEW c \in Channels, NEW x \in Seq(Bytes),
         Process([buf EXCEPT ![c] = @ \o x])
  PROVE  /\ written' \in [Channels -> Seq(Bytes)] /\ buf' \in [Channels -> Seq(Bytes)] /\ FileInv'
         /\ written'[c] \o buf'[c] = (written[c] \o buf[c]) \o x
         /\ Len(written'[c]) + Len(buf'[c]) = Len(written[c]) + Len(buf[c]) + Len(x)
         /\ \A d \in Channels \ {c} :
              /\ written'[d] \o buf'[d] = written[d] \o buf[d]
              /\ Len(written'[d]) + Len(buf'[d]) = Len(written[d]) + Len(buf[d])
<1> DEFINE b == [buf EXCEPT ![c] = @ \o x]
<1>1. /\ buf \in [Channels -> Seq(Bytes)]
      /\ \A d \in Channels : buf[d] \in Seq(Bytes) /\ written[d] \in Seq(Bytes)
  BY DEF SRTypes
<1>2. buf[c] \o x \in Seq(Bytes) /\ Len(buf[c] \o x) = Len(buf[c]) + Len(x)
  BY <1>1, Joined
<1>3. /\ b \in [Channels -> Seq(Bytes)] /\ b[c] = buf[c] \o x
      /\ \A d \in Channels \ {c} : b[d] = buf[d]
  BY <1>1, <1>2
<1>4. Process(b)
  OBVIOUS
<1> HIDE DEF b
<1>5. /\ written' \in [Channels -> Seq(Bytes)] /\ buf' \in [Channels -> Seq(Bytes)] /\ FileInv'
      /\ \A d \in Channels :
           /\ written'[d] \o buf'[d] = written[d] \o b[d]
           /\ Len(written'[d]) + Len(buf'[d]) = Len(written[d]) + Len(b[d])
  BY <1>3, <1>4, Processed
<1>6. written'[c] \o buf'[c] = (written[c] \o buf[c]) \o x
  <2>1. ASSUME NEW u \in Seq(Bytes), NEW v \in Seq(Bytes), NEW w \in Seq(Bytes)
        PROVE  (u \o v) \o w = u \o (v \o w)
    BY ONLY <2>1, ConcatAssociative
  <2>2. (written[c] \o buf[c]) \o x = written[c] \o (buf[c] \o x)
    BY <1>1, <2>1
  <2> QED BY <1>3, <1>5, <2>2
<1>7. Len(written'[c]) + Len(buf'[c]) = Len(written[c]) + Len(buf[c]) + Len(x)
  <2>1. Len(written[c]) \in Nat /\ Len(buf[c]) \in Nat /\ Len(x) \in Nat
    BY <1>1, LenProperties
  <2>2. Len(written'[c]) + Len(buf'[c]) = Len(written[c]) + (Len(buf[c]) + Len(x))
    BY <1>2, <1>3, <1>5
  <2>3. ASSUME NEW k \in Nat, NEW l \in Nat, NEW m \in Nat PROVE k + (l + m) = k + l + m
    OBVIOUS
  <2>4. Len(written[c]) + (Len(buf[c]) + Len(x)) = Len(written[c]) + Len(buf[c]) + Len(x)
    BY <2>1, <2>3
  <2> QED BY <2>2, <2>4
<1> QED BY <1>3, <1>5, <1>6, <1>7

\* A stream that a step leaves alone.
LEMMA StreamLeft ==
  ASSUME NEW d \in Channels, NEW n, StreamAt(d, n),
         written'[d] \o buf'[d] = written[d] \o buf[d],
         Len(written'[d]) + Len(buf'[d]) = Len(written[d]) + Len(buf[d]),
         queue'[d] = queue[d], accepted'[d] = accepted[d], run' = run
  PROVE  StreamAt(d, n)'
<1>1. Holds(written'[d] \o buf'[d], n) /\ GoOn(queue'[d], n, accepted'[d])
  BY DEF StreamAt
<1>2. run' \notin {"closing", "done"} => IsEven((Len(written'[d]) + Len(buf'[d])) - n)
  BY DEF StreamAt
<1> QED BY <1>1, <1>2 DEF StreamAt

LEMMA TakeKeeps ==
  ASSUME SRInv, NEW c \in Channels, Take(c)
  PROVE  SRInv'
<1> DEFINE x == Head(queue[c])
<1>1. /\ queue[c] # <<>> /\ run \in {"running", "draining"}
      /\ queue' = [queue EXCEPT ![c] = Tail(@)]
      /\ Process([buf EXCEPT ![c] = @ \o x])
      /\ UNCHANGED <<run, ctxDone, size, accepted, sure>>
  BY DEF Take
<1>2. SRTypes /\ FileInv /\ queue \in [Channels -> Seq(Seq(Nat))]
  BY DEF SRInv, SRTypes
<1>3. PICK n \in 0..accepted[c] : \E k \in Nat \ {0} :
        /\ StreamAt(c, n) /\ n + k \in 0..accepted[c] /\ x = Numbers(n, k)
        /\ GoOn(Tail(queue[c]), n + k, accepted[c])
  BY <1>1, TakenChunk
<1>4. PICK k \in Nat \ {0} :
        /\ StreamAt(c, n) /\ n + k \in 0..accepted[c] /\ x = Numbers(n, k)
        /\ GoOn(Tail(queue[c]), n + k, accepted[c])
  BY <1>3
<1> HIDE DEF x
<1>5. n \in Nat /\ accepted[c] \in Nat
  BY <1>2 DEF SRTypes
<1>6. x \in Seq(Bytes) /\ Len(x) = k
  BY <1>4, <1>5, NumbersAreBytes
<1>7. /\ written' \in [Channels -> Seq(Bytes)] /\ buf' \in [Channels -> Seq(Bytes)] /\ FileInv'
      /\ written'[c] \o buf'[c] = (written[c] \o buf[c]) \o x
      /\ Len(written'[c]) + Len(buf'[c]) = Len(written[c]) + Len(buf[c]) + k
      /\ \A d \in Channels \ {c} :
           /\ written'[d] \o buf'[d] = written[d] \o buf[d]
           /\ Len(written'[d]) + Len(buf'[d]) = Len(written[d]) + Len(buf[d])
  BY <1>1, <1>2, <1>6, FilledAndProcessed
<1>8. /\ Tail(queue[c]) \in Seq(Seq(Nat))
      /\ \A i \in 1..Len(Tail(queue[c])) :
           i + 1 \in 1..Len(queue[c]) /\ Tail(queue[c])[i] = queue[c][i + 1]
  BY <1>1, TailBounded
<1>9. /\ queue' \in [Channels -> Seq(Seq(Nat))] /\ queue'[c] = Tail(queue[c])
      /\ \A d \in Channels \ {c} : queue'[d] = queue[d]
  BY <1>1, <1>2, <1>8
<1>10. SRTypes'
  BY <1>1, <1>2, <1>7, <1>9 DEF SRTypes
<1>11. StreamInv'
  <2> SUFFICES ASSUME NEW d \in Channels PROVE \E m \in 0..accepted'[d] : StreamAt(d, m)'
    BY DEF StreamInv
  <2>1. CASE d = c
    <3>1. Holds(written[c] \o buf[c], n)
      BY <1>4 DEF StreamAt
    <3>2. written[c] \o buf[c] \in Seq(Bytes)
      BY <1>2, Joined DEF SRTypes
    <3>3. Holds(written'[c] \o buf'[c], n + k)
      BY <1>4, <1>5, <1>7, <3>1, <3>2, NumbersAreHeld
    <3>4. GoOn(queue'[c], n + k, accepted'[c])
      BY <1>1, <1>4, <1>9
    <3>5. IsEven((Len(written'[c]) + Len(buf'[c])) - (n + k))
      <4>1. IsEven((Len(written[c]) + Len(buf[c])) - n)
        BY <1>1, <1>4 DEF StreamAt
      <4>2. Len(written[c]) \in Nat /\ Len(buf[c]) \in Nat
        BY <1>2, LenProperties DEF SRTypes
      <4>3. (Len(written'[c]) + Len(buf'[c])) - (n + k) = (Len(written[c]) + Len(buf[c])) - n
        <5>1. ASSUME NEW a \in Nat, NEW b \in Nat, NEW e \in Nat, NEW f \in Nat
              PROVE  ((a + b) + e) - (f + e) = (a + b) - f
          OBVIOUS
        <5>2. ((Len(written[c]) + Len(buf[c])) + k) - (n + k) = (Len(written[c]) + Len(buf[c])) - n
          BY <1>5, <4>2, <5>1
        <5> QED BY <1>7, <5>2
      <4> QED BY <4>1, <4>3
    <3> QED BY <1>1, <1>4, <2>1, <3>3, <3>4, <3>5 DEF StreamAt
  <2>2. CASE d # c
    <3>1. PICK m \in 0..accepted[d] : StreamAt(d, m)
      BY DEF SRInv, StreamInv
    <3>2. d \in Channels \ {c}
      BY <2>2
    <3>3. StreamAt(d, m)'
      BY <1>1, <1>7, <1>9, <3>1, <3>2, StreamLeft
    <3> QED BY <1>1, <3>1, <3>3
  <2> QED BY <2>1, <2>2
<1>12. QueueInv'
  <2> SUFFICES ASSUME NEW d \in Channels, NEW i \in 1..Len(queue'[d]),
                      NEW j \in 1..Len(queue'[d][i])
               PROVE  queue'[d][i][j] <= accepted'[d]
    BY DEF QueueInv
  <2>1. CASE d = c
    BY <1>1, <1>8, <1>9, <2>1 DEF SRInv, QueueInv
  <2>2. CASE d # c
    BY <1>1, <1>9, <2>2 DEF SRInv, QueueInv
  <2> QED BY <2>1, <2>2
<1>13. EndInv'
  BY <1>1 DEF SRInv, EndInv
<1>14. HeaderInv'
  BY <1>1, ProcessKeepsHeader DEF SRInv
<1> QED BY <1>7, <1>10, <1>11, <1>12, <1>13, <1>14 DEF SRInv

LEMMA HandleSilenceKeeps ==
  ASSUME SRInv, NEW c \in Channels, HandleSilence(c)
  PROVE  SRInv'
<1> DEFINE lag == Len(buf[Other(c)]) - Len(buf[c])
           x == Silence(Even(lag))
<1>1. /\ run = "running" /\ lag > Threshold
      /\ Process([buf EXCEPT ![c] = @ \o x])
      /\ UNCHANGED <<run, ctxDone, queue, size, accepted, sure>>
  BY DEF HandleSilence, Lags
<1>2. SRTypes /\ FileInv
  BY DEF SRInv
<1>3. lag \in Nat
  <2>1. Other(c) \in Channels
    BY DEF Other, Channels
  <2>2. Len(buf[Other(c)]) \in Nat /\ Len(buf[c]) \in Nat
    BY <1>2, <2>1, LenProperties DEF SRTypes
  <2>3. ASSUME NEW k \in Nat, NEW l \in Nat, NEW m \in Nat, k - l > m PROVE k - l \in Nat
    BY <2>3
  <2>4. Threshold \in Nat
    BY StereoRecorderConstants
  <2> QED BY <1>1, <2>2, <2>3, <2>4
<1> HIDE DEF lag
<1>4. Even(lag) \in Nat /\ IsEven(Even(lag))
  BY <1>3, EvenOf
<1>5. x \in Seq(Bytes) /\ Len(x) = Even(lag)
  BY <1>4, SilenceIsPads
<1>6. /\ written' \in [Channels -> Seq(Bytes)] /\ buf' \in [Channels -> Seq(Bytes)] /\ FileInv'
      /\ written'[c] \o buf'[c] = (written[c] \o buf[c]) \o x
      /\ Len(written'[c]) + Len(buf'[c]) = Len(written[c]) + Len(buf[c]) + Len(x)
      /\ \A d \in Channels \ {c} :
           /\ written'[d] \o buf'[d] = written[d] \o buf[d]
           /\ Len(written'[d]) + Len(buf'[d]) = Len(written[d]) + Len(buf[d])
  BY <1>1, <1>2, <1>5, FilledAndProcessed
<1>7. SRTypes'
  BY <1>1, <1>2, <1>6 DEF SRTypes
<1>8. StreamInv'
  <2> SUFFICES ASSUME NEW d \in Channels PROVE \E m \in 0..accepted'[d] : StreamAt(d, m)'
    BY DEF StreamInv
  <2>1. PICK n \in 0..accepted[d] : StreamAt(d, n)
    BY DEF SRInv, StreamInv
  <2>2. CASE d = c
    <3>1. n \in Nat
      BY <1>2 DEF SRTypes
    <3>2. Holds(written'[c] \o buf'[c], n)
      <4>1. written[c] \o buf[c] \in Seq(Bytes)
        BY <1>2, Joined DEF SRTypes
      <4>2. Holds(written[c] \o buf[c], n)
        BY <2>1, <2>2 DEF StreamAt
      <4>3. Holds((written[c] \o buf[c]) \o x, n)
        BY <1>4, <3>1, <4>1, <4>2, SilenceHoldsNothing
      <4> QED BY <1>6, <4>3
    <3>3. IsEven((Len(written'[c]) + Len(buf'[c])) - n)
      <4>1. Len(written[c]) \in Nat /\ Len(buf[c]) \in Nat
        BY <1>2, LenProperties DEF SRTypes
      <4>2. IsEven((Len(written[c]) + Len(buf[c])) - n)
        BY <1>1, <2>1, <2>2 DEF StreamAt
      <4>3. IsEven(Even(lag) + ((Len(written[c]) + Len(buf[c])) - n))
        <5>1. ASSUME NEW a \in Int, NEW b \in Int, IsEven(a), IsEven(b) PROVE IsEven(a + b)
          BY <5>1, EvenSum
        <5>2. (Len(written[c]) + Len(buf[c])) - n \in Int /\ Even(lag) \in Int
          BY <1>4, <3>1, <4>1
        <5> QED BY <1>4, <4>2, <5>1, <5>2
      <4>4. (Len(written'[c]) + Len(buf'[c])) - n = Even(lag) + ((Len(written[c]) + Len(buf[c])) - n)
        <5> DEFINE a == Len(written[c])
                   b == Len(buf[c])
                   e == Even(lag)
        <5>1. a \in Nat /\ b \in Nat /\ e \in Nat /\ n \in Nat
          BY <1>4, <3>1, <4>1
        <5>2. Len(written'[c]) + Len(buf'[c]) = a + b + e
          BY <1>5, <1>6
        <5> HIDE DEF a, b, e
        <5>3. (a + b + e) - n = e + ((a + b) - n)
          BY <5>1
        <5> QED BY <5>2, <5>3 DEF a, b, e
      <4> QED BY <4>3, <4>4
    <3>4. GoOn(queue'[c], n, accepted'[c])
      BY <1>1, <2>1, <2>2 DEF StreamAt
    <3> QED BY <1>1, <2>1, <2>2, <3>2, <3>3, <3>4 DEF StreamAt
  <2>3. CASE d # c
    <3>1. d \in Channels \ {c}
      BY <2>3
    <3>2. StreamAt(d, n)'
      BY <1>1, <1>6, <2>1, <3>1, StreamLeft
    <3> QED BY <1>1, <2>1, <3>2
  <2> QED BY <2>2, <2>3
<1>9. QueueInv'
  BY <1>1 DEF SRInv, QueueInv
<1>10. EndInv'
  BY <1>1 DEF SRInv, EndInv
<1>11. HeaderInv'
  BY <1>1, ProcessKeepsHeader DEF SRInv
<1> QED BY <1>6, <1>7, <1>8, <1>9, <1>10, <1>11 DEF SRInv

\* What flush writes: of each channel its stream, and the silence behind it.
LEMMA Flushed ==
  ASSUME SRTypes, FileInv, Flush
  PROVE  \E most \in Nat : \E pad \in [Channels -> Nat] :
           /\ IsEven(most)
           /\ written' \in [Channels -> Seq(Bytes)] /\ buf' \in [Channels -> Seq(Bytes)] /\ FileInv'
           /\ \A c \in Channels :
                /\ written'[c] \o buf'[c] = (written[c] \o buf[c]) \o Silence(pad[c])
                /\ Len(written'[c]) = Len(written[c]) + most /\ Len(buf[c]) <= most + 1
                /\ IsEven(Len(buf[c])) => IsEven(pad[c])
<1> DEFINE more == Greater(Len(buf["left"]), Len(buf["right"]))
           most == Even(more)
           pad == [c \in Channels |-> IF Len(buf[c]) < most THEN most - Len(buf[c]) ELSE 0]
           b == [c \in Channels |-> buf[c] \o Silence(pad[c])]
<1>1. \A c \in Channels : /\ written[c] \in Seq(Bytes) /\ buf[c] \in Seq(Bytes) /\ Len(buf[c]) \in Nat
  BY LenProperties DEF SRTypes
<1>2. more \in Nat /\ \A c \in Channels : Len(buf[c]) <= more
  BY <1>1 DEF Greater, Channels
<1>3. WriteInterleaved(b, most)
  <2>1. b = [c \in Channels |->
              buf[c] \o Silence(IF Len(buf[c]) < most THEN most - Len(buf[c]) ELSE 0)]
    OBVIOUS
  <2> QED BY <2>1 DEF Flush
<1> HIDE DEF more
<1>4. most \in Nat /\ most <= more /\ more <= most + 1 /\ IsEven(most)
  BY <1>2, EvenOf
<1> HIDE DEF most
<1>5. ASSUME NEW c \in Channels
      PROVE  /\ pad[c] \in Nat /\ Len(buf[c]) + pad[c] >= most /\ Len(buf[c]) <= most + 1
             /\ IsEven(Len(buf[c])) => IsEven(pad[c])
  <2>1. pad[c] = IF Len(buf[c]) < most THEN most - Len(buf[c]) ELSE 0
    OBVIOUS
  <2>2. Len(buf[c]) \in Nat /\ Len(buf[c]) <= more
    BY <1>1, <1>2
  <2> HIDE DEF pad
  <2>3. IsEven(0)
    BY DEF IsEven
  <2>4. IsEven(Len(buf[c])) => IsEven(most - Len(buf[c]))
    <3>1. most \in Int /\ Len(buf[c]) \in Int
      BY <1>4, <2>2
    <3> QED BY <1>4, <3>1, EvenRest
  <2>5. IsEven(Len(buf[c])) => IsEven(pad[c])
    BY <2>1, <2>3, <2>4
  <2>6. pad[c] \in Nat /\ Len(buf[c]) + pad[c] >= most /\ Len(buf[c]) <= most + 1
    <3>1. ASSUME NEW l \in Nat, NEW m \in Nat, NEW a \in Nat, NEW e,
                 l <= a, a <= m + 1, e = IF l < m THEN m - l ELSE 0
          PROVE  e \in Nat /\ l + e >= m /\ l <= m + 1
      BY <3>1
    <3> QED BY <1>2, <1>4, <2>1, <2>2, <3>1
  <2> QED BY <2>5, <2>6
<1>6. pad \in [Channels -> Nat]
  BY <1>5
<1> HIDE DEF pad
<1>7. ASSUME NEW c \in Channels
      PROVE  /\ b[c] \in Seq(Bytes) /\ most <= Len(b[c])
             /\ written[c] \o b[c] = (written[c] \o buf[c]) \o Silence(pad[c])
  <2>1. Silence(pad[c]) \in Seq(Bytes) /\ Len(Silence(pad[c])) = pad[c]
    BY <1>5, SilenceIsPads
  <2>2. b[c] = buf[c] \o Silence(pad[c])
    OBVIOUS
  <2> HIDE DEF b
  <2>3. b[c] \in Seq(Bytes) /\ Len(b[c]) = Len(buf[c]) + pad[c]
    <3>1. ASSUME NEW u \in Seq(Bytes), NEW v \in Seq(Bytes)
          PROVE  u \o v \in Seq(Bytes) /\ Len(u \o v) = Len(u) + Len(v)
      BY ONLY <3>1, Joined
    <3> QED BY <1>1, <2>1, <2>2, <3>1
  <2>4. ASSUME NEW u \in Seq(Bytes), NEW v \in Seq(Bytes), NEW w \in Seq(Bytes)
        PROVE  (u \o v) \o w = u \o (v \o w)
    BY ONLY <2>4, ConcatAssociative
  <2>5. (written[c] \o buf[c]) \o Silence(pad[c]) = written[c] \o (buf[c] \o Silence(pad[c]))
    BY <1>1, <2>1, <2>4
  <2>6. most <= Len(b[c])
    BY <1>1, <1>4, <1>5, <2>3
  <2> QED BY <2>2, <2>3, <2>5, <2>6
<1>8. b \in [Channels -> Seq(Bytes)]
  BY <1>7
<1> HIDE DEF b
<1>9. /\ written' \in [Channels -> Seq(Bytes)] /\ buf' \in [Channels -> Seq(Bytes)] /\ FileInv'
      /\ \A c \in Channels :
           /\ written'[c] \o buf'[c] = written[c] \o b[c]
           /\ Len(written'[c]) = Len(written[c]) + most /\ Len(buf'[c]) = Len(b[c]) - most
  BY <1>3, <1>4, <1>7, <1>8, Written
<1> QED BY <1>4, <1>5, <1>6, <1>7, <1>9

\* Of a stream of n bytes an odd one at the end is the n-th, and n is odd.
LEMMA OnlyAnOddByteIsLeft ==
  ASSUME NEW s \in Seq(Bytes), NEW n \in Nat, Holds(s, n), IsEven(Len(s) - n), ~IsEven(Len(s)),
         NEW k \in 1..n, NEW i, Place(s, i), s[i] = k, i = Len(s)
  PROVE  k = n /\ ~IsEven(n)
<1>1. Len(s) \in Nat
  BY LenProperties
<1>2. ~IsEven(n)
  <2>1. ASSUME IsEven(n) PROVE FALSE
    <3>1. IsEven(n + (Len(s) - n)) <=> IsEven(Len(s) - n)
      BY <1>1, <2>1, EvenSum
    <3>2. n + (Len(s) - n) = Len(s)
      BY <1>1
    <3> QED BY <3>1, <3>2
  <2> QED BY <2>1
<1>3. k = n
  <2>1. PICK j : Place(s, j) /\ s[j] = n
    <3>1. n \in 1..n
      OBVIOUS
    <3> QED BY <3>1, HoldsAtPlaces
  <2>2. j = i \/ j < i
    BY <1>1, <2>1 DEF Place
  <2>3. CASE j < i
    <3>1. s[j] < s[i]
      BY <2>1, <2>3, HoldsAtPlaces
    <3> QED BY <2>1, <3>1
  <2> QED BY <2>1, <2>2, <2>3
<1> QED BY <1>2, <1>3

LEMMA FlushKeeps ==
  ASSUME SRInv, Flush
  PROVE  SRInv'
<1>1. /\ run = "draining" /\ Drained /\ run' = "closing"
      /\ UNCHANGED <<ctxDone, queue, size, accepted, sure>>
  BY DEF Flush
<1>2. SRTypes /\ FileInv
  BY DEF SRInv
<1>3. PICK most \in Nat : \E pad \in [Channels -> Nat] :
        /\ IsEven(most)
        /\ written' \in [Channels -> Seq(Bytes)] /\ buf' \in [Channels -> Seq(Bytes)] /\ FileInv'
        /\ \A c \in Channels :
             /\ written'[c] \o buf'[c] = (written[c] \o buf[c]) \o Silence(pad[c])
             /\ Len(written'[c]) = Len(written[c]) + most /\ Len(buf[c]) <= most + 1
  BY <1>2, Flushed
<1>4. PICK pad \in [Channels -> Nat] :
        /\ IsEven(most)
        /\ written' \in [Channels -> Seq(Bytes)] /\ buf' \in [Channels -> Seq(Bytes)] /\ FileInv'
        /\ \A c \in Channels :
             /\ written'[c] \o buf'[c] = (written[c] \o buf[c]) \o Silence(pad[c])
             /\ Len(written'[c]) = Len(written[c]) + most /\ Len(buf[c]) <= most + 1
  BY <1>3
<1>5. SRTypes'
  BY <1>1, <1>2, <1>4 DEF SRTypes
<1>6. ASSUME NEW c \in Channels
      PROVE  \E n \in 0..accepted'[c] :
               /\ StreamAt(c, n)'
               /\ \A k \in 1..Even(sure'[c]) : \E i \in 1..Len(written'[c]) : written'[c][i] = k
  <2> DEFINE s == written[c] \o buf[c]
  <2>1. PICK n \in 0..accepted[c] : StreamAt(c, n)
    BY DEF SRInv, StreamInv
  <2>2. /\ accepted[c] \in Nat /\ n \in Nat /\ sure[c] \in Nat
        /\ written[c] \in Seq(Bytes) /\ buf[c] \in Seq(Bytes)
    BY <1>2 DEF SRTypes
  <2>3. /\ s \in Seq(Bytes) /\ Len(s) = Len(written[c]) + Len(buf[c])
        /\ Len(written[c]) \in Nat /\ Len(buf[c]) \in Nat
    BY <2>2, Joined
  <2>4. Holds(s, n) /\ GoOn(queue[c], n, accepted[c])
    BY <2>1 DEF StreamAt
  <2>5. IsEven(Len(s) - n)
    <3>1. run \notin {"closing", "done"}
      BY <1>1
    <3>2. IsEven((Len(written[c]) + Len(buf[c])) - n)
      BY <2>1, <3>1 DEF StreamAt
    <3> QED BY <2>3, <3>2
  <2>6. /\ written'[c] \o buf'[c] = s \o Silence(pad[c]) /\ pad[c] \in Nat
        /\ Len(written'[c]) = Len(written[c]) + most /\ Len(buf[c]) <= most + 1
        /\ written'[c] \in Seq(Bytes) /\ buf'[c] \in Seq(Bytes)
    BY <1>4
  <2> HIDE DEF s
  <2>7. StreamAt(c, n)'
    <3>1. Holds(written'[c] \o buf'[c], n)
      BY <2>2, <2>3, <2>4, <2>6, SilenceHoldsNothing
    <3> QED BY <1>1, <2>4, <3>1 DEF StreamAt
  <2>8. n = accepted[c]
    <3>1. queue[c] = <<>>
      BY <1>1 DEF Drained
    <3> QED BY <2>4, <3>1 DEF GoOn
  <2>9. IsEven(Len(written[c]))
    <3>1. Len(written[c]) = Len(written["left"])
      BY <1>2 DEF FileInv, Channels
    <3> QED BY <1>2, <3>1 DEF FileInv
  <2>10. sure[c] <= n
    BY <2>8 DEF SRInv, EndInv
  <2>11. ASSUME NEW k \in 1..Even(sure[c]) PROVE \E i \in 1..Len(written'[c]) : written'[c][i] = k
    <3>1. Even(sure[c]) \in Nat /\ Even(sure[c]) <= sure[c]
      BY <2>2, EvenOf
    <3>2. k \in 1..n
      BY <2>2, <2>10, <3>1
    <3>3. PICK i : Place(s, i) /\ s[i] = k
      BY <2>4, <3>2, HoldsAtPlaces
    <3>4. i \in 1..Len(s)
      BY <3>3 DEF Place
    <3>5. CASE i <= Len(written'[c])
      <4>1. i \in 1..Len(written'[c])
        BY <2>3, <2>6, <3>4, <3>5
      <4>2. (written'[c] \o buf'[c])[i] = written'[c][i]
        BY <2>6, <4>1, Joined
      <4>3. (s \o Silence(pad[c]))[i] = s[i]
        <5>1. Silence(pad[c]) \in Seq(Bytes)
          BY <2>6, SilenceIsPads
        <5> QED BY <2>3, <3>4, <5>1, Joined
      <4> QED BY <2>6, <3>3, <4>1, <4>2, <4>3
    <3>6. CASE ~(i <= Len(written'[c]))
      <4>1. i = Len(s) /\ Len(s) = (Len(written[c]) + most) + 1
        <5>1. ASSUME NEW f \in Nat, NEW l \in Nat, l <= most + 1,
                     NEW j \in 1..(f + l), ~(j <= f + most)
              PROVE  j = f + l /\ f + l = (f + most) + 1
          BY <5>1
        <5> QED BY <2>3, <2>6, <3>4, <3>6, <5>1
      <4>2. ~IsEven(Len(s))
        <5>1. IsEven(Len(written[c]) + most)
          <6>1. Len(written[c]) \in Int /\ most \in Int
            BY <2>3
          <6> QED BY <1>4, <2>9, <6>1, EvenSum
        <5>2. ASSUME NEW e \in Int, IsEven(e) PROVE ~IsEven(e + 1)
          BY <5>2 DEF IsEven
        <5>3. Len(written[c]) + most \in Int
          BY <2>3
        <5> QED BY <4>1, <5>1, <5>2, <5>3
      <4>3. k = n /\ ~IsEven(n)
        BY <2>2, <2>3, <2>4, <2>5, <3>2, <3>3, <4>1, <4>2, OnlyAnOddByteIsLeft
      <4>4. Even(sure[c]) < n
        BY <2>2, <2>10, <4>3, EvenBelowOdd
      <4> QED BY <3>1, <4>3, <4>4
    <3> QED BY <3>5, <3>6
  <2> QED BY <1>1, <2>1, <2>7, <2>11
<1>7. StreamInv'
  BY <1>6 DEF StreamInv
<1>8. QueueInv'
  BY <1>1 DEF SRInv, QueueInv
<1>9. EndInv'
  <2>2. AllIsWritten'
    BY <1>6 DEF AllIsWritten
  <2>3. ctxDone'
    BY <1>1 DEF SRInv, EndInv
  <2>4. \A c \in Channels : sure'[c] <= accepted'[c] /\ (~ctxDone' => sure'[c] = accepted'[c])
    BY <1>1 DEF SRInv, EndInv
  <2> QED BY <2>2, <2>3, <2>4 DEF EndInv
<1>10. HeaderInv'
  <2>1. \E b, n : WriteInterleaved(b, n)
    BY DEF Flush
  <2>2. HeaderInv /\ run # "done" /\ run' # "done"
    BY <1>1 DEF SRInv
  <2> QED BY <1>1, <2>1, <2>2, WriteKeepsHeader
<1> QED BY <1>4, <1>5, <1>7, <1>8, <1>9, <1>10 DEF SRInv

LEMMA CloseWriterKeeps ==
  ASSUME SRInv, CloseWriter
  PROVE  SRInv'
<1>1. /\ run = "closing" /\ run' = "done"
      /\ UNCHANGED <<ctxDone, queue, buf, written, accepted, sure>>
  BY DEF CloseWriter
<1>2. SRTypes' /\ StreamInv' /\ QueueInv' /\ FileInv'
  BY <1>1 DEF SRInv, SRTypes, StreamInv, StreamAt, QueueInv, FileInv
<1>3. EndInv'
  BY <1>1 DEF SRInv, EndInv, AllIsWritten
<1>4. HeaderInv'
  <2>1. size = 0 /\ broken \in BOOLEAN
    BY <1>1 DEF SRInv, HeaderInv
  <2>2. CASE broken' = TRUE /\ UNCHANGED size
    BY <2>1, <2>2 DEF HeaderInv
  <2>3. CASE broken' = FALSE /\ disk' = DataBytes(written) /\ size' = DataBytes(written)
    <3>1. DataBytes(written') = DataBytes(written)
      BY <1>1
    <3> QED BY <1>1, <2>3, <3>1 DEF HeaderInv
  <2>4. \/ broken' = TRUE /\ UNCHANGED size
        \/ broken' = FALSE /\ disk' = DataBytes(written) /\ size' = DataBytes(written)
    BY <2>1 DEF CloseWriter, WriteFails
  <2> QED BY <2>2, <2>3, <2>4
<1> QED BY <1>2, <1>3, <1>4 DEF SRInv

LEMMA StartsSound == SRInit => SRInv
<1> SUFFICES ASSUME SRInit PROVE SRInv
  OBVIOUS
<1>1. /\ run = "starting" /\ ctxDone = FALSE /\ size = 0 /\ broken = FALSE
      /\ \A c \in Channels : /\ queue[c] = <<>> /\ buf[c] = <<>> /\ written[c] = <<>>
                             /\ accepted[c] = 0 /\ sure[c] = 0
  BY DEF SRInit
<1>2. SRTypes
  <2>1. <<>> \in Seq(Seq(Nat)) /\ <<>> \in Seq(Bytes)
    BY EmptySeq
  <2> QED BY <2>1 DEF SRInit, SRTypes
<1>3. StreamInv
  <2> SUFFICES ASSUME NEW c \in Channels PROVE \E n \in 0..accepted[c] : StreamAt(c, n)
    BY DEF StreamInv
  <2>1. /\ written[c] \o buf[c] \in Seq(Bytes) /\ Len(written[c] \o buf[c]) = 0
        /\ Len(written[c]) = 0 /\ Len(buf[c]) = 0
    <3>1. written[c] \in Seq(Bytes) /\ buf[c] \in Seq(Bytes) /\ Len(written[c]) = 0 /\ Len(buf[c]) = 0
      BY <1>1, EmptySeq
    <3>2. Len(written[c] \o buf[c]) = Len(written[c]) + Len(buf[c]) /\ written[c] \o buf[c] \in Seq(Bytes)
      BY <3>1, Joined
    <3> QED BY <3>1, <3>2
  <2>2. Holds(written[c] \o buf[c], 0)
    <3>1. \A i : ~Place(written[c] \o buf[c], i)
      BY <2>1 DEF Place
    <3> QED BY <3>1, HoldsAtPlaces
  <2>3. GoOn(queue[c], 0, accepted[c])
    BY <1>1, EmptySeq DEF GoOn
  <2>4. IsEven((Len(written[c]) + Len(buf[c])) - 0)
    BY <2>1 DEF IsEven
  <2>5. 0 \in 0..accepted[c]
    BY <1>1
  <2> QED BY <2>2, <2>3, <2>4, <2>5 DEF StreamAt
<1>4. QueueInv
  BY <1>1, EmptySeq DEF QueueInv
<1>5. FileInv
  <2>1. Len(written["left"]) = 0 /\ Len(written["right"]) = 0
    BY <1>1, EmptySeq DEF Channels
  <2>2. IsEven(0)
    BY DEF IsEven
  <2> QED BY <2>1, <2>2 DEF FileInv
<1>6. EndInv
  BY <1>1 DEF EndInv
<1>7. HeaderInv
  BY <1>1 DEF HeaderInv
<1> QED BY <1>2, <1>3, <1>4, <1>5, <1>6, <1>7 DEF SRInv

\* Steps that only start, cancel or drain.
LEMMA RunKeeps ==
  ASSUME SRInv, Start \/ Cancel \/ Drain
  PROVE  SRInv'
<1>1. /\ UNCHANGED <<queue, buf, written, disk, broken, size, accepted, sure>>
      /\ run' \in {"starting", "running", "draining", "closing", "done", "failed"}
      /\ ctxDone' \in BOOLEAN /\ (ctxDone => ctxDone')
      /\ run' = "draining" => ctxDone'
      /\ run' = "done" <=> run = "done"
      /\ run' = "closing" <=> run = "closing"
  BY DEF SRInv, SRTypes, EndInv, Start, Cancel, Drain, wav
<1>2. SRTypes'
  BY <1>1 DEF SRInv, SRTypes
<1>3. StreamInv'
  BY <1>1 DEF SRInv, StreamInv, StreamAt
<1>4. QueueInv' /\ FileInv'
  BY <1>1 DEF SRInv, QueueInv, FileInv
<1>5. EndInv'
  <2>1. AllIsWritten => AllIsWritten'
    BY <1>1 DEF AllIsWritten
  <2> QED BY <1>1, <2>1 DEF SRInv, EndInv
<1>6. HeaderInv'
  BY <1>1 DEF SRInv, HeaderInv
<1> QED BY <1>2, <1>3, <1>4, <1>5, <1>6 DEF SRInv

LEMMA SRStep == SRInv /\ [SRNext]_srVars => SRInv'
<1> SUFFICES ASSUME SRInv, [SRNext]_srVars PROVE SRInv'
  OBVIOUS
<1>1. CASE UNCHANGED srVars
  BY <1>1 DEF srVars, SRInv, SRTypes, StreamInv, StreamAt, QueueInv, FileInv, EndInv,
              AllIsWritten, HeaderInv
<1>2. ASSUME NEW c \in Channels, NEW k \in Chunks[c], Push(c, k) PROVE SRInv'
  BY <1>2, PushKeeps
<1>3. ASSUME NEW c \in Channels, Take(c) PROVE SRInv'
  BY <1>3, TakeKeeps
<1>4. ASSUME NEW c \in Channels, HandleSilence(c) PROVE SRInv'
  BY <1>4, HandleSilenceKeeps
<1>5. CASE Start \/ Cancel \/ Drain
  BY <1>5, RunKeeps
<1>6. CASE Flush
  BY <1>6, FlushKeeps
<1>7. CASE CloseWriter
  BY <1>7, CloseWriterKeeps
<1> QED BY <1>1, <1>2, <1>3, <1>4, <1>5, <1>6, <1>7 DEF SRNext

LEMMA HalfOf ==
  ASSUME NEW n \in Nat, IsEven(n)
  PROVE  \E h \in Nat : n = 2 * h
<1>1. n \div 2 \in Nat /\ n = 2 * (n \div 2)
  BY DEF IsEven
<1> QED BY <1>1

\* A file that has everything has all bytes of each channel.
LEMMA AllOnDisk ==
  ASSUME SRInv, disk = DataBytes(written), NEW c \in Channels
  PROVE  OnDisk(c) = written[c]
<1>1. /\ written[c] \in Seq(Bytes) /\ Len(written[c]) = Len(written["left"])
      /\ Len(written["left"]) \in Nat /\ IsEven(Len(written["left"]))
  BY LenProperties DEF SRInv, SRTypes, FileInv, Channels
<1>2. PICK h \in Nat : Len(written["left"]) = 2 * h
  BY <1>1, HalfOf
<1>3. disk = 4 * h
  BY <1>2 DEF DataBytes
<1>4. InFile(c) = 2 * h
  <2>1. disk \div 4 = h /\ disk % 4 = 0
    BY <1>3
  <2>2. Lesser(0, 2) = 0 /\ Greater(0, 2) - 2 = 0
    BY DEF Lesser, Greater
  <2> QED BY <2>1, <2>2 DEF InFile
<1>5. OnDisk(c) = SubSeq(written[c], 1, Len(written[c]))
  BY <1>1, <1>2, <1>4 DEF OnDisk
<1> QED BY <1>1, <1>5, SubSeqFull

\* What each side was given is handed to the file once and in its order, whichever of
\* its writes fails; when the recording is finished without an error, all of it but an
\* odd byte is in the file and the header tells its size, and after an error it tells
\* none.  (run, process, handleSilence, writeInterleaved, flush, FastWavWriter.Close)
THEOREM RecordingIsComplete == SRSpec => []RecordingIsFaithful
<1>1. SRInv => RecordingIsFaithful
  <2> SUFFICES ASSUME SRInv PROVE RecordingIsFaithful
    OBVIOUS
  <2>1. ASSUME run = "done", ~broken
        PROVE  /\ size = disk
               /\ \A c \in Channels : \A k \in 1..Even(sure[c]) :
                    \E i \in 1..Len(OnDisk(c)) : OnDisk(c)[i] = k
    <3>1. size = disk /\ disk = DataBytes(written)
      BY <2>1 DEF SRInv, HeaderInv
    <3>2. AllIsWritten
      BY <2>1 DEF SRInv, EndInv
    <3> QED BY <3>1, <3>2, AllOnDisk DEF AllIsWritten
  <2>2. broken => size = 0
    BY DEF SRInv, HeaderInv
  <2>3. \A c \in Channels : \E n \in 0..accepted[c] :
          Holds(written[c] \o buf[c], n) /\ GoOn(queue[c], n, accepted[c])
    BY DEF SRInv, StreamInv, StreamAt
  <2>4. Len(written["left"]) = Len(written["right"])
    BY DEF SRInv, FileInv
  <2> QED BY <2>1, <2>2, <2>3, <2>4 DEF RecordingIsFaithful
<1> QED BY StartsSound, SRStep, <1>1, PTL DEF SRSpec

----------------------------------------------------------------------------
(* Whole samples                                                            *)

Sample(low, high) ==
  \/ low = Pad /\ high = Pad
  \/ low # Pad /\ low % 2 = 1 /\ high = low + 1

Whole(s) ==
  /\ IsEven(Len(s))
  /\ \A i \in Nat \ {0} : 2 * i <= Len(s) => Sample(s[2 * i - 1], s[2 * i])

WholeInv ==
  \A c \in Channels : (\A n \in Chunks[c] : IsEven(n)) =>
    /\ IsEven(accepted[c]) /\ Whole(written[c] \o buf[c])
    /\ \A i \in 1..Len(queue[c]) : IsEven(Len(queue[c][i]))

LEMMA WholeJoined ==
  ASSUME NEW s \in Seq(Bytes), NEW t \in Seq(Bytes), Whole(s), Whole(t)
  PROVE  Whole(s \o t)
<1>1. /\ Len(s) \in Nat /\ Len(t) \in Nat /\ Len(s \o t) = Len(s) + Len(t)
      /\ \A i \in 1..Len(s) : (s \o t)[i] = s[i]
      /\ \A i \in 1..Len(t) : (s \o t)[Len(s) + i] = t[i]
  BY Joined
<1>2. IsEven(Len(s)) /\ IsEven(Len(t))
  BY DEF Whole
<1>3. IsEven(Len(s \o t))
  <2>1. Len(s) \in Int /\ Len(t) \in Int
    BY <1>1
  <2> QED BY <1>1, <1>2, <2>1, EvenSum
<1>4. PICK h \in Nat : Len(s) = 2 * h
  BY <1>1, <1>2, HalfOf
<1>5. ASSUME NEW i \in Nat \ {0}, 2 * i <= Len(s \o t)
      PROVE  Sample((s \o t)[2 * i - 1], (s \o t)[2 * i])
  <2>1. CASE i <= h
    <3>1. 2 * i <= Len(s) /\ 2 * i - 1 \in 1..Len(s) /\ 2 * i \in 1..Len(s)
      BY <1>4, <2>1
    <3>2. Sample(s[2 * i - 1], s[2 * i])
      BY <3>1 DEF Whole
    <3> QED BY <1>1, <3>1, <3>2
  <2>2. CASE ~(i <= h)
    <3>1. PICK j \in Nat \ {0} : i = h + j
      <4>1. i - h \in Nat \ {0} /\ i = h + (i - h)
        BY <2>2
      <4> QED BY <4>1
    <3>2. ASSUME NEW l \in Nat, NEW m \in Nat, l = 2 * h, 2 * i <= l + m
          PROVE  /\ 2 * j <= m /\ 2 * j - 1 \in 1..m /\ 2 * j \in 1..m
                 /\ 2 * i - 1 = l + (2 * j - 1) /\ 2 * i = l + 2 * j
      BY <3>1, <3>2
    <3>3. /\ 2 * j <= Len(t) /\ 2 * j - 1 \in 1..Len(t) /\ 2 * j \in 1..Len(t)
          /\ 2 * i - 1 = Len(s) + (2 * j - 1) /\ 2 * i = Len(s) + 2 * j
      BY <1>1, <1>4, <1>5, <3>2
    <3>4. Sample(t[2 * j - 1], t[2 * j])
      BY <3>3 DEF Whole
    <3>5. (s \o t)[Len(s) + (2 * j - 1)] = t[2 * j - 1] /\ (s \o t)[Len(s) + 2 * j] = t[2 * j]
      BY <1>1, <3>3
    <3> QED BY <3>3, <3>4, <3>5
  <2> QED BY <2>1, <2>2
<1> QED BY <1>3, <1>5 DEF Whole

\* The first part, of whole samples, of a sequence of whole samples.
LEMMA WholeFront ==
  ASSUME NEW s \in Seq(Bytes), NEW t \in Seq(Bytes), Whole(s \o t), IsEven(Len(s))
  PROVE  Whole(s)
<1>1. /\ Len(s) \in Nat /\ Len(t) \in Nat /\ Len(s \o t) = Len(s) + Len(t)
      /\ \A i \in 1..Len(s) : (s \o t)[i] = s[i]
  BY Joined
<1>2. ASSUME NEW i \in Nat \ {0}, 2 * i <= Len(s)
      PROVE  Sample(s[2 * i - 1], s[2 * i])
  <2>1. 2 * i - 1 \in 1..Len(s) /\ 2 * i \in 1..Len(s) /\ 2 * i <= Len(s \o t)
    BY <1>1, <1>2
  <2>2. Sample((s \o t)[2 * i - 1], (s \o t)[2 * i])
    BY <2>1 DEF Whole
  <2> QED BY <1>1, <2>1, <2>2
<1> QED BY <1>2 DEF Whole

LEMMA WholeSilence ==
  ASSUME NEW k \in Nat, IsEven(k)
  PROVE  Whole(Silence(k))
<1>1. Len(Silence(k)) = k /\ \A i \in 1..k : Silence(k)[i] = Pad
  BY SilenceIsPads
<1>2. ASSUME NEW i \in Nat \ {0}, 2 * i <= k
      PROVE  Sample(Silence(k)[2 * i - 1], Silence(k)[2 * i])
  <2>1. 2 * i - 1 \in 1..k /\ 2 * i \in 1..k
    BY <1>2
  <2> QED BY <1>1, <2>1 DEF Sample
<1> QED BY <1>1, <1>2 DEF Whole

LEMMA WholeNumbers ==
  ASSUME NEW n \in Nat, NEW k \in Nat, IsEven(n), IsEven(k)
  PROVE  Whole(Numbers(n, k))
<1>1. Len(Numbers(n, k)) = k /\ \A i \in 1..k : Numbers(n, k)[i] = n + i
  BY NumbersAreBytes
<1>2. PICK h \in Nat : n = 2 * h
  BY HalfOf
<1>3. ASSUME NEW i \in Nat \ {0}, 2 * i <= k
      PROVE  Sample(Numbers(n, k)[2 * i - 1], Numbers(n, k)[2 * i])
  <2>1. 2 * i - 1 \in 1..k /\ 2 * i \in 1..k
    BY <1>3
  <2>2. Numbers(n, k)[2 * i - 1] = n + (2 * i - 1) /\ Numbers(n, k)[2 * i] = n + 2 * i
    BY <1>1, <2>1
  <2>3. n + (2 * i - 1) \in Nat /\ (n + (2 * i - 1)) % 2 = 1 /\ n + 2 * i = (n + (2 * i - 1)) + 1
    BY <1>2
  <2>4. n + (2 * i - 1) # Pad
    BY <2>3, StereoRecorderConstants
  <2> QED BY <2>2, <2>3, <2>4 DEF Sample
<1> QED BY <1>1, <1>3 DEF Whole

LEMMA PushKeepsWhole ==
  ASSUME SRInv, WholeInv, NEW c \in Channels, NEW k \in Chunks[c], Push(c, k)
  PROVE  WholeInv'
<1> SUFFICES ASSUME NEW d \in Channels, \A n \in Chunks[d] : IsEven(n)
             PROVE  /\ IsEven(accepted'[d]) /\ Whole(written'[d] \o buf'[d])
                    /\ \A i \in 1..Len(queue'[d]) : IsEven(Len(queue'[d][i]))
  BY DEF WholeInv
<1>1. /\ IsEven(accepted[d]) /\ Whole(written[d] \o buf[d])
      /\ \A i \in 1..Len(queue[d]) : IsEven(Len(queue[d][i]))
  BY DEF WholeInv
<1>2. k \in Nat \ {0} /\ accepted \in [Channels -> Nat] /\ queue \in [Channels -> Seq(Seq(Nat))]
  BY StereoRecorderConstants DEF SRInv, SRTypes
<1>3. /\ queue' = [queue EXCEPT ![c] = Append(@, Numbers(accepted[c], k))]
      /\ accepted' = [accepted EXCEPT ![c] = @ + k]
      /\ UNCHANGED <<buf, written>>
  BY DEF Push, Numbers, wav
<1>4. CASE d = c
  <2> DEFINE x == Numbers(accepted[c], k)
  <2>1. IsEven(accepted'[d])
    <3>1. accepted[c] \in Int /\ k \in Int
      BY <1>2
    <3> QED BY <1>1, <1>2, <1>3, <1>4, <3>1, EvenSum
  <2>2. x \in Seq(Nat) /\ Len(x) = k
    <3>1. x \in [1..k -> Nat]
      BY <1>2 DEF Numbers
    <3> QED BY <1>2, <3>1 DEF Numbers
  <2>3. queue'[c] = Append(queue[c], x) /\ queue[c] \in Seq(Seq(Nat))
    BY <1>2, <1>3
  <2> HIDE DEF x
  <2>4. /\ Len(queue'[c]) = Len(queue[c]) + 1 /\ Len(queue[c]) \in Nat
        /\ \A i \in 1..Len(queue[c]) : queue'[c][i] = queue[c][i]
        /\ queue'[c][Len(queue[c]) + 1] = x
    BY <2>2, <2>3, AppendProperties, LenProperties
  <2>5. ASSUME NEW i \in 1..Len(queue'[d]) PROVE IsEven(Len(queue'[d][i]))
    <3>1. i \in 1..Len(queue[c]) \/ i = Len(queue[c]) + 1
      BY <1>4, <2>4
    <3> QED BY <1>1, <1>4, <2>2, <2>4, <3>1
  <2> QED BY <1>1, <1>3, <2>1, <2>5
<1>5. CASE d # c
  BY <1>1, <1>2, <1>3, <1>5
<1> QED BY <1>4, <1>5

LEMMA TakeKeepsWhole ==
  ASSUME SRInv, WholeInv, NEW c \in Channels, Take(c)
  PROVE  WholeInv'
<1> DEFINE x == Head(queue[c])
<1>1. /\ queue[c] # <<>> /\ run \in {"running", "draining"}
      /\ queue' = [queue EXCEPT ![c] = Tail(@)]
      /\ Process([buf EXCEPT ![c] = @ \o x]) /\ accepted' = accepted
  BY DEF Take
<1>2. SRTypes /\ FileInv /\ queue \in [Channels -> Seq(Seq(Nat))]
  BY DEF SRInv, SRTypes
<1>3. PICK n \in 0..accepted[c] : \E k \in Nat \ {0} :
        StreamAt(c, n) /\ x = Numbers(n, k) /\ k = Len(queue[c][1])
  BY <1>1, TakenChunk
<1>4. PICK k \in Nat \ {0} : StreamAt(c, n) /\ x = Numbers(n, k) /\ k = Len(queue[c][1])
  BY <1>3
<1> HIDE DEF x
<1>5. n \in Nat
  BY <1>2 DEF SRTypes
<1>6. x \in Seq(Bytes)
  BY <1>4, <1>5, NumbersAreBytes
<1>7. /\ written'[c] \o buf'[c] = (written[c] \o buf[c]) \o x
      /\ \A d \in Channels \ {c} : written'[d] \o buf'[d] = written[d] \o buf[d]
  BY <1>1, <1>2, <1>6, FilledAndProcessed
<1>8. \A i \in 1..Len(Tail(queue[c])) :
        i + 1 \in 1..Len(queue[c]) /\ Tail(queue[c])[i] = queue[c][i + 1]
  BY <1>1, TailBounded
<1>9. queue'[c] = Tail(queue[c]) /\ \A d \in Channels \ {c} : queue'[d] = queue[d]
  BY <1>1, <1>2
<1> SUFFICES ASSUME NEW d \in Channels, \A m \in Chunks[d] : IsEven(m)
             PROVE  /\ IsEven(accepted'[d]) /\ Whole(written'[d] \o buf'[d])
                    /\ \A i \in 1..Len(queue'[d]) : IsEven(Len(queue'[d][i]))
  BY DEF WholeInv
<1>10. /\ IsEven(accepted[d]) /\ Whole(written[d] \o buf[d])
       /\ \A i \in 1..Len(queue[d]) : IsEven(Len(queue[d][i]))
  BY DEF WholeInv
<1>11. CASE d = c
  <2>1. written[c] \in Seq(Bytes) /\ buf[c] \in Seq(Bytes)
    BY <1>2 DEF SRTypes
  <2>2. /\ written[c] \o buf[c] \in Seq(Bytes) /\ Len(written[c] \o buf[c]) = Len(written[c]) + Len(buf[c])
        /\ Len(written[c]) + Len(buf[c]) \in Int
    BY <2>1, Joined
  <2>3. IsEven(n)
    <3>1. IsEven(Len(written[c]) + Len(buf[c]))
      BY <1>10, <1>11, <2>2 DEF Whole
    <3>2. IsEven((Len(written[c]) + Len(buf[c])) - n)
      BY <1>1, <1>4 DEF StreamAt
    <3>3. ASSUME NEW a \in Int, IsEven(a), IsEven(a - n) PROVE IsEven(n)
      BY <1>5, <3>3 DEF IsEven
    <3> QED BY <2>2, <3>1, <3>2, <3>3
  <2>4. IsEven(k)
    <3>1. 1 \in 1..Len(queue[c])
      BY <1>1, <1>2, EmptySeq, LenProperties
    <3> QED BY <1>4, <1>10, <1>11, <3>1
  <2>5. Whole(x)
    BY <1>4, <1>5, <2>3, <2>4, WholeNumbers
  <2>6. Whole((written[c] \o buf[c]) \o x)
    BY <1>6, <1>10, <1>11, <2>2, <2>5, WholeJoined
  <2>7. \A i \in 1..Len(queue'[c]) : IsEven(Len(queue'[c][i]))
    BY <1>8, <1>9, <1>10, <1>11
  <2> QED BY <1>1, <1>7, <1>10, <1>11, <2>6, <2>7
<1>12. CASE d # c
  BY <1>1, <1>7, <1>9, <1>10, <1>12
<1> QED BY <1>11, <1>12

LEMMA HandleSilenceKeepsWhole ==
  ASSUME SRInv, WholeInv, NEW c \in Channels, HandleSilence(c)
  PROVE  WholeInv'
<1> DEFINE lag == Len(buf[Other(c)]) - Len(buf[c])
           x == Silence(Even(lag))
<1>1. /\ lag > Threshold /\ Process([buf EXCEPT ![c] = @ \o x])
      /\ UNCHANGED <<queue, accepted>>
  BY DEF HandleSilence, Lags
<1>2. SRTypes /\ FileInv
  BY DEF SRInv
<1>3. lag \in Nat
  <2>1. Other(c) \in Channels
    BY DEF Other, Channels
  <2>2. Len(buf[Other(c)]) \in Nat /\ Len(buf[c]) \in Nat
    BY <1>2, <2>1, LenProperties DEF SRTypes
  <2>3. ASSUME NEW k \in Nat, NEW l \in Nat, NEW m \in Nat, k - l > m PROVE k - l \in Nat
    BY <2>3
  <2>4. Threshold \in Nat
    BY StereoRecorderConstants
  <2> QED BY <1>1, <2>2, <2>3, <2>4
<1> HIDE DEF lag
<1>4. Even(lag) \in Nat /\ IsEven(Even(lag))
  BY <1>3, EvenOf
<1>5. x \in Seq(Bytes) /\ Whole(x)
  BY <1>4, SilenceIsPads, WholeSilence
<1>6. /\ written'[c] \o buf'[c] = (written[c] \o buf[c]) \o x
      /\ \A d \in Channels \ {c} : written'[d] \o buf'[d] = written[d] \o buf[d]
  BY <1>1, <1>2, <1>5, FilledAndProcessed
<1> HIDE DEF x
<1> SUFFICES ASSUME NEW d \in Channels, \A m \in Chunks[d] : IsEven(m)
             PROVE  /\ IsEven(accepted'[d]) /\ Whole(written'[d] \o buf'[d])
                    /\ \A i \in 1..Len(queue'[d]) : IsEven(Len(queue'[d][i]))
  BY DEF WholeInv
<1>7. /\ IsEven(accepted[d]) /\ Whole(written[d] \o buf[d])
      /\ \A i \in 1..Len(queue[d]) : IsEven(Len(queue[d][i]))
  BY DEF WholeInv
<1>8. Whole(written'[d] \o buf'[d])
  <2>1. written[d] \o buf[d] \in Seq(Bytes)
    BY <1>2, Joined DEF SRTypes
  <2>2. CASE d = c
    <3>1. Whole((written[d] \o buf[d]) \o x)
      BY <1>5, <1>7, <2>1, WholeJoined
    <3> QED BY <1>6, <2>2, <3>1
  <2>3. CASE d # c
    BY <1>6, <1>7, <2>3
  <2> QED BY <2>2, <2>3
<1> QED BY <1>1, <1>7, <1>8

LEMMA FlushKeepsWhole ==
  ASSUME SRInv, WholeInv, Flush
  PROVE  WholeInv'
<1>1. UNCHANGED <<queue, accepted>>
  BY DEF Flush
<1>2. SRTypes /\ FileInv
  BY DEF SRInv
<1>3. PICK pad \in [Channels -> Nat] : \A c \in Channels :
        /\ written'[c] \o buf'[c] = (written[c] \o buf[c]) \o Silence(pad[c])
        /\ IsEven(Len(buf[c])) => IsEven(pad[c])
  BY <1>2, Flushed
<1> SUFFICES ASSUME NEW d \in Channels, \A m \in Chunks[d] : IsEven(m)
             PROVE  /\ IsEven(accepted'[d]) /\ Whole(written'[d] \o buf'[d])
                    /\ \A i \in 1..Len(queue'[d]) : IsEven(Len(queue'[d][i]))
  BY DEF WholeInv
<1>4. /\ IsEven(accepted[d]) /\ Whole(written[d] \o buf[d])
      /\ \A i \in 1..Len(queue[d]) : IsEven(Len(queue[d][i]))
  BY DEF WholeInv
<1>5. written[d] \in Seq(Bytes) /\ buf[d] \in Seq(Bytes)
  BY <1>2 DEF SRTypes
<1>6. /\ written[d] \o buf[d] \in Seq(Bytes) /\ Len(written[d] \o buf[d]) = Len(written[d]) + Len(buf[d])
      /\ Len(written[d]) \in Int /\ Len(buf[d]) \in Int
  BY <1>5, Joined
<1>7. IsEven(Len(buf[d]))
  <2>1. IsEven(Len(written[d]))
    <3>1. Len(written[d]) = Len(written["left"])
      BY <1>2 DEF FileInv, Channels
    <3> QED BY <1>2, <3>1 DEF FileInv
  <2>2. IsEven(Len(written[d]) + Len(buf[d]))
    BY <1>4, <1>6 DEF Whole
  <2> QED BY <1>6, <2>1, <2>2, EvenSum
<1>8. Whole(Silence(pad[d])) /\ Silence(pad[d]) \in Seq(Bytes)
  <2>1. pad[d] \in Nat /\ IsEven(pad[d])
    BY <1>3, <1>7
  <2> QED BY <2>1, WholeSilence, SilenceIsPads
<1>9. Whole((written[d] \o buf[d]) \o Silence(pad[d]))
  BY <1>4, <1>6, <1>8, WholeJoined
<1> QED BY <1>1, <1>3, <1>4, <1>9

LEMMA WholeStep == SRInv /\ WholeInv /\ [SRNext]_srVars => WholeInv'
<1> SUFFICES ASSUME SRInv, WholeInv, [SRNext]_srVars PROVE WholeInv'
  OBVIOUS
<1>1. CASE UNCHANGED <<queue, buf, written, accepted>>
  BY <1>1 DEF WholeInv
<1>2. ASSUME NEW c \in Channels, NEW k \in Chunks[c], Push(c, k) PROVE WholeInv'
  BY <1>2, PushKeepsWhole
<1>3. ASSUME NEW c \in Channels, Take(c) PROVE WholeInv'
  BY <1>3, TakeKeepsWhole
<1>4. ASSUME NEW c \in Channels, HandleSilence(c) PROVE WholeInv'
  BY <1>4, HandleSilenceKeepsWhole
<1>5. CASE Flush
  BY <1>5, FlushKeepsWhole
<1>6. CASE Start \/ Cancel \/ Drain \/ CloseWriter \/ UNCHANGED srVars
  BY <1>1, <1>6 DEF Start, Cancel, Drain, CloseWriter, wav, srVars
<1> QED BY <1>2, <1>3, <1>4, <1>5, <1>6 DEF SRNext

\* The two bytes of a sample stay together in what is written, as long as the chunks
\* hold whole samples.  (process, handleSilence, flush)
THEOREM SamplesAreWhole == SRSpec => []SamplesStayWhole
<1>1. SRInit => WholeInv
  <2> SUFFICES ASSUME SRInit, NEW c \in Channels
               PROVE  /\ IsEven(accepted[c]) /\ Whole(written[c] \o buf[c])
                      /\ \A i \in 1..Len(queue[c]) : IsEven(Len(queue[c][i]))
    BY DEF WholeInv
  <2>1. queue[c] = <<>> /\ buf[c] = <<>> /\ written[c] = <<>> /\ accepted[c] = 0
    BY DEF SRInit
  <2>2. IsEven(0)
    BY DEF IsEven
  <2>3. Len(written[c] \o buf[c]) = 0
    BY <2>1, ConcatEmptySeq, EmptySeq
  <2>4. Whole(written[c] \o buf[c])
    <3>1. \A i \in Nat \ {0} : ~(2 * i <= 0)
      OBVIOUS
    <3>2. IsEven(Len(written[c] \o buf[c])) /\ \A i \in Nat \ {0} : ~(2 * i <= Len(written[c] \o buf[c]))
      BY <2>2, <2>3, <3>1
    <3> HIDE DEF Sample
    <3> QED BY ONLY <3>2 DEF Whole
  <2> QED BY <2>1, <2>2, <2>4, EmptySeq
<1>2. SRInv /\ WholeInv => SamplesStayWhole
  <2> SUFFICES ASSUME SRInv, WholeInv, NEW c \in Channels, \A n \in Chunks[c] : n % 2 = 0
               PROVE  /\ Len(written[c]) % 2 = 0
                      /\ \A i \in 1..(Len(written[c]) \div 2) :
                           Sample(written[c][2 * i - 1], written[c][2 * i])
    BY DEF SamplesStayWhole, Sample
  <2>1. Whole(written[c] \o buf[c])
    BY DEF WholeInv, IsEven
  <2>2. written[c] \in Seq(Bytes) /\ buf[c] \in Seq(Bytes)
    BY DEF SRInv, SRTypes
  <2>3. IsEven(Len(written[c]))
    <3>1. Len(written[c]) = Len(written["left"])
      BY DEF SRInv, FileInv, Channels
    <3> QED BY <3>1 DEF SRInv, FileInv
  <2>4. Whole(written[c])
    BY <2>1, <2>2, <2>3, WholeFront
  <2>5. ASSUME NEW i \in 1..(Len(written[c]) \div 2) PROVE Sample(written[c][2 * i - 1], written[c][2 * i])
    <3>1. Len(written[c]) \in Nat
      BY <2>2, LenProperties
    <3>2. ASSUME NEW l \in Nat, NEW j \in 1..(l \div 2) PROVE j \in Nat \ {0} /\ 2 * j <= l
      OBVIOUS
    <3>3. i \in Nat \ {0} /\ 2 * i <= Len(written[c])
      BY <3>1, <3>2
    <3> QED BY <2>4, <3>3 DEF Whole
  <2> QED BY <2>3, <2>5 DEF IsEven
<1> QED BY StartsSound, SRStep, WholeStep, <1>1, <1>2, PTL DEF SRSpec
=============================================================================
