------------------------- MODULE JitterBufferProofs -------------------------
(***************************************************************************)
(* Proofs about the pooled buffers of received packets, for any number of    *)
(* buffers, any window and sequence numbers of any width.                    *)
(***************************************************************************)
EXTENDS JitterBuffer, TLAPS

Seqs == 0..(SeqMod - 1)

\* How far a is ahead of b on the circle of sequence numbers.
Ahead(a, b) == (a - b) % SeqMod

\* The packets that pion takes for later: less than half the circle ahead.
IsLater(a, b) == Ahead(a, b) \in 1..(SeqMod \div 2 - 1)

----------------------------------------------------------------------------
(* The inductive invariant                                                  *)

LoopStates == {"none", "select", "popped", "sending", "exited"}
Items == [mem : Buffers \cup {None}, raw : Buffers \cup {None}]

JBTypes ==
  /\ taken \in 0..MaxBuffers
  /\ seqOf \in [Buffers -> Seqs]
  /\ puts \in [Buffers -> Nat]
  /\ rawBuffers \in [0..(WinSize - 1) -> [buf : Buffers \cup {None}, seq : Seqs]]
  /\ reader \in Buffers \cup {None}
  /\ held \subseteq Buffers
  /\ last \in Seqs \cup {-1}
  /\ loop \in LoopStates
  /\ item \in Items /\ using \in Items
  /\ output \in Seq(Items)
  /\ spread \in BOOLEAN

\* The buffers that an item refers to, and that the items together do.
Memory(x) == {x.mem, x.raw} \ {None}
Piped ==
  Memory(item) \cup Memory(using) \cup UNION { Memory(output[i]) : i \in 1..Len(output) }

InRing == { rawBuffers[i].buf : i \in DOMAIN rawBuffers } \ {None}

\* A buffer waits in the slot of its own sequence number.
RingIsIndexed ==
  \A i \in DOMAIN rawBuffers : rawBuffers[i].buf # None =>
    rawBuffers[i].seq = seqOf[rawBuffers[i].buf] /\ i = rawBuffers[i].seq % WinSize

\* Only buffers that were taken are anywhere, and the rest were not put back.
OnlyTaken ==
  /\ InRing \cup held \cup Piped \cup ({reader} \ {None}) \subseteq 1..taken
  /\ \A p \in Buffers : p > taken => puts[p] = 0

\* The release loop's item.
LoopOrder ==
  /\ loop \in {"none", "select", "exited"} => item = NoItem
  /\ loop = "none" => last = -1
  /\ loop = "popped" => item.mem # None /\ item.raw = None /\ last = seqOf[item.mem]

\* pion keeps only packets that are later than the last it released.
HeldAreLater ==
  \A p \in held : last = -1 \/ IsLater(seqOf[p], last)

\* The packets that may still be released lie in one window, with the one that the
\* reader is about to push.
OneWindow ==
  \A p, q \in Wanted \cup ({reader} \ {None}) : InWindow(seqOf[p], seqOf[q])

\* The reader's buffer has left the ring before pion got the packet, swept away or
\* handed out with a packet of the same number: pion will not take the packet.
TooLate(p) ==
  /\ last # -1 /\ Ahead(last, seqOf[p]) < WinSize
  /\ \A q \in held : Ahead(seqOf[q], last) < WinSize

ReaderIsFollowed ==
  reader # None =>
    /\ reader \notin held
    /\ reader \in Piped \/ (puts[reader] # 0 /\ reader \notin raced) => TooLate(reader)

\* The items share no buffer, with each other, with pion or, once retrieved, with the ring.
ItemsAreDisjoint ==
  /\ \A i, j \in 1..Len(output) : i # j => Memory(output[i]) \cap Memory(output[j]) = {}
  /\ \A i \in 1..Len(output) : Memory(output[i]) \cap (Memory(item) \cup Memory(using)) = {}
  /\ Memory(item) \cap Memory(using) = {}
  /\ Piped \cap held = {}
  /\ (IF loop = "popped" THEN Piped \ {item.mem} ELSE Piped) \cap InRing = {}

\* A buffer is put back once, after which nobody has it.
PutOnce ==
  \A p \in Buffers \ raced :
    puts[p] = 0 \/ (puts[p] = 1 /\ p \notin InRing \cup held \cup Piped)

JBInv ==
  /\ JBTypes /\ RingIsIndexed /\ OnlyTaken /\ LoopOrder /\ HeldAreLater
  /\ ~spread => OneWindow /\ ReaderIsFollowed /\ ItemsAreDisjoint /\ PutOnce

----------------------------------------------------------------------------
(* The circle of sequence numbers                                           *)

LEMMA Constants ==
  /\ SeqMod \in Nat \ {0} /\ WinSize \in Nat \ {0}
  /\ SeqMod % WinSize = 0 /\ 4 * WinSize <= SeqMod /\ WinSize < SeqMod
  /\ Arrivals \subseteq Seqs
  /\ MaxBuffers \in Nat
BY JitterBufferConstants DEF Seqs

LEMMA AheadIs ==
  ASSUME NEW a \in Seqs, NEW b \in Seqs
  PROVE  Ahead(a, b) = IF a >= b THEN a - b ELSE a - b + SeqMod
<1>1. SeqMod \in Nat \ {0} /\ a \in Nat /\ b \in Nat /\ a < SeqMod /\ b < SeqMod
  BY Constants DEF Seqs
<1>2. CASE a >= b
  BY <1>1, <1>2 DEF Ahead
<1>3. CASE a < b
  <2>1. a - b + SeqMod \in 0..(SeqMod - 1)
    BY <1>1, <1>3
  <2>2. (a - b + SeqMod) % SeqMod = a - b + SeqMod
    BY <1>1, <2>1
  <2>3. (a - b) % SeqMod = a - b + SeqMod
    BY <1>1, <1>3, <2>1
  <2> QED BY <1>1, <1>3, <2>3 DEF Ahead
<1> QED BY <1>1, <1>2, <1>3

LEMMA RemainderIs ==
  ASSUME NEW w \in Nat \ {0}, NEW x \in Nat, NEW r \in Nat, NEW q \in Int, x = w * q + r, r < w
  PROVE  x % w = r
OBVIOUS

\* Two numbers of one slot that lie in one window are the same.
LEMMA SlotIsUnique ==
  ASSUME NEW a \in Seqs, NEW b \in Seqs, a % WinSize = b % WinSize, InWindow(a, b)
  PROVE  a = b
<1> DEFINE W == WinSize
           M == SeqMod
<1>1. /\ W \in Nat \ {0} /\ M \in Nat \ {0} /\ a \in Nat /\ b \in Nat
      /\ a < M /\ b < M /\ W < M /\ M % W = 0
  BY Constants DEF Seqs
<1> HIDE DEF W, M
<1>2. ASSUME NEW x \in Nat, NEW y \in Nat, x % W = y % W, y <= x, x - y < W PROVE x = y
  <2>1. x = W * (x \div W) + (x % W) /\ y = W * (y \div W) + (y % W)
    BY <1>1
  <2>2. x \div W \in Nat /\ y \div W \in Nat
    BY <1>1
  <2> DEFINE k == (x \div W) - (y \div W)
  <2>3. k \in Int /\ x - y = W * k
    BY <1>1, <1>2, <2>1, <2>2
  <2> HIDE DEF k
  <2>4. ~(k >= 1)
    <3>1. ASSUME k >= 1 PROVE W * k >= W
      BY <1>1, <2>3, <3>1
    <3> QED BY <1>1, <1>2, <2>3, <3>1
  <2>5. ~(k <= -1)
    <3>1. ASSUME k <= -1 PROVE W * k <= -W
      BY <1>1, <2>3, <3>1
    <3> QED BY <1>1, <1>2, <2>3, <3>1
  <2> QED BY <1>1, <1>2, <2>3, <2>4, <2>5
<1>3. ASSUME NEW x \in Nat PROVE (x + M) % W = x % W
  <2>1. x = W * (x \div W) + (x % W) /\ M = W * (M \div W) /\ x % W \in 0..(W-1)
    BY <1>1
  <2>2. x \div W \in Nat /\ M \div W \in Nat
    BY <1>1
  <2>3. x + M = W * ((x \div W) + (M \div W)) + (x % W)
    BY <1>1, <2>1, <2>2
  <2>4. x + M \in Nat /\ x % W \in Nat /\ x % W < W /\ (x \div W) + (M \div W) \in Int
    BY <1>1, <2>1, <2>2
  <2> QED BY <1>1, <2>3, <2>4, RemainderIs
<1>4. ASSUME NEW x \in Nat, NEW y \in Nat, x < M, y < M, x % W = y % W, (x - y) % M < W
      PROVE  x = y
  <2>1. CASE y <= x
    <3>1. (x - y) % M = x - y
      BY <1>1, <1>4, <2>1
    <3> QED BY <1>2, <1>4, <2>1, <3>1
  <2>2. CASE x < y
    <3>1. (x - y) % M = x + M - y
      BY <1>1, <1>4, <2>2
    <3> DEFINE z == x + M
    <3>2. z \in Nat /\ y <= z
      BY <1>1, <1>4
    <3>3. z % W = y % W /\ z - y < W
      <4>1. z % W = y % W
        BY <1>3, <1>4
      <4>2. z - y < W
        BY <1>1, <1>4, <3>1
      <4> QED BY <4>1, <4>2
    <3> HIDE DEF z
    <3>4. z = y
      BY <1>2, <3>2, <3>3
    <3> QED BY <1>1, <1>4, <3>4 DEF z
  <2> QED BY <1>4, <2>1, <2>2
<1> QED BY <1>1, <1>4 DEF InWindow, M, W

LEMMA HalfCircle ==
  /\ SeqMod \in Nat /\ WinSize \in Nat \ {0} /\ 4 * WinSize <= SeqMod
  /\ SeqMod \div 2 \in Nat
  /\ SeqMod = 2 * (SeqMod \div 2) \/ SeqMod = 2 * (SeqMod \div 2) + 1
<1>1. \A n \in Nat : n \div 2 \in Nat /\ (n = 2 * (n \div 2) \/ n = 2 * (n \div 2) + 1)
  OBVIOUS
<1> QED BY <1>1, Constants

LEMMA InWindowIs ==
  ASSUME NEW a \in Seqs, NEW b \in Seqs
  PROVE  InWindow(a, b) <=> (Ahead(a, b) < WinSize \/ Ahead(b, a) < WinSize)
BY DEF InWindow, Ahead

LEMMA WindowFacts ==
  ASSUME NEW a \in Seqs, NEW b \in Seqs
  PROVE  /\ InWindow(a, a)
         /\ InWindow(a, b) <=> InWindow(b, a)
<1>1. Ahead(a, a) = 0
  BY AheadIs DEF Seqs
<1> QED BY <1>1, InWindowIs, HalfCircle

\* What is later was not swept, and is another number.
LEMMA LaterFacts ==
  ASSUME NEW a \in Seqs, NEW b \in Seqs, IsLater(a, b)
  PROVE  /\ ~IsEarlier(a, b) /\ a # b
         /\ InWindow(a, b) => Ahead(a, b) < WinSize
<1>1. a \in Int /\ b \in Int /\ 0 <= a /\ 0 <= b /\ a < SeqMod /\ b < SeqMod
  BY Constants DEF Seqs
<1>2. /\ Ahead(a, b) = IF a >= b THEN a - b ELSE a - b + SeqMod
      /\ Ahead(b, a) = IF b >= a THEN b - a ELSE b - a + SeqMod
  BY AheadIs
<1>3. IsEarlier(a, b) <=> Ahead(b, a) < SeqMod \div 2 /\ a # b
  BY DEF IsEarlier, Ahead
<1> QED BY <1>1, <1>2, <1>3, HalfCircle, InWindowIs DEF IsLater

\* What was swept is less than a window behind.
LEMMA EarlierIsNear ==
  ASSUME NEW a \in Seqs, NEW b \in Seqs, IsEarlier(a, b), InWindow(a, b)
  PROVE  Ahead(b, a) < WinSize
<1>1. a \in Int /\ b \in Int /\ 0 <= a /\ 0 <= b /\ a < SeqMod /\ b < SeqMod
  BY Constants DEF Seqs
<1>2. /\ Ahead(a, b) = IF a >= b THEN a - b ELSE a - b + SeqMod
      /\ Ahead(b, a) = IF b >= a THEN b - a ELSE b - a + SeqMod
  BY AheadIs
<1>3. Ahead(b, a) < SeqMod \div 2 /\ a # b
  BY DEF IsEarlier, Ahead
<1> QED BY <1>1, <1>2, <1>3, HalfCircle, InWindowIs

\* Less than a window behind is not later, and stays so while the releases go on
\* within the window.
LEMMA NearIsNotLater ==
  ASSUME NEW a \in Seqs, NEW b \in Seqs, Ahead(b, a) < WinSize
  PROVE  ~IsLater(a, b)
<1>1. a \in Int /\ b \in Int /\ 0 <= a /\ 0 <= b /\ a < SeqMod /\ b < SeqMod
  BY Constants DEF Seqs
<1>2. /\ Ahead(a, b) = IF a >= b THEN a - b ELSE a - b + SeqMod
      /\ Ahead(b, a) = IF b >= a THEN b - a ELSE b - a + SeqMod
  BY AheadIs
<1> QED BY <1>1, <1>2, HalfCircle DEF IsLater

LEMMA NearStaysNear ==
  ASSUME NEW a \in Seqs, NEW b \in Seqs, NEW c \in Seqs,
         Ahead(b, a) < WinSize, Ahead(c, b) < WinSize, InWindow(c, a)
  PROVE  Ahead(c, a) < WinSize
<1>1. /\ a \in Int /\ b \in Int /\ c \in Int /\ 0 <= a /\ 0 <= b /\ 0 <= c
      /\ a < SeqMod /\ b < SeqMod /\ c < SeqMod
  BY Constants DEF Seqs
<1>2. /\ Ahead(c, a) = IF c >= a THEN c - a ELSE c - a + SeqMod
      /\ Ahead(a, c) = IF a >= c THEN a - c ELSE a - c + SeqMod
      /\ Ahead(b, a) = IF b >= a THEN b - a ELSE b - a + SeqMod
      /\ Ahead(c, b) = IF c >= b THEN c - b ELSE c - b + SeqMod
  BY AheadIs
<1> QED BY <1>1, <1>2, HalfCircle, InWindowIs

----------------------------------------------------------------------------
LEMMA JBInitInv == JBInit => JBInv
<1> SUFFICES ASSUME JBInit PROVE JBInv
  OBVIOUS
<1>1. JBTypes
  <2>1. /\ taken \in 0..MaxBuffers /\ seqOf \in [Buffers -> Seqs] /\ puts \in [Buffers -> Nat]
        /\ rawBuffers \in [0..(WinSize - 1) -> [buf : Buffers \cup {None}, seq : Seqs]]
        /\ reader \in Buffers \cup {None} /\ held \subseteq Buffers /\ last \in Seqs \cup {-1}
        /\ loop \in LoopStates
    BY Constants DEF JBInit, Seqs, LoopStates
  <2>2. item \in Items /\ using \in Items /\ output \in Seq(Items)
    BY DEF JBInit, Items, NoItem
  <2>3. spread \in BOOLEAN
    BY Zenon DEF JBInit
  <2> QED BY <2>1, <2>2, <2>3 DEF JBTypes
<1>2. InRing = {} /\ Piped = {} /\ held = {} /\ reader = None /\ loop = "none"
  BY DEF JBInit, InRing, Piped, Memory, NoItem
<1>3. RingIsIndexed
  BY DEF JBInit, RingIsIndexed
<1>4. OnlyTaken /\ LoopOrder /\ HeldAreLater
  BY <1>2 DEF JBInit, OnlyTaken, LoopOrder, HeldAreLater
<1>5. OneWindow /\ ReaderIsFollowed /\ PutOnce
  BY <1>2 DEF JBInit, OneWindow, Wanted, ReaderIsFollowed, PutOnce
<1>6. ItemsAreDisjoint
  BY <1>2 DEF JBInit, ItemsAreDisjoint, Memory, NoItem
<1> QED BY <1>1, <1>3, <1>4, <1>5, <1>6 DEF JBInv

----------------------------------------------------------------------------
(* The steps                                                                *)

LEMMA RingMembers ==
  ASSUME JBTypes, RingIsIndexed
  PROVE  /\ \A p \in InRing :
              /\ p \in Buffers
              /\ seqOf[p] % WinSize \in DOMAIN rawBuffers
              /\ rawBuffers[seqOf[p] % WinSize] = [buf |-> p, seq |-> seqOf[p]]
         /\ \A i \in DOMAIN rawBuffers : rawBuffers[i].buf # None => rawBuffers[i].buf \in InRing
BY DEF JBTypes, RingIsIndexed, InRing

\* A buffer of the ring is not with any item, but for the packet just popped.
LEMMA RingIsApart ==
  ASSUME ItemsAreDisjoint, NEW p \in InRing, p \notin Wanted
  PROVE  p \notin Piped
BY DEF ItemsAreDisjoint, Wanted

LEMMA BuffersAre == None \notin Buffers /\ \A p \in Buffers : p \in Int
BY Constants DEF Buffers, None

LEMMA PushRawInv ==
  ASSUME JBInv, NEW seq \in Arrivals, PushRaw(seq)
  PROVE  JBInv'
<1> DEFINE p == taken + 1
           i == seq % WinSize
           old == rawBuffers[i]
           back == IF Collides(old, seq) THEN {old.buf} ELSE {}
<1> USE DEF JBInv
<1>1. /\ taken' = p /\ reader' = p
      /\ seqOf' = [seqOf EXCEPT ![p] = seq]
      /\ rawBuffers' = [rawBuffers EXCEPT ![i] = [buf |-> p, seq |-> seq]]
      /\ puts' = [q \in Buffers |-> IF q \in back THEN puts[q] + 1 ELSE puts[q]]
      /\ UNCHANGED <<held, last, loop, item, output, using, raced>>
  BY DEF PushRaw, Put
<1>2. spread' = (spread \/ \E q \in Wanted : ~InWindow(seq, seqOf[q]))
  BY DEF PushRaw
<1>3. /\ p \in Buffers /\ p \in 1..MaxBuffers /\ p \in Int /\ seq \in Seqs
      /\ i \in 0..(WinSize - 1) /\ i \in DOMAIN rawBuffers
  BY Constants DEF PushRaw, Buffers, JBTypes, Seqs
<1>4. /\ p \notin InRing \cup held \cup Piped /\ puts[p] = 0 /\ reader = None
  BY <1>3 DEF OnlyTaken, PushRaw, JBTypes
<1> HIDE DEF p, i, old, back
<1>5. JBTypes'
  <2>1. /\ taken' \in 0..MaxBuffers /\ seqOf' \in [Buffers -> Seqs]
        /\ reader' \in Buffers \cup {None}
        /\ rawBuffers' \in [0..(WinSize - 1) -> [buf : Buffers \cup {None}, seq : Seqs]]
    BY <1>1, <1>3 DEF JBTypes
  <2>2. puts' \in [Buffers -> Nat]
    BY <1>1 DEF JBTypes
  <2>3. spread' \in BOOLEAN
    BY <1>2, Zenon
  <2> QED BY <1>1, <2>1, <2>2, <2>3 DEF JBTypes
<1>6. Piped' = Piped /\ Wanted' = Wanted /\ \A q \in 1..taken : seqOf'[q] = seqOf[q]
  <2>1. \A q \in 1..taken : q # p /\ q \in Buffers
    BY <1>3, Constants DEF p, JBTypes, Buffers
  <2> QED BY <1>1, <2>1 DEF Piped, Memory, Wanted, JBTypes
<1>7. InRing' \subseteq (InRing \cup {p}) /\ (old.buf # None => old.buf \notin InRing')
  <2>1. \A j \in DOMAIN rawBuffers : j # i => rawBuffers'[j] = rawBuffers[j]
    BY <1>1
  <2>2. rawBuffers'[i].buf = p /\ DOMAIN rawBuffers' = DOMAIN rawBuffers
    BY <1>1, <1>3 DEF JBTypes
  <2>3. \A j \in DOMAIN rawBuffers : j # i /\ rawBuffers[j].buf # None =>
           rawBuffers[j].buf # old.buf
    BY <1>3 DEF old, RingIsIndexed
  <2>4. old.buf # None => old.buf # p
    BY <1>3, <1>4 DEF old, InRing
  <2> QED BY <2>1, <2>2, <2>3, <2>4 DEF InRing
<1>8. RingIsIndexed'
  <2> SUFFICES ASSUME NEW j \in DOMAIN rawBuffers', rawBuffers'[j].buf # None
               PROVE  /\ rawBuffers'[j].seq = seqOf'[rawBuffers'[j].buf]
                      /\ j = rawBuffers'[j].seq % WinSize
    BY DEF RingIsIndexed
  <2>1. CASE j = i
    BY <1>1, <1>3, <2>1 DEF JBTypes, i
  <2>2. CASE j # i
    <3>1. j \in DOMAIN rawBuffers /\ rawBuffers'[j] = rawBuffers[j]
      BY <1>1, <2>2 DEF JBTypes
    <3>2. rawBuffers[j].buf \in 1..taken
      BY <3>1 DEF OnlyTaken, InRing
    <3> QED BY <1>6, <3>1, <3>2 DEF RingIsIndexed
  <2> QED BY <2>1, <2>2
<1>9. OnlyTaken'
  <2>1. 1..taken \subseteq 1..taken' /\ p \in 1..taken'
    BY <1>1, <1>3 DEF JBTypes, p
  <2>2. InRing' \cup held' \cup Piped' \cup ({reader'} \ {None}) \subseteq 1..taken'
    BY <1>1, <1>6, <1>7, <2>1 DEF OnlyTaken
  <2>3. ASSUME NEW q \in Buffers, q > taken' PROVE puts'[q] = 0
    <3>1. q > taken /\ puts[q] = 0
      BY <1>1, <2>3, BuffersAre DEF JBTypes, p, OnlyTaken
    <3>2. q \notin back
      BY <1>3, <3>1, BuffersAre DEF back, old, Collides, OnlyTaken, InRing, JBTypes
    <3> QED BY <1>1, <3>1, <3>2
  <2> QED BY <2>2, <2>3 DEF OnlyTaken
<1>10. LoopOrder' /\ HeldAreLater'
  <2>1. held \subseteq 1..taken /\ (item.mem # None => item.mem \in 1..taken)
    BY DEF OnlyTaken, Piped, Memory
  <2> QED BY <1>1, <1>6, <2>1 DEF LoopOrder, HeldAreLater
<1>11. ASSUME ~spread'
       PROVE  OneWindow' /\ ReaderIsFollowed' /\ ItemsAreDisjoint' /\ PutOnce'
  <2>1. /\ OneWindow /\ ReaderIsFollowed /\ ItemsAreDisjoint /\ PutOnce
        /\ \A q \in Wanted : InWindow(seq, seqOf[q])
    BY <1>2, <1>11
  <2>2. Wanted \subseteq 1..taken
    BY DEF Wanted, OnlyTaken, Piped, Memory, LoopOrder
  <2>3. ASSUME NEW q \in back PROVE q \in InRing /\ q \notin held /\ q \notin Piped /\ q \notin InRing'
    <3>1. q = old.buf /\ q # None /\ old.seq # seq /\ q \in InRing
      BY <1>3, <2>3 DEF back, Collides, InRing, old
    <3>2. old.seq = seqOf[q] /\ seqOf[q] % WinSize = seq % WinSize /\ seqOf[q] \in Seqs
      BY <1>3, <3>1 DEF RingIsIndexed, old, i, JBTypes
    <3>3. q \notin Wanted
      BY <1>3, <2>1, <3>1, <3>2, SlotIsUnique
    <3> QED BY <1>7, <2>1, <3>1, <3>3, RingIsApart DEF Wanted
  <2>4. OneWindow'
    <3>1. \A q \in Wanted : seqOf'[q] = seqOf[q] /\ seqOf[q] \in Seqs
      BY <1>6, <2>2, Constants DEF JBTypes, Buffers
    <3>2. seqOf'[p] = seq
      BY <1>1, <1>3 DEF JBTypes
    <3>3. \A q \in Wanted : InWindow(seq, seqOf[q]) /\ InWindow(seqOf[q], seq)
      BY <1>3, <2>1, <3>1, WindowFacts
    <3>4. InWindow(seq, seq)
      BY <1>3, WindowFacts
    <3>5. \A x, y \in Wanted : InWindow(seqOf[x], seqOf[y])
      BY <2>1 DEF OneWindow
    <3>6. \A x, y \in Wanted \cup {p} : InWindow(seqOf'[x], seqOf'[y])
      BY <3>1, <3>2, <3>3, <3>4, <3>5
    <3> QED BY <1>1, <1>6, <3>6 DEF OneWindow
  <2>5. ReaderIsFollowed'
    <3>1. puts'[p] = 0
      BY <1>1, <1>3, <1>4, <2>3
    <3> QED BY <1>1, <1>4, <1>6, <3>1 DEF ReaderIsFollowed
  <2>6. ItemsAreDisjoint'
    <3>1. /\ \A x, y \in 1..Len(output) : x # y => Memory(output[x]) \cap Memory(output[y]) = {}
          /\ \A x \in 1..Len(output) : Memory(output[x]) \cap (Memory(item) \cup Memory(using)) = {}
          /\ Memory(item) \cap Memory(using) = {}
          /\ Piped \cap held = {}
          /\ (IF loop = "popped" THEN Piped \ {item.mem} ELSE Piped) \cap InRing = {}
      BY <2>1 DEF ItemsAreDisjoint
    <3>2. (IF loop = "popped" THEN Piped \ {item.mem} ELSE Piped) \cap InRing' = {}
      BY <1>4, <1>7, <3>1
    <3> QED BY <1>1, <1>6, <3>1, <3>2 DEF ItemsAreDisjoint, Memory
  <2>7. PutOnce'
    <3> SUFFICES ASSUME NEW q \in Buffers \ raced'
                 PROVE  puts'[q] = 0 \/ (puts'[q] = 1 /\ q \notin InRing' \cup held' \cup Piped')
      BY DEF PutOnce
    <3>1. CASE q \in back
      <4>1. puts[q] = 0
        BY <1>1, <2>1, <2>3, <3>1 DEF PutOnce
      <4> QED BY <1>1, <1>6, <2>3, <3>1, <4>1
    <3>2. CASE q \notin back
      <4>1. puts'[q] = puts[q]
        BY <1>1, <3>2
      <4>2. CASE puts[q] = 0
        BY <4>1, <4>2
      <4>3. CASE puts[q] # 0
        <5>1. puts[q] = 1 /\ q \notin InRing \cup held \cup Piped
          BY <1>1, <2>1, <4>3 DEF PutOnce
        <5>2. q # p
          BY <1>4, <4>3
        <5> QED BY <1>1, <1>6, <1>7, <4>1, <5>1, <5>2
      <4> QED BY <4>2, <4>3
    <3> QED BY <3>1, <3>2
  <2> QED BY <2>4, <2>5, <2>6, <2>7
<1> QED BY <1>5, <1>8, <1>9, <1>10, <1>11

LEMMA PushPacketInv ==
  ASSUME JBInv, PushPacket
  PROVE  JBInv'
<1> USE DEF JBInv
<1>1. /\ reader # None /\ reader' = None
      /\ held' = held \cup Later({reader}, last)
      /\ loop' = IF loop = "none" THEN "select" ELSE loop
      /\ UNCHANGED <<taken, seqOf, puts, rawBuffers, last, item, output, using, spread, raced>>
  BY DEF PushPacket
<1>2. reader \in Buffers /\ reader \in 1..taken /\ seqOf[reader] \in Seqs
  BY <1>1 DEF JBTypes, OnlyTaken
<1>3. Later({reader}, last) \subseteq {reader}
  BY DEF Later
<1>4. reader \in Later({reader}, last) => last = -1 \/ IsLater(seqOf[reader], last)
  BY DEF Later, IsLater, Ahead
<1>5. JBTypes'
  BY <1>1, <1>2, <1>3 DEF JBTypes, LoopStates
<1>6. Piped' = Piped /\ InRing' = InRing
  BY <1>1 DEF Piped, Memory, InRing
<1>7. RingIsIndexed' /\ OnlyTaken' /\ LoopOrder'
  <2>1. RingIsIndexed'
    BY <1>1 DEF RingIsIndexed
  <2>2. OnlyTaken'
    BY <1>1, <1>2, <1>3, <1>6 DEF OnlyTaken
  <2>3. LoopOrder'
    BY <1>1 DEF LoopOrder
  <2> QED BY <2>1, <2>2, <2>3
<1>8. HeldAreLater'
  BY <1>1, <1>3, <1>4 DEF HeldAreLater
<1>9. ASSUME ~spread
      PROVE  OneWindow' /\ ReaderIsFollowed' /\ ItemsAreDisjoint' /\ PutOnce'
  <2>1. OneWindow /\ ReaderIsFollowed /\ ItemsAreDisjoint /\ PutOnce
    BY <1>9
  <2>2. TooLate(reader) => Later({reader}, last) = {}
    BY <1>2, <1>3, <1>4, NearIsNotLater DEF TooLate, JBTypes
  <2>3. OneWindow'
    <3>1. Wanted' \subseteq Wanted \cup {reader}
      BY <1>1, <1>3 DEF Wanted
    <3> QED BY <1>1, <2>1, <3>1 DEF OneWindow
  <2>4. ItemsAreDisjoint'
    <3>1. Piped' \cap held' = {}
      BY <1>1, <1>3, <1>6, <2>1, <2>2 DEF ReaderIsFollowed, ItemsAreDisjoint
    <3>2. (IF loop' = "popped" THEN Piped \ {item.mem} ELSE Piped) \cap InRing = {}
      BY <1>1, <2>1 DEF ItemsAreDisjoint
    <3>3. /\ \A x, y \in 1..Len(output) : x # y => Memory(output[x]) \cap Memory(output[y]) = {}
          /\ \A x \in 1..Len(output) : Memory(output[x]) \cap (Memory(item) \cup Memory(using)) = {}
          /\ Memory(item) \cap Memory(using) = {}
      BY <2>1 DEF ItemsAreDisjoint
    <3> QED BY <1>1, <1>6, <3>1, <3>2, <3>3 DEF ItemsAreDisjoint, Memory
  <2>5. PutOnce'
    BY <1>1, <1>3, <1>6, <2>1, <2>2 DEF PutOnce, ReaderIsFollowed
  <2> QED BY <1>1, <2>3, <2>4, <2>5 DEF ReaderIsFollowed
<1> QED BY <1>1, <1>5, <1>7, <1>8, <1>9

LEMMA PopInv ==
  ASSUME JBInv, NEW p \in held, Pop(p)
  PROVE  JBInv'
<1> USE DEF JBInv
<1>1. /\ loop = "select" /\ loop' = "popped"
      /\ item' = [mem |-> p, raw |-> None]
      /\ held' = Later(held, seqOf[p])
      /\ last' = seqOf[p]
      /\ UNCHANGED <<taken, seqOf, puts, rawBuffers, output, reader, using, spread, raced>>
  BY DEF Pop, ends
<1>2. p \in Buffers /\ p # None /\ seqOf[p] \in Seqs /\ seqOf[p] # -1
  BY BuffersAre, Constants DEF JBTypes, Seqs
<1>3. held' \subseteq held \ {p} /\ \A q \in held' : IsLater(seqOf[q], seqOf[p])
  <2>1. held' = { q \in held : IsLater(seqOf[q], seqOf[p]) }
    BY <1>1, <1>2 DEF Later, IsLater, Ahead
  <2> QED BY <1>2, <2>1, LaterFacts
<1>4. item = NoItem /\ Memory(item') = {p}
  BY <1>1, <1>2 DEF LoopOrder, Memory
<1>5. Piped' = Piped \cup {p} /\ InRing' = InRing
  <2>1. Memory(item) = {}
    BY <1>4 DEF Memory, NoItem
  <2>2. Memory(using') = Memory(using) /\ \A j \in 1..Len(output) : Memory(output'[j]) = Memory(output[j])
    BY <1>1
  <2> QED BY <1>1, <1>4, <2>1, <2>2 DEF Piped, InRing
<1>6. JBTypes'
  BY <1>1, <1>2, <1>3 DEF JBTypes, LoopStates, Items
<1>7. RingIsIndexed'
  BY <1>1 DEF RingIsIndexed
<1>8. OnlyTaken'
  BY <1>1, <1>3, <1>5 DEF OnlyTaken
<1>9. LoopOrder' /\ HeldAreLater'
  BY <1>1, <1>2, <1>3 DEF LoopOrder, HeldAreLater
<1>10. ASSUME ~spread
       PROVE  OneWindow' /\ ReaderIsFollowed' /\ ItemsAreDisjoint' /\ PutOnce'
  <2>1. OneWindow /\ ReaderIsFollowed /\ ItemsAreDisjoint /\ PutOnce
    BY <1>10
  <2>2. OneWindow'
    <3>1. Wanted' \subseteq Wanted
      BY <1>1, <1>3 DEF Wanted
    <3> QED BY <1>1, <2>1, <3>1 DEF OneWindow
  <2>3. ReaderIsFollowed'
    <3> SUFFICES ASSUME reader # None, TooLate(reader) PROVE TooLate(reader)'
      BY <1>1, <1>3, <1>5, <2>1 DEF ReaderIsFollowed
    <3>1. reader \in Buffers /\ seqOf[reader] \in Seqs /\ last \in Seqs
      BY DEF JBTypes, TooLate
    <3>2. InWindow(seqOf[p], seqOf[reader])
      BY <2>1 DEF OneWindow, Wanted
    <3>3. Ahead(seqOf[p], seqOf[reader]) < WinSize
      BY <1>2, <3>1, <3>2, NearStaysNear DEF TooLate
    <3>4. ASSUME NEW q \in held' PROVE Ahead(seqOf[q], seqOf[p]) < WinSize
      <4>1. seqOf[q] \in Seqs /\ InWindow(seqOf[q], seqOf[p]) /\ IsLater(seqOf[q], seqOf[p])
        BY <1>3, <2>1, <3>4 DEF OneWindow, Wanted, JBTypes
      <4> QED BY <1>2, <4>1, LaterFacts
    <3> QED BY <1>1, <1>2, <3>3, <3>4 DEF TooLate
  <2>4. ItemsAreDisjoint'
    <3>1. p \notin Piped
      BY <2>1 DEF ItemsAreDisjoint
    <3>2. Piped' \cap held' = {} /\ (Piped' \ {p}) \cap InRing' = {}
      BY <1>1, <1>3, <1>5, <2>1, <3>1 DEF ItemsAreDisjoint
    <3>3. /\ \A x, y \in 1..Len(output) : x # y => Memory(output[x]) \cap Memory(output[y]) = {}
          /\ \A x \in 1..Len(output) : Memory(output[x]) \cap ({p} \cup Memory(using)) = {}
          /\ {p} \cap Memory(using) = {}
      BY <2>1, <3>1 DEF ItemsAreDisjoint, Piped
    <3>4. Memory(using') = Memory(using) /\ output' = output /\ item'.mem = p
      BY <1>1
    <3> QED BY <1>1, <1>4, <3>2, <3>3, <3>4 DEF ItemsAreDisjoint
  <2>5. PutOnce'
    BY <1>1, <1>3, <1>5, <2>1 DEF PutOnce
  <2> QED BY <2>2, <2>3, <2>4, <2>5
<1> QED BY <1>1, <1>6, <1>7, <1>8, <1>9, <1>10

LEMMA RetrieveInv ==
  ASSUME JBInv, Retrieve
  PROVE  JBInv'
<1> DEFINE m == item.mem
           seq == seqOf[m]
           i == seq % WinSize
           own == rawBuffers[i].seq = seq
           raw == IF own THEN rawBuffers[i].buf ELSE None
           emptied == (IF own THEN {i} ELSE {}) \cup Swept(seq)
           swept == IF own THEN Swept(seq) \ {i} ELSE Swept(seq)
           back == { rawBuffers[j].buf : j \in swept }
<1> USE DEF JBInv
<1>1. /\ loop = "popped" /\ loop' = "sending"
      /\ item' = [item EXCEPT !.raw = raw]
      /\ rawBuffers' = [j \in DOMAIN rawBuffers |->
           IF j \in emptied THEN [rawBuffers[j] EXCEPT !.buf = None] ELSE rawBuffers[j]]
      /\ puts' = [q \in Buffers |-> IF q \in back THEN puts[q] + 1 ELSE puts[q]]
      /\ UNCHANGED <<taken, seqOf, held, last, output, reader, using, spread, raced>>
  BY DEF Retrieve, Put, ends
<1>2. m \in Buffers /\ m # None /\ seq \in Seqs /\ last = seq /\ last # -1 /\ item.raw = None
  BY <1>1, BuffersAre, Constants DEF LoopOrder, JBTypes, Items, Seqs
<1>3. i \in DOMAIN rawBuffers /\ raw \in Buffers \cup {None}
  <2> HIDE DEF m, seq, i, own
  <2>1. i \in 0..(WinSize - 1)
    BY <1>2, Constants DEF Seqs, i
  <2>2. rawBuffers[i].buf \in Buffers \cup {None} /\ i \in DOMAIN rawBuffers
    BY <2>1 DEF JBTypes
  <2> QED BY <2>2
<1>4. swept \subseteq DOMAIN rawBuffers /\ swept \subseteq emptied
      /\ \A j \in swept : rawBuffers[j].buf # None /\ IsEarlier(rawBuffers[j].seq, seq)
  BY DEF Swept, Stale
<1>5. raw # None => i \in emptied /\ rawBuffers[i].buf = raw /\ rawBuffers[i].seq = seq
  OBVIOUS
<1>6. m \in InRing => own /\ rawBuffers[i].buf = m
  <2> HIDE DEF m
  <2> SUFFICES ASSUME m \in InRing PROVE own /\ rawBuffers[i].buf = m
    OBVIOUS
  <2>1. rawBuffers[seqOf[m] % WinSize] = [buf |-> m, seq |-> seqOf[m]]
    BY RingMembers
  <2> QED BY <2>1
<1>7. item' = [mem |-> m, raw |-> raw]
  BY <1>1 DEF JBTypes, Items
<1> HIDE DEF m, seq, i, own, raw, emptied, swept, back
<1>8. raw # None => raw \in InRing /\ seqOf[raw] = seq
  BY <1>3, <1>5, RingMembers DEF InRing, RingIsIndexed
<1>9. ASSUME NEW q \in back
      PROVE  /\ q \in InRing /\ q # raw /\ seqOf[q] \in Seqs
             /\ IsEarlier(seqOf[q], seq) /\ q # m /\ q \notin held
  <2>1. PICK j \in swept : q = rawBuffers[j].buf
    BY <1>9 DEF back
  <2>2. q \in InRing /\ seqOf[q] = rawBuffers[j].seq /\ IsEarlier(seqOf[q], seq) /\ q \in Buffers
    BY <1>4, <2>1 DEF InRing, RingIsIndexed, JBTypes
  <2>3. seqOf[q] \in Seqs /\ seqOf[q] # seq
    BY <2>2 DEF JBTypes, IsEarlier
  <2>4. q # m /\ q # raw
    BY <1>8, <2>2, <2>3, BuffersAre DEF seq
  <2>5. q \notin held
    BY <1>2, <2>2, <2>3, LaterFacts DEF HeldAreLater
  <2> QED BY <2>2, <2>3, <2>4, <2>5
<1>10. InRing' \subseteq InRing /\ m \notin InRing' /\ raw \notin InRing' /\ back \cap InRing' = {}
  <2>1. ASSUME NEW q \in InRing'
        PROVE  /\ q # None /\ \E j \in DOMAIN rawBuffers : j \notin emptied /\ rawBuffers[j].buf = q
    BY <1>1 DEF InRing, JBTypes
  <2>2. ASSUME NEW q \in InRing' PROVE q \in InRing
    BY <2>1 DEF InRing
  <2>3. ASSUME NEW q \in InRing', NEW k \in emptied, k \in DOMAIN rawBuffers, rawBuffers[k].buf = q
        PROVE  FALSE
    BY <2>1, <2>3 DEF RingIsIndexed
  <2>4. raw \notin InRing'
    BY <1>3, <1>5, <2>1, <2>3
  <2>5. m \notin InRing'
    BY <1>3, <1>6, <2>2, <2>3 DEF emptied
  <2>6. back \cap InRing' = {}
    BY <1>4, <2>3 DEF back
  <2> QED BY <2>2, <2>4, <2>5, <2>6
<1>11. Memory(item) = {m} /\ Memory(item') = {m} \cup ({raw} \ {None})
  BY <1>2, <1>7 DEF Memory, m
<1>12. Piped' = Piped \cup ({raw} \ {None}) /\ m \in Piped
  <2>1. Memory(using') = Memory(using) /\ \A j \in 1..Len(output) : Memory(output'[j]) = Memory(output[j])
    BY <1>1
  <2> QED BY <1>1, <1>11, <2>1 DEF Piped
<1>13. JBTypes'
  <2>1. rawBuffers' \in [0..(WinSize - 1) -> [buf : Buffers \cup {None}, seq : Seqs]]
    BY <1>1 DEF JBTypes
  <2>2. puts' \in [Buffers -> Nat]
    BY <1>1 DEF JBTypes
  <2> QED BY <1>1, <1>2, <1>3, <1>7, <2>1, <2>2 DEF JBTypes, Items, LoopStates
<1>14. RingIsIndexed'
  BY <1>1 DEF RingIsIndexed, JBTypes
<1>15. OnlyTaken'
  <2>1. raw # None => raw \in 1..taken
    BY <1>8 DEF OnlyTaken
  <2>2. InRing' \cup held' \cup Piped' \cup ({reader'} \ {None}) \subseteq 1..taken'
    BY <1>1, <1>10, <1>12, <2>1 DEF OnlyTaken
  <2>3. \A q \in back : q \in 1..taken
    BY <1>9 DEF OnlyTaken
  <2>4. \A q \in Buffers : q > taken => q \notin back
    BY <2>3, BuffersAre DEF JBTypes
  <2>5. \A q \in Buffers : q > taken' => puts'[q] = 0
    BY <1>1, <2>4 DEF OnlyTaken
  <2> QED BY <2>2, <2>5 DEF OnlyTaken
<1>16. LoopOrder' /\ HeldAreLater'
  BY <1>1 DEF LoopOrder, HeldAreLater
<1>17. ASSUME ~spread
       PROVE  OneWindow' /\ ReaderIsFollowed' /\ ItemsAreDisjoint' /\ PutOnce'
  <2>1. OneWindow /\ ReaderIsFollowed /\ ItemsAreDisjoint /\ PutOnce
    BY <1>17
  <2>2. Wanted = held \cup {m} /\ Wanted' = held
    BY <1>1 DEF Wanted, m
  <2>3. OneWindow'
    BY <1>1, <2>1, <2>2 DEF OneWindow
  <2>4. \A q \in held : Ahead(seqOf[q], last) < WinSize
    <3> SUFFICES ASSUME NEW q \in held PROVE Ahead(seqOf[q], seq) < WinSize
      BY <1>2
    <3>1. seqOf[q] \in Seqs /\ InWindow(seqOf[q], seq) /\ IsLater(seqOf[q], seq)
      BY <1>2, <2>1, <2>2 DEF OneWindow, HeldAreLater, JBTypes, seq
    <3> QED BY <1>2, <3>1, LaterFacts
  <2>5. \A q \in back : q \notin Piped
    BY <1>9, <2>1, <2>2, RingIsApart
  <2>6. raw # None => raw \notin held /\ (raw # m => raw \notin Piped)
    <3>1. ASSUME NEW q \in held PROVE seqOf[q] # seq
      <4>1. seqOf[q] \in Seqs /\ IsLater(seqOf[q], seq)
        BY <1>2 DEF HeldAreLater, JBTypes
      <4> QED BY <1>2, <4>1, LaterFacts
    <3> QED BY <1>8, <2>1, <2>2, <3>1, RingIsApart
  <2>7. ReaderIsFollowed'
    <3> SUFFICES ASSUME reader # None,
                        reader \in Piped' \/ (puts'[reader] # 0 /\ reader \notin raced)
                 PROVE  TooLate(reader)
      BY <1>1, <2>1 DEF ReaderIsFollowed, TooLate
    <3>1. reader \in Buffers /\ seqOf[reader] \in Seqs
      BY DEF JBTypes
    <3>2. CASE reader \in Piped \/ (puts[reader] # 0 /\ reader \notin raced)
      BY <2>1, <3>2 DEF ReaderIsFollowed
    <3>3. CASE reader = raw
      <4>1. Ahead(last, seqOf[reader]) = 0
        BY <1>2, <1>8, <3>1, <3>3, AheadIs DEF Seqs
      <4> QED BY <1>2, <2>4, <4>1, Constants DEF TooLate
    <3>4. CASE reader \in back
      <4>1. IsEarlier(seqOf[reader], seq) /\ InWindow(seqOf[reader], seq)
        BY <1>9, <2>1, <2>2, <3>4 DEF OneWindow, seq
      <4>2. Ahead(seq, seqOf[reader]) < WinSize
        BY <1>2, <3>1, <4>1, EarlierIsNear
      <4> QED BY <1>2, <2>4, <4>2 DEF TooLate
    <3> QED BY <1>1, <1>12, <3>1, <3>2, <3>3, <3>4
  <2>8. ItemsAreDisjoint'
    <3>1. Piped' \cap held' = {} /\ Piped' \cap InRing' = {}
      BY <1>1, <1>10, <1>12, <2>1, <2>6 DEF ItemsAreDisjoint, m
    <3>2. /\ \A x, y \in 1..Len(output) : x # y => Memory(output[x]) \cap Memory(output[y]) = {}
          /\ \A x \in 1..Len(output) : Memory(output[x]) \cap ({m} \cup Memory(using)) = {}
          /\ {m} \cap Memory(using) = {}
      BY <1>11, <2>1 DEF ItemsAreDisjoint
    <3>3. raw # None /\ raw # m =>
            raw \notin Memory(using) /\ \A x \in 1..Len(output) : raw \notin Memory(output[x])
      BY <2>6 DEF Piped
    <3>4. /\ \A x \in 1..Len(output) : Memory(output[x]) \cap (Memory(item') \cup Memory(using)) = {}
          /\ Memory(item') \cap Memory(using) = {}
      BY <1>11, <3>2, <3>3 DEF Memory
    <3>5. Memory(using') = Memory(using) /\ output' = output /\ loop' # "popped"
      BY <1>1
    <3> QED BY <3>1, <3>2, <3>4, <3>5 DEF ItemsAreDisjoint
  <2>9. PutOnce'
    <3> SUFFICES ASSUME NEW q \in Buffers \ raced'
                 PROVE  puts'[q] = 0 \/ (puts'[q] = 1 /\ q \notin InRing' \cup held' \cup Piped')
      BY DEF PutOnce
    <3>1. CASE q \in back
      <4>1. puts[q] = 0
        BY <1>1, <1>9, <2>1, <3>1 DEF PutOnce
      <4>2. puts'[q] = 1
        BY <1>1, <3>1, <4>1
      <4> QED BY <1>1, <1>9, <1>10, <1>12, <2>5, <3>1, <4>2
    <3>2. CASE q \notin back
      <4>1. puts'[q] = puts[q]
        BY <1>1, <3>2
      <4> QED BY <1>1, <1>8, <1>10, <1>12, <2>1, <4>1 DEF PutOnce
    <3> QED BY <3>1, <3>2
  <2> QED BY <2>3, <2>7, <2>8, <2>9
<1> QED BY <1>1, <1>13, <1>14, <1>15, <1>16, <1>17

LEMMA EmitSilenceInv ==
  ASSUME JBInv, EmitSilence
  PROVE  JBInv'
<1> DEFINE p == taken + 1
<1> USE DEF JBInv
<1>1. /\ loop = "select" /\ loop' = "sending" /\ last # -1
      /\ taken' = p /\ item' = [mem |-> p, raw |-> None]
      /\ UNCHANGED <<seqOf, puts, rawBuffers, held, last, output, reader, using, spread, raced>>
  BY DEF EmitSilence, ring, ends
<1>2. p \in Buffers /\ p # None /\ p \in Int
  BY Constants DEF EmitSilence, Buffers, None, JBTypes
<1>3. p \notin InRing \cup held \cup Piped /\ puts[p] = 0 /\ p # reader
  BY <1>2 DEF OnlyTaken, JBTypes
<1>4. 1..taken \subseteq 1..taken' /\ p \in 1..taken' /\ \A q \in Buffers : q > taken' => q > taken
  BY <1>1, <1>2, BuffersAre DEF JBTypes
<1>5. taken' \in 0..MaxBuffers
  BY <1>1, <1>2, Constants DEF JBTypes, Buffers
<1> HIDE DEF p
<1>6. item = NoItem /\ Memory(item) = {} /\ Memory(item') = {p}
  BY <1>1, <1>2 DEF LoopOrder, Memory, NoItem
<1>7. Piped' = Piped \cup {p} /\ InRing' = InRing
  <2>1. Memory(using') = Memory(using) /\ \A j \in 1..Len(output) : Memory(output'[j]) = Memory(output[j])
    BY <1>1
  <2> QED BY <1>1, <1>6, <2>1 DEF Piped, InRing
<1>8. JBTypes'
  BY <1>1, <1>2, <1>5 DEF JBTypes, LoopStates, Items
<1>9. RingIsIndexed'
  BY <1>1 DEF RingIsIndexed
<1>10. OnlyTaken'
  <2>1. \A q \in Buffers : q > taken' => puts'[q] = 0
    BY <1>1, <1>4 DEF OnlyTaken
  <2>2. InRing' \cup held' \cup Piped' \cup ({reader'} \ {None}) \subseteq 1..taken'
    <3> HIDE DEF JBInv
    <3>1. InRing \cup held \cup Piped \cup ({reader} \ {None}) \subseteq 1..taken
      BY DEF OnlyTaken, JBInv
    <3> QED BY <1>1, <1>4, <1>7, <3>1
  <2> QED BY <2>1, <2>2 DEF OnlyTaken
<1>11. LoopOrder' /\ HeldAreLater'
  BY <1>1 DEF LoopOrder, HeldAreLater
<1>12. ASSUME ~spread
       PROVE  OneWindow' /\ ReaderIsFollowed' /\ ItemsAreDisjoint' /\ PutOnce'
  <2>1. OneWindow /\ ReaderIsFollowed /\ ItemsAreDisjoint /\ PutOnce
    BY <1>12
  <2>2. OneWindow' /\ ReaderIsFollowed'
    BY <1>1, <1>3, <1>7, <2>1 DEF OneWindow, ReaderIsFollowed, TooLate, Wanted
  <2>3. ItemsAreDisjoint'
    <3>1. Piped' \cap held' = {} /\ Piped' \cap InRing' = {}
      BY <1>1, <1>3, <1>7, <2>1 DEF ItemsAreDisjoint
    <3>2. /\ \A x, y \in 1..Len(output) : x # y => Memory(output[x]) \cap Memory(output[y]) = {}
          /\ \A x \in 1..Len(output) : Memory(output[x]) \cap ({p} \cup Memory(using)) = {}
          /\ {p} \cap Memory(using) = {}
      <4>1. p \notin Piped
        BY <1>3
      <4> QED BY <2>1, <4>1 DEF ItemsAreDisjoint, Piped
    <3>3. Memory(using') = Memory(using) /\ output' = output /\ loop' # "popped"
      BY <1>1
    <3> QED BY <1>6, <3>1, <3>2, <3>3 DEF ItemsAreDisjoint
  <2>4. PutOnce'
    BY <1>1, <1>3, <1>7, <2>1 DEF PutOnce
  <2> QED BY <2>2, <2>3, <2>4
<1> QED BY <1>1, <1>8, <1>9, <1>10, <1>11, <1>12

\* A step that moves items along, or drops one, and changes nothing else.
LEMMA ItemsMove ==
  ASSUME JBInv,
         UNCHANGED <<taken, seqOf, puts, rawBuffers, held, last, reader, spread, raced>>,
         (loop # "popped" /\ loop' # "popped") \/ UNCHANGED <<loop, item>>,
         LoopOrder', JBTypes', Piped' \subseteq Piped,
         ~spread =>
           /\ \A i, j \in 1..Len(output') : i # j => Memory(output'[i]) \cap Memory(output'[j]) = {}
           /\ \A i \in 1..Len(output') :
                Memory(output'[i]) \cap (Memory(item') \cup Memory(using')) = {}
           /\ Memory(item') \cap Memory(using') = {}
  PROVE  JBInv'
<1> USE DEF JBInv
<1>1. InRing' = InRing /\ Wanted' = Wanted
  BY DEF InRing, Wanted
<1>2. RingIsIndexed' /\ HeldAreLater'
  BY DEF RingIsIndexed, HeldAreLater
<1>3. OnlyTaken'
  BY <1>1 DEF OnlyTaken
<1>4. ASSUME ~spread
      PROVE  OneWindow' /\ ReaderIsFollowed' /\ ItemsAreDisjoint' /\ PutOnce'
  <2>1. OneWindow' /\ ReaderIsFollowed'
    BY <1>1, <1>4 DEF OneWindow, ReaderIsFollowed, TooLate
  <2>2. /\ Piped' \cap held' = {}
        /\ (IF loop' = "popped" THEN Piped' \ {item'.mem} ELSE Piped') \cap InRing' = {}
    BY <1>1, <1>4 DEF ItemsAreDisjoint
  <2>3. ItemsAreDisjoint'
    BY <1>4, <2>2 DEF ItemsAreDisjoint
  <2>4. PutOnce'
    BY <1>1, <1>4 DEF PutOnce
  <2> QED BY <2>1, <2>3, <2>4
<1> QED BY <1>2, <1>3, <1>4

LEMMA SendInv ==
  ASSUME JBInv, Send
  PROVE  JBInv'
<1> USE DEF JBInv
<1>1. /\ loop = "sending" /\ loop' = "select"
      /\ output' = Append(output, item) /\ item' = NoItem
      /\ UNCHANGED <<taken, seqOf, puts, rawBuffers, held, last, reader, using, spread, raced>>
  BY DEF Send, ring, ends
<1>2. output \in Seq(Items) /\ item \in Items /\ Len(output) \in Nat
  BY DEF JBTypes
<1>3. /\ Len(output') = Len(output) + 1 /\ output'[Len(output) + 1] = item
      /\ \A j \in 1..Len(output) : output'[j] = output[j]
      /\ 1..Len(output') = 1..Len(output) \cup {Len(output) + 1}
  BY <1>1, <1>2
<1>4. Memory(item') = {} /\ Memory(using') = Memory(using)
  BY <1>1 DEF Memory, NoItem
<1>5. JBTypes' /\ LoopOrder'
  <2>1. NoItem \in Items
    BY DEF NoItem, Items
  <2> QED BY <1>1, <1>2, <2>1 DEF JBTypes, LoopOrder, LoopStates
<1> DEFINE n == Len(output)
<1> HIDE DEF n
<1>6. 1..Len(output') = 1..n \cup {n + 1} /\ n + 1 \notin 1..n /\ output'[n + 1] = item
      /\ \A j \in 1..n : output'[j] = output[j]
  BY <1>2, <1>3 DEF n
<1>7. Piped' = Piped
  BY <1>4, <1>6 DEF Piped, n
<1>8. ASSUME ~spread
      PROVE /\ \A i, j \in 1..Len(output') : i # j => Memory(output'[i]) \cap Memory(output'[j]) = {}
            /\ \A i \in 1..Len(output') :
                 Memory(output'[i]) \cap (Memory(item') \cup Memory(using')) = {}
            /\ Memory(item') \cap Memory(using') = {}
  <2>1. /\ \A x, y \in 1..n : x # y => Memory(output[x]) \cap Memory(output[y]) = {}
        /\ \A x \in 1..n : Memory(output[x]) \cap (Memory(item) \cup Memory(using)) = {}
        /\ Memory(item) \cap Memory(using) = {}
    BY <1>8 DEF ItemsAreDisjoint, n
  <2> QED BY <1>4, <1>6, <2>1
<1> QED BY <1>1, <1>5, <1>7, <1>8, ItemsMove

LEMMA ReceiveInv ==
  ASSUME JBInv, Receive
  PROVE  JBInv'
<1> USE DEF JBInv
<1>1. /\ output # <<>> /\ using' = Head(output) /\ output' = Tail(output)
      /\ UNCHANGED <<taken, seqOf, puts, rawBuffers, held, last, reader, loop, item, spread, raced>>
  BY DEF Receive, ring
<1>2. /\ Len(output') = Len(output) - 1 /\ Len(output) \in Nat \ {0} /\ using' = output[1]
      /\ \A j \in 1..Len(output') : output'[j] = output[j + 1]
      /\ output' \in Seq(Items) /\ using' \in Items
  BY <1>1 DEF JBTypes
<1>3. 1 \in 1..Len(output) /\ \A j \in 1..Len(output') : j + 1 \in 1..Len(output) /\ j + 1 # 1
  BY <1>2
<1>4. Memory(item') = Memory(item)
  BY <1>1
<1>5. Piped' \subseteq Piped
  BY <1>2, <1>3, <1>4 DEF Piped
<1>6. JBTypes'
  BY <1>1, <1>2 DEF JBTypes
<1>7. LoopOrder'
  BY <1>1 DEF LoopOrder
<1>8. ASSUME ~spread
      PROVE /\ \A i, j \in 1..Len(output') : i # j => Memory(output'[i]) \cap Memory(output'[j]) = {}
            /\ \A i \in 1..Len(output') :
                 Memory(output'[i]) \cap (Memory(item') \cup Memory(using')) = {}
            /\ Memory(item') \cap Memory(using') = {}
  <2>1. /\ \A x, y \in 1..Len(output) : x # y => Memory(output[x]) \cap Memory(output[y]) = {}
        /\ \A x \in 1..Len(output) : Memory(output[x]) \cap (Memory(item) \cup Memory(using)) = {}
    BY <1>8 DEF ItemsAreDisjoint
  <2>2. \A i, j \in 1..Len(output') : i # j => i + 1 # j + 1
    BY <1>2
  <2> QED BY <1>2, <1>3, <1>4, <2>1, <2>2
<1> QED BY <1>1, <1>5, <1>6, <1>7, <1>8, ItemsMove

LEMMA ReturnInv ==
  ASSUME JBInv, Return
  PROVE  JBInv'
<1> DEFINE back == Returned(using)
<1> USE DEF JBInv
<1>1. /\ puts' = [q \in Buffers |-> IF q \in back THEN puts[q] + 1 ELSE puts[q]]
      /\ using' = NoItem
      /\ UNCHANGED <<taken, seqOf, rawBuffers, held, last, reader, loop, item, output, spread, raced>>
  BY DEF Return, Put, ring
<1>2. \A q \in back : q # None => q \in Memory(using)
  BY DEF Returned, Memory
<1> HIDE DEF back
<1>3. Memory(using') = {} /\ Memory(item') = Memory(item) /\ InRing' = InRing /\ Wanted' = Wanted
  BY <1>1 DEF Memory, NoItem, InRing, Wanted
<1>4. /\ Piped' \subseteq Piped /\ Memory(using) \subseteq Piped
      /\ Piped' = Memory(item) \cup UNION { Memory(output[j]) : j \in 1..Len(output) }
  BY <1>1, <1>3 DEF Piped
<1>5. JBTypes'
  <2>1. puts' \in [Buffers -> Nat]
    BY <1>1 DEF JBTypes
  <2>2. NoItem \in Items
    BY DEF NoItem, Items
  <2> QED BY <1>1, <2>1, <2>2 DEF JBTypes
<1>6. RingIsIndexed' /\ HeldAreLater' /\ LoopOrder'
  BY <1>1 DEF RingIsIndexed, HeldAreLater, LoopOrder
<1>7. OnlyTaken'
  <2>1. \A q \in Buffers : q > taken => q \notin back
    BY <1>2, <1>4, BuffersAre DEF OnlyTaken, JBTypes
  <2>2. \A q \in Buffers : q > taken' => puts'[q] = 0
    BY <1>1, <2>1 DEF OnlyTaken
  <2> QED BY <1>1, <1>3, <1>4, <2>2 DEF OnlyTaken
<1>8. ASSUME ~spread
      PROVE  OneWindow' /\ ReaderIsFollowed' /\ ItemsAreDisjoint' /\ PutOnce'
  <2>1. OneWindow /\ ReaderIsFollowed /\ ItemsAreDisjoint /\ PutOnce
    BY <1>8
  <2>2. OneWindow'
    BY <1>1, <1>3, <2>1 DEF OneWindow
  <2>3. ReaderIsFollowed'
    <3> SUFFICES ASSUME reader # None,
                        reader \in Piped' \/ (puts'[reader] # 0 /\ reader \notin raced)
                 PROVE  TooLate(reader)
      BY <1>1, <2>1 DEF ReaderIsFollowed, TooLate
    <3>1. reader \in Buffers
      BY DEF JBTypes
    <3>2. reader \in Piped \/ (puts[reader] # 0 /\ reader \notin raced)
      BY <1>1, <1>2, <1>4, <3>1
    <3> QED BY <2>1, <3>2 DEF ReaderIsFollowed
  <2>4. ItemsAreDisjoint'
    <3>1. /\ Piped' \cap held = {}
          /\ (IF loop = "popped" THEN Piped' \ {item.mem} ELSE Piped') \cap InRing = {}
      BY <1>4, <2>1 DEF ItemsAreDisjoint
    <3>2. /\ \A x, y \in 1..Len(output) : x # y => Memory(output[x]) \cap Memory(output[y]) = {}
          /\ \A x \in 1..Len(output) : Memory(output[x]) \cap Memory(item) = {}
      BY <2>1 DEF ItemsAreDisjoint
    <3> QED BY <1>1, <1>3, <3>1, <3>2 DEF ItemsAreDisjoint
  <2>5. ASSUME NEW q \in back, q \in Buffers
        PROVE  q \in Piped /\ q \notin Piped' /\ q \notin held /\ q \notin InRing
    <3>1. q \in Memory(using) /\ q \in Piped
      BY <1>2, <1>4, <2>5, BuffersAre
    <3>2. q \notin Piped' /\ q \notin Memory(item)
      BY <1>4, <2>1, <3>1 DEF ItemsAreDisjoint
    <3>3. loop = "popped" => q # item.mem
      BY <3>1, <3>2 DEF Memory
    <3> QED BY <2>1, <3>1, <3>2, <3>3 DEF ItemsAreDisjoint
  <2>6. PutOnce'
    <3> SUFFICES ASSUME NEW q \in Buffers \ raced'
                 PROVE  puts'[q] = 0 \/ (puts'[q] = 1 /\ q \notin InRing' \cup held' \cup Piped')
      BY DEF PutOnce
    <3>1. CASE q \in back
      <4>1. puts[q] = 0
        BY <1>1, <2>1, <2>5, <3>1 DEF PutOnce
      <4> QED BY <1>1, <1>3, <2>5, <3>1, <4>1
    <3>2. CASE q \notin back
      BY <1>1, <1>3, <1>4, <2>1, <3>2 DEF PutOnce
    <3> QED BY <3>1, <3>2
  <2> QED BY <2>2, <2>3, <2>4, <2>6
<1> QED BY <1>1, <1>5, <1>6, <1>7, <1>8

LEMMA StopCleansInv ==
  ASSUME JBInv, StopCleans
  PROVE  JBInv'
<1> USE DEF JBInv
<1>1. /\ puts' = [q \in Buffers |-> IF q \in InRing THEN puts[q] + 1 ELSE puts[q]]
      /\ raced' = raced \cup (InRing \cap (Wanted \cup {reader}))
      /\ rawBuffers' = [i \in DOMAIN rawBuffers |-> [rawBuffers[i] EXCEPT !.buf = None]]
      /\ UNCHANGED <<taken, seqOf, held, last, reader, loop, item, output, using, spread>>
  BY DEF StopCleans, Put, ends, InRing
<1>2. InRing' = {} /\ Piped' = Piped /\ Wanted' = Wanted
  BY <1>1 DEF InRing, Piped, Memory, Wanted, JBTypes
<1>3. JBTypes'
  <2>1. rawBuffers' \in [0..(WinSize - 1) -> [buf : Buffers \cup {None}, seq : Seqs]]
    BY <1>1 DEF JBTypes
  <2>2. puts' \in [Buffers -> Nat]
    BY <1>1 DEF JBTypes
  <2> QED BY <1>1, <2>1, <2>2 DEF JBTypes
<1>4. RingIsIndexed'
  BY <1>1 DEF RingIsIndexed, JBTypes
<1>5. HeldAreLater' /\ LoopOrder'
  BY <1>1 DEF HeldAreLater, LoopOrder
<1>6. OnlyTaken'
  <2>1. \A q \in Buffers : q > taken => q \notin InRing
    BY BuffersAre DEF OnlyTaken, JBTypes
  <2>2. \A q \in Buffers : q > taken' => puts'[q] = 0
    BY <1>1, <2>1 DEF OnlyTaken
  <2> QED BY <1>1, <1>2, <2>2 DEF OnlyTaken
<1>7. ASSUME ~spread
      PROVE  OneWindow' /\ ReaderIsFollowed' /\ ItemsAreDisjoint' /\ PutOnce'
  <2>1. OneWindow /\ ReaderIsFollowed /\ ItemsAreDisjoint /\ PutOnce
    BY <1>7
  <2>2. OneWindow'
    BY <1>1, <1>2, <2>1 DEF OneWindow
  <2>3. ReaderIsFollowed'
    <3> SUFFICES ASSUME reader # None,
                        reader \in Piped \/ (puts'[reader] # 0 /\ reader \notin raced')
                 PROVE  TooLate(reader)
      BY <1>1, <1>2, <2>1 DEF ReaderIsFollowed, TooLate
    <3>1. reader \in Buffers
      BY DEF JBTypes
    <3> QED BY <1>1, <2>1, <3>1 DEF ReaderIsFollowed
  <2>4. ItemsAreDisjoint'
    <3>1. /\ \A x, y \in 1..Len(output) : x # y => Memory(output[x]) \cap Memory(output[y]) = {}
          /\ \A x \in 1..Len(output) : Memory(output[x]) \cap (Memory(item) \cup Memory(using)) = {}
          /\ Memory(item) \cap Memory(using) = {}
          /\ Piped \cap held = {}
      BY <2>1 DEF ItemsAreDisjoint
    <3> QED BY <1>1, <1>2, <3>1 DEF ItemsAreDisjoint, Memory
  <2>5. PutOnce'
    <3> SUFFICES ASSUME NEW q \in Buffers \ raced'
                 PROVE  puts'[q] = 0 \/ (puts'[q] = 1 /\ q \notin held \cup Piped)
      BY <1>1, <1>2 DEF PutOnce
    <3>1. CASE q \in InRing
      <4>1. q \notin Wanted /\ q \notin raced
        BY <1>1, <3>1
      <4>2. q \notin held \cup Piped
        BY <2>1, <3>1, <4>1, RingIsApart DEF Wanted
      <4>3. puts[q] = 0
        BY <2>1, <3>1, <4>1 DEF PutOnce
      <4> QED BY <1>1, <3>1, <4>2, <4>3
    <3>2. CASE q \notin InRing
      BY <1>1, <2>1, <3>2 DEF PutOnce
    <3> QED BY <3>1, <3>2
  <2> QED BY <2>2, <2>3, <2>4, <2>5
<1> QED BY <1>1, <1>3, <1>4, <1>5, <1>6, <1>7

LEMMA JBStepInv == JBInv /\ [JBNext]_jbVars => JBInv'
<1> SUFFICES ASSUME JBInv, [JBNext]_jbVars PROVE JBInv'
  OBVIOUS
<1>1. ASSUME NEW seq \in Arrivals, PushRaw(seq) PROVE JBInv'
  BY <1>1, PushRawInv
<1>2. ASSUME NEW p \in held, Pop(p) PROVE JBInv'
  BY <1>2, PopInv
<1>3. CASE PushPacket \/ Retrieve \/ EmitSilence \/ Send \/ StopCleans \/ Receive \/ Return
  BY <1>3, PushPacketInv, RetrieveInv, EmitSilenceInv, SendInv, StopCleansInv, ReceiveInv,
     ReturnInv
<1>4. CASE PacketArrives \/ LoopStops \/ Cancel \/ StopCloses \/ ConsumerStops \/ UNCHANGED jbVars
  <2>1. /\ UNCHANGED <<taken, seqOf, puts, rawBuffers, held, last, reader, item, output, using,
                       spread, raced>>
        /\ UNCHANGED loop \/ (loop = "select" /\ loop' = "exited")
    BY <1>4 DEF PacketArrives, LoopStops, Cancel, StopCloses, ConsumerStops, jbVars, ring, ends
  <2>2. JBTypes' /\ LoopOrder'
    BY <2>1 DEF JBInv, JBTypes, LoopStates, LoopOrder
  <2>3. Piped' = Piped
    BY <2>1 DEF Piped, Memory
  <2>4. ~spread =>
          /\ \A i, j \in 1..Len(output') : i # j => Memory(output'[i]) \cap Memory(output'[j]) = {}
          /\ \A i \in 1..Len(output') :
               Memory(output'[i]) \cap (Memory(item') \cup Memory(using')) = {}
          /\ Memory(item') \cap Memory(using') = {}
    BY <2>1 DEF JBInv, ItemsAreDisjoint
  <2> QED BY <2>1, <2>2, <2>3, <2>4, ItemsMove
<1> QED BY <1>1, <1>2, <1>3, <1>4 DEF JBNext

\* A pooled buffer goes back once and not while a packet lies in it, whatever the
\* sequence numbers, for packets that wait less than a window apart and buffers that
\* Stop does not take from under the release loop.
THEOREM BuffersAreReturnedOnce == JBSpec => []RawBuffersReturnedOnce
<1>1. JBInv => RawBuffersReturnedOnce
  <2> SUFFICES ASSUME JBInv, ~spread, NEW p \in Buffers \ raced
               PROVE  puts[p] <= IF p \in InFlight THEN 0 ELSE 1
    BY DEF RawBuffersReturnedOnce
  <2>1. puts[p] = 0 \/ (puts[p] = 1 /\ p \notin InRing \cup held \cup Piped)
    BY DEF JBInv, PutOnce
  <2>2. p \in InFlight => p \in held \cup Piped
    BY BuffersAre DEF InFlight, Wanted, Piped, Memory
  <2> QED BY <2>1, <2>2
<1> QED BY <1>1, JBInitInv, JBStepInv, PTL DEF JBSpec
=============================================================================
