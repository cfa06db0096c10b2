------------------------- MODULE MediaSessionProofs -------------------------
(***************************************************************************)
(* A call's media for every value of the constants.  The ring of the RTP     *)
(* writer, for every capacity, holds the unsent bytes in order, and so the   *)
(* writer implements AudioQueue.  The tones of the DTMF generator, for every *)
(* sample rate, packet time and width of the durations.  The codec that      *)
(* handleInvite agrees on, for every offer.  The timestamps of a session and *)
(* the digits that arrive, for any number of digits and of packets.          *)
(***************************************************************************)
EXTENDS MediaSession, WellFoundedInduction, FiniteSetTheorems, TLAPS

\* Where the index a is in the ring, for the sums of two that occur.
Wrap(a) == IF a < Capacity THEN a ELSE a - Capacity

LEMMA CapacityIsPositive == Capacity \in Nat /\ Capacity > 0
<1>1. BytesPerTick \in Nat /\ BytesPerTick > 0 /\ RingTicks \in Nat /\ RingTicks > 0
  BY RTPWriterConstants
<1> QED BY <1>1, SMT DEF Capacity

LEMMA ModIsWrap ==
  ASSUME NEW a \in Nat, a < Capacity + Capacity
  PROVE  a % Capacity = Wrap(a) /\ Wrap(a) \in Slots
<1> DEFINE C == Capacity
<1>1. C \in Nat /\ C > 0 /\ a < C + C
  BY CapacityIsPositive
<1> HIDE DEF C
<1>2. CASE a < C
  <2>1. a % C = a
    BY <1>1, <1>2, SMT
  <2> QED BY <1>1, <1>2, <2>1, SMT DEF Wrap, Slots, C
<1>3. CASE ~(a < C)
  <2>1. (a - C) \in Nat /\ a - C < C /\ a = (a - C) + C
    BY <1>1, <1>3, SMT
  <2>2. ((a - C) + C) % C = a - C
    BY <1>1, <2>1, SMT
  <2> QED BY <1>1, <1>3, <2>1, <2>2, SMT DEF Wrap, Slots, C
<1> QED BY <1>2, <1>3

\* The inductive invariant, with the indices wrapped by hand.
RingInv ==
  /\ head \in Nat /\ head < Capacity
  /\ count \in Nat /\ count <= Capacity
  /\ tail = Wrap(head + count)
  /\ consumed \in Nat /\ accepted = consumed + count
  /\ \A i \in Nat : i < count => ringBuf[Wrap(head + i)] = consumed + i

LEMMA RingInvIsRing == RingInv <=> (RingHoldsUnsentAudio /\ consumed \in Nat)
<1>1. ASSUME head \in Nat, head < Capacity, count \in Nat, count <= Capacity
      PROVE  /\ (head + count) % Capacity = Wrap(head + count)
             /\ Wrap(head + count) \in Slots
             /\ \A i \in Nat : i < count => (head + i) % Capacity = Wrap(head + i)
  <2>1. head + count \in Nat /\ head + count < Capacity + Capacity
    BY <1>1, CapacityIsPositive, SMT
  <2>2. ASSUME NEW i \in Nat, i < count
        PROVE  (head + i) % Capacity = Wrap(head + i)
    <3>1. head + i \in Nat /\ head + i < Capacity + Capacity
      BY <1>1, <2>2, CapacityIsPositive, SMT
    <3> QED BY <3>1, ModIsWrap
  <2> QED BY <2>1, <2>2, ModIsWrap
<1>2. RingInv => RingHoldsUnsentAudio
  <2> SUFFICES ASSUME RingInv PROVE RingHoldsUnsentAudio
    OBVIOUS
  <2>1. head \in Slots /\ tail \in Slots /\ count \in 0..Capacity
    BY <1>1, CapacityIsPositive, SMT DEF RingInv, Slots
  <2>2. tail = (head + count) % Capacity /\ consumed + count = accepted
    BY <1>1 DEF RingInv
  <2>3. ASSUME NEW i \in 0..(count - 1)
        PROVE  ringBuf[(head + i) % Capacity] = consumed + i
    <3>1. i \in Nat /\ i < count
      BY SMT DEF RingInv
    <3> QED BY <1>1, <3>1 DEF RingInv
  <2> QED BY <2>1, <2>2, <2>3 DEF RingHoldsUnsentAudio
<1>3. RingHoldsUnsentAudio /\ consumed \in Nat => RingInv
  <2> SUFFICES ASSUME RingHoldsUnsentAudio, consumed \in Nat PROVE RingInv
    OBVIOUS
  <2>1. head \in Nat /\ head < Capacity /\ count \in Nat /\ count <= Capacity
    BY CapacityIsPositive, SMT DEF RingHoldsUnsentAudio, Slots
  <2>2. tail = Wrap(head + count) /\ accepted = consumed + count
    BY <1>1, <2>1 DEF RingHoldsUnsentAudio
  <2>3. ASSUME NEW i \in Nat, i < count
        PROVE  ringBuf[Wrap(head + i)] = consumed + i
    <3>1. i \in 0..(count - 1)
      BY <2>1, <2>3, SMT
    <3> QED BY <1>1, <2>1, <2>3, <3>1 DEF RingHoldsUnsentAudio
  <2> QED BY <2>1, <2>2, <2>3 DEF RingInv
<1> QED BY <1>2, <1>3 DEF RingInv

LEMMA RingInvInit == RWInit => RingInv
  BY CapacityIsPositive, SMT DEF RWInit, RingInv, Wrap

----------------------------------------------------------------------------
(* Bytes in and out                                                         *)

LEMMA RoomFits ==
  ASSUME RingInv, NEW n \in Nat
  PROVE  Room(n) \in Nat /\ Room(n) <= Capacity - count
  BY CapacityIsPositive, SMT DEF RingInv, Room, Least

\* The two copies put the m new bytes behind the old ones and touch nothing else.
LEMMA CopiesAppend ==
  ASSUME RingInv, NEW m \in Nat, m <= Capacity - count,
         NEW i \in Nat, i < count + m
  PROVE  RingAfter(m)[Wrap(head + i)] = consumed + i
<1> DEFINE w == Wrap(head + i)
           firstPart == Least(Capacity - tail, m)
<1>1. w \in Slots
  BY CapacityIsPositive, SMT DEF RingInv, Wrap, Slots
<1>2. RingAfter(m)[w] = IF w >= tail /\ w < tail + firstPart THEN accepted + (w - tail)
                        ELSE IF w < m - firstPart THEN accepted + firstPart + w
                        ELSE ringBuf[w]
  BY <1>1 DEF RingAfter
<1>3. CASE i < count
  <2>1. ringBuf[w] = consumed + i
    BY <1>3 DEF RingInv
  <2>2. ~(w >= tail /\ w < tail + firstPart)
    BY <1>3, CapacityIsPositive, SMT DEF RingInv, Wrap, Least
  <2>3. ~(w < m - firstPart)
    BY <1>3, CapacityIsPositive, SMT DEF RingInv, Wrap, Least
  <2> QED BY <1>2, <2>1, <2>2, <2>3
<1>4. CASE ~(i < count)
  <2>1. CASE w >= tail /\ w < tail + firstPart
    <3>1. accepted + (w - tail) = consumed + i
      BY <1>4, <2>1, CapacityIsPositive, SMT DEF RingInv, Wrap, Least
    <3> QED BY <1>2, <2>1, <3>1
  <2>2. CASE ~(w >= tail /\ w < tail + firstPart)
    <3>1. w < m - firstPart /\ accepted + firstPart + w = consumed + i
      BY <1>4, <2>2, CapacityIsPositive, SMT DEF RingInv, Wrap, Least
    <3> QED BY <1>2, <2>2, <3>1
  <2> QED BY <2>1, <2>2
<1> QED BY <1>3, <1>4

LEMMA AudioDataKeepsRing ==
  ASSUME RingInv, NEW n \in Nat, AudioData(n)
  PROVE  RingInv' /\ accepted' \in accepted..(consumed + Capacity)
<1> DEFINE m == Room(n)
<1>1. m \in Nat /\ m <= Capacity - count
  BY RoomFits
<1>2. /\ ringBuf' = RingAfter(m) /\ tail' = (tail + m) % Capacity /\ count' = count + m
      /\ accepted' = accepted + m /\ head' = head /\ consumed' = consumed
  BY DEF AudioData
<1> HIDE DEF m
<1>3. tail \in Nat /\ tail + m \in Nat /\ tail + m < Capacity + Capacity
  BY <1>1, CapacityIsPositive, SMT DEF RingInv, Wrap
<1>4. tail' = Wrap(tail + m)
  BY <1>2, <1>3, ModIsWrap
<1>5. tail' = Wrap(head + count)'
  BY <1>1, <1>2, <1>4, CapacityIsPositive, SMT DEF RingInv, Wrap
<1>6. ASSUME NEW i \in Nat, i < count'
      PROVE  (ringBuf[Wrap(head + i)])' = consumed' + i
  <2>1. RingAfter(m)[Wrap(head + i)] = consumed + i
    BY <1>1, <1>2, <1>6, CopiesAppend
  <2> QED BY <1>2, <2>1 DEF Wrap
<1>7. /\ head' \in Nat /\ head' < Capacity /\ count' \in Nat /\ count' <= Capacity
      /\ consumed' \in Nat /\ accepted' = consumed' + count'
  BY <1>1, <1>2, CapacityIsPositive, SMT DEF RingInv
<1>8. accepted' \in accepted..(consumed + Capacity)
  BY <1>1, <1>2, CapacityIsPositive, SMT DEF RingInv
<1> QED BY <1>5, <1>6, <1>7, <1>8 DEF RingInv

LEMMA ConsumeKeepsRing ==
  ASSUME RingInv, NEW n \in Nat, n <= count, Consume(n), UNCHANGED <<ringBuf, tail, accepted>>
  PROVE  RingInv'
<1>1. /\ head' = (head + n) % Capacity /\ count' = count - n /\ consumed' = consumed + n
      /\ ringBuf' = ringBuf /\ tail' = tail /\ accepted' = accepted
  BY DEF Consume
<1>2. head + n \in Nat /\ head + n < Capacity + Capacity
  BY CapacityIsPositive, SMT DEF RingInv
<1>3. head' = Wrap(head + n)
  BY <1>1, <1>2, ModIsWrap
<1>4. /\ head' \in Nat /\ head' < Capacity /\ count' \in Nat /\ count' <= Capacity
      /\ consumed' \in Nat /\ accepted' = consumed' + count'
  BY <1>1, <1>3, CapacityIsPositive, SMT DEF RingInv, Wrap
<1>5. tail' = Wrap(head + count)'
  BY <1>1, <1>3, CapacityIsPositive, SMT DEF RingInv, Wrap
<1>6. ASSUME NEW i \in Nat, i < count'
      PROVE  (ringBuf[Wrap(head + i)])' = consumed' + i
  <2>1. n + i \in Nat /\ n + i < count
    BY <1>1, <1>6, CapacityIsPositive, SMT DEF RingInv
  <2>2. ringBuf[Wrap(head + (n + i))] = consumed + (n + i)
    BY <2>1 DEF RingInv
  <2>3. Wrap(Wrap(head + n) + i) = Wrap(head + (n + i))
    BY <2>1, CapacityIsPositive, SMT DEF RingInv, Wrap
  <2>4. Wrap(head' + i) = Wrap(head + (n + i)) /\ consumed' + i = consumed + (n + i)
    BY <1>1, <1>3, <2>1, <2>3, SMT DEF RingInv
  <2> QED BY <1>1, <2>2, <2>4 DEF Wrap
<1> QED BY <1>4, <1>5, <1>6 DEF RingInv

----------------------------------------------------------------------------
(* The steps                                                                *)

LEMMA TickConsumes ==
  ASSUME RingInv, TickDTMF \/ TickAudio
  PROVE  RingInv'
<1>0. BytesPerTick \in Nat
  BY RTPWriterConstants
<1>1. CASE TickDTMF /\ Discards
  <2>1. BytesPerTick <= count /\ Consume(BytesPerTick) /\ UNCHANGED <<ringBuf, tail, accepted>>
    BY <1>0, <1>1, SMT DEF TickDTMF, Discards, RingInv
  <2> QED BY <1>0, <2>1, ConsumeKeepsRing
<1>2. CASE TickDTMF /\ ~Discards
  BY <1>2 DEF TickDTMF, RingInv, Wrap
<1>3. CASE TickAudio
  <2>1. Least(count, BytesPerTick) \in Nat /\ Least(count, BytesPerTick) <= count
    BY <1>0, SMT DEF RingInv, Least
  <2>2. Consume(Least(count, BytesPerTick)) /\ UNCHANGED <<ringBuf, tail, accepted>>
    BY <1>3 DEF TickAudio
  <2> QED BY <2>1, <2>2, ConsumeKeepsRing
<1> QED BY <1>1, <1>2, <1>3

LEMMA RingInvNext == RingInv /\ [RWNext]_rwVars => RingInv'
<1> SUFFICES ASSUME RingInv, [RWNext]_rwVars PROVE RingInv'
  OBVIOUS
<1>1. ASSUME UNCHANGED ringVars PROVE RingInv'
  BY <1>1 DEF ringVars, RingInv, Wrap
<1>2. ASSUME NEW n \in Chunks, AudioData(n) PROVE RingInv'
  BY <1>2, RTPWriterConstants, AudioDataKeepsRing
<1>3. ASSUME NEW r \in Requests, NEW ms \in Durations, DTMFRequest(r, ms) PROVE RingInv'
  BY <1>1, <1>3 DEF DTMFRequest
<1>4. CASE GenerateTurn
  BY <1>1, <1>4 DEF GenerateTurn
<1>5. CASE GenerateReturn
  BY <1>1, <1>5 DEF GenerateReturn
<1>6. CASE TickDTMF \/ TickAudio
  BY <1>6, TickConsumes
<1>7. CASE TickIdle
  BY <1>1, <1>7 DEF TickIdle, rwVars, ringVars
<1>8. CASE UNCHANGED rwVars
  BY <1>1, <1>8 DEF rwVars, ringVars
<1> QED BY <1>2, <1>3, <1>4, <1>5, <1>6, <1>7, <1>8 DEF RWNext, Generate, Tick

\* The ring never overwrites, repeats or skips a byte, for every capacity, packet
\* size and sizes of the agent's messages.
THEOREM RingIsExact == RWSpec => []RingHoldsUnsentAudio
<1>1. RWSpec => []RingInv
  BY RingInvInit, RingInvNext, PTL DEF RWSpec
<1>2. RingInv => RingHoldsUnsentAudio
  BY RingInvIsRing
<1> QED BY <1>1, <1>2, PTL

----------------------------------------------------------------------------
(* The writer implements the queue                                          *)

\* The copies out of the ring take the oldest bytes, and every byte of the pooled
\* buffer is written.
LEMMA FrameIsOldest ==
  ASSUME RingInv, NEW i \in 0..(BytesPerTick - 1)
  PROVE  Frame[i] = IF i < count THEN consumed + i ELSE Zero
<1> DEFINE firstPart == Least(Capacity - head, Least(BytesPerTick, count))
           secondPart == Least(BytesPerTick - firstPart, count - firstPart)
<1>0. BytesPerTick \in Nat /\ i \in Nat /\ i < BytesPerTick
  BY RTPWriterConstants, SMT
<1>1. Frame[i] = IF i < firstPart THEN ringBuf[head + i]
                 ELSE IF i < firstPart + secondPart THEN ringBuf[i - firstPart]
                 ELSE IF i >= count THEN Zero ELSE Stale
  BY DEF Frame
<1>2. CASE i < firstPart
  <2>1. i < count /\ Wrap(head + i) = head + i
    BY <1>0, <1>2, CapacityIsPositive, SMT DEF RingInv, Wrap, Least
  <2>2. ringBuf[Wrap(head + i)] = consumed + i
    BY <1>0, <2>1 DEF RingInv
  <2> QED BY <1>1, <1>2, <2>1, <2>2
<1>3. CASE ~(i < firstPart) /\ i < firstPart + secondPart
  <2>1. i < count /\ Wrap(head + i) = i - firstPart
    BY <1>0, <1>3, CapacityIsPositive, SMT DEF RingInv, Wrap, Least
  <2>2. ringBuf[Wrap(head + i)] = consumed + i
    BY <1>0, <2>1 DEF RingInv
  <2> QED BY <1>1, <1>3, <2>1, <2>2
<1>4. CASE ~(i < firstPart) /\ ~(i < firstPart + secondPart)
  <2>1. i >= count /\ ~(i < count)
    BY <1>0, <1>4, CapacityIsPositive, SMT DEF RingInv, Least
  <2> QED BY <1>1, <1>4, <2>1
<1> QED BY <1>2, <1>3, <1>4

LEMMA TickAudioSends ==
  ASSUME RingInv, TickAudio
  PROVE  Queue!Send
<1>0. BytesPerTick \in Nat /\ count \in Nat /\ consumed \in Nat
  BY RTPWriterConstants DEF RingInv
<1>1. Queue!Waiting = count
  BY <1>0, SMT DEF Queue!Waiting, RingInv
<1>2. count > 0 /\ accepted' = accepted
  BY DEF TickAudio
<1>3. frame' = [i \in 0..(BytesPerTick - 1) |-> IF i < count THEN consumed + i ELSE Zero]
  <2>1. frame' = Frame
    BY DEF TickAudio
  <2>2. Frame = [i \in 0..(BytesPerTick - 1) |-> Frame[i]]
    BY DEF Frame
  <2> QED BY <2>1, <2>2, FrameIsOldest
<1>4. consumed' = IF count < BytesPerTick THEN accepted ELSE consumed + BytesPerTick
  <2>1. consumed' = consumed + Least(count, BytesPerTick)
    BY DEF TickAudio, Consume
  <2> QED BY <1>0, <2>1, SMT DEF Least, RingInv
<1> QED BY <1>1, <1>2, <1>3, <1>4 DEF Queue!Send

LEMMA StepsAreQueueSteps ==
  RingInv /\ [RWNext]_rwVars => [Queue!AQNext]_<<consumed, accepted, frame>>
<1> SUFFICES ASSUME RingInv, [RWNext]_rwVars
             PROVE  Queue!AQNext \/ UNCHANGED <<consumed, accepted, frame>>
  OBVIOUS
<1>0. BytesPerTick \in Nat
  BY RTPWriterConstants
<1>1. ASSUME NEW n \in Chunks, AudioData(n) PROVE Queue!AQNext
  <2>1. accepted' \in accepted..(consumed + Capacity)
    BY <1>1, RTPWriterConstants, AudioDataKeepsRing
  <2>2. UNCHANGED <<consumed, frame>>
    BY <1>1 DEF AudioData
  <2> QED BY <2>1, <2>2 DEF Queue!AQNext, Queue!Accept, Capacity
<1>2. ASSUME NEW r \in Requests, NEW ms \in Durations, DTMFRequest(r, ms)
      PROVE  UNCHANGED <<consumed, accepted, frame>>
  BY <1>2 DEF DTMFRequest, ringVars
<1>3. CASE Generate
  BY <1>3 DEF Generate, GenerateTurn, GenerateReturn, ringVars
<1>4. CASE TickDTMF
  <2>1. CASE Discards
    <3>1. Queue!Waiting >= BytesPerTick
      BY <1>0, <2>1, SMT DEF Queue!Waiting, RingInv, Discards
    <3>2. consumed' = consumed + BytesPerTick /\ UNCHANGED <<accepted, frame>>
      BY <1>4, <2>1 DEF TickDTMF, Consume
    <3> QED BY <3>1, <3>2 DEF Queue!AQNext, Queue!Discard
  <2>2. CASE ~Discards
    BY <1>4, <2>2 DEF TickDTMF
  <2> QED BY <2>1, <2>2
<1>5. CASE TickAudio
  BY <1>5, TickAudioSends DEF Queue!AQNext
<1>6. CASE TickIdle \/ UNCHANGED rwVars
  BY <1>6 DEF TickIdle, rwVars
<1> QED BY <1>1, <1>2, <1>3, <1>4, <1>5, <1>6 DEF RWNext, Tick

\* The writer's ring is a queue: what the agent sends leaves in order, in packets
\* that are full as long as there is enough and padded with silence otherwise.
THEOREM WriterIsAQueue == RWSpec => ImplementsAudioQueue
<1>1. RWInit => Queue!AQInit
  BY DEF RWInit, Queue!AQInit
<1>2. RWSpec => []RingInv
  BY RingInvInit, RingInvNext, PTL DEF RWSpec
<1> QED BY <1>1, <1>2, StepsAreQueueSteps, PTL DEF RWSpec, ImplementsAudioQueue, Queue!AQSpec

----------------------------------------------------------------------------
(* The tones                                                                *)

Payloads == [req : Requests, end : BOOLEAN, dur : Int]
Tones == [req : Requests, ms : Int, total : Int, step : Int, cur : Int, out : Seq(Payloads)]

\* A tone keeps the length and the step Generate computed at its start, and grows by
\* the step until it has its length.
ToneInv ==
  /\ gen \in Tones \cup {Idle}
  /\ gen # Idle => /\ gen \in Tones
                   /\ gen.total = Total(gen.ms) /\ gen.step = Interval(gen.ms)
  /\ TonesGrowToTheirLength

LEMMA SamplesAreIntegers ==
  ASSUME NEW ms \in Int
  PROVE  AllSamples(ms) \in Int /\ Total(ms) \in Nat /\ Interval(ms) \in Nat
<1>1. SampleRate \in Nat /\ PTime \in Nat /\ U16 \in Nat /\ U16 > 0
  BY RTPWriterConstants
<1>2. ASSUME NEW d \in Int PROVE AllSamples(d) \in Int
  <2>1. SampleRate * d \in Int /\ SampleRate * (-d) \in Int
    BY <1>1, SMT
  <2> QED BY <2>1, SMT DEF AllSamples
<1>3. Least(ms, PTime) \in Int
  BY <1>1, SMT DEF Least
<1>4. ASSUME NEW a \in Int PROVE a % U16 \in Nat
  BY <1>1, SMT
<1> QED BY <1>2, <1>3, <1>4 DEF Total, Interval

LEMMA WholeMultiple ==
  ASSUME NEW u \in Nat, NEW s \in Nat, s > 0
  PROVE  u \div s \in Nat /\ (u \div s) * s <= u
BY SMT

\* The multiples of the step below a bound: one that is below a multiple is at least
\* one step below it.
LEMMA NextMultiple ==
  ASSUME NEW n \in Nat, NEW k \in Int, NEW s \in Nat, NEW t \in Int, n * s < t, t <= k * s
  PROVE  n * s + s <= k * s /\ (n + 1) * s = n * s + s
<1>1. n < k
  <2> SUFFICES ASSUME k <= n PROVE FALSE
    OBVIOUS
  <2>1. k * s <= n * s
    BY SMT
  <2> QED BY <2>1, SMT
<1>2. (n + 1) * s <= k * s
  BY <1>1, SMT
<1>3. (n + 1) * s = n * s + s
  BY SMT
<1> QED BY <1>2, <1>3, SMT

\* A tone that fits has the length asked for, and one more step does not overflow as
\* long as it is shorter.
LEMMA StepFits ==
  ASSUME NEW ms \in Int, FitsIn16Bits(ms), NEW n \in Nat, n * Interval(ms) < AllSamples(ms)
  PROVE  /\ Total(ms) = AllSamples(ms)
         /\ (n * Interval(ms) + Interval(ms)) % U16 = n * Interval(ms) + Interval(ms)
         /\ (n + 1) * Interval(ms) = n * Interval(ms) + Interval(ms)
         /\ n * Interval(ms) \in Nat
<1> DEFINE s == Interval(ms)
           t == AllSamples(ms)
           k == (U16 - 1) \div s
<1>1. U16 \in Nat /\ U16 > 0 /\ s \in Nat /\ t \in Int
  BY RTPWriterConstants, SamplesAreIntegers
<1>2. ms > 0
  <2> SUFFICES ASSUME ms = 0 PROVE FALSE
    BY SMT DEF FitsIn16Bits
  <2>1. t = 0
    BY RTPWriterConstants, SMT DEF AllSamples
  <2>2. n * s >= 0
    BY <1>1, SMT
  <2> QED BY <1>1, <2>1, <2>2, SMT
<1>3. s > 0 /\ t <= k * s
  BY <1>2 DEF FitsIn16Bits
<1>4. n * s < t /\ n * s \in Nat
  BY <1>1, SMT
<1>5. k \in Nat /\ k * s <= U16 - 1
  <2>1. U16 - 1 \in Nat
    BY <1>1, SMT
  <2> QED BY <1>1, <1>3, <2>1, WholeMultiple
<1> HIDE DEF s, t, k
<1>6. n * s + s <= k * s /\ (n + 1) * s = n * s + s
  BY <1>1, <1>3, <1>4, <1>5, NextMultiple
<1>7. n * s + s \in 0..(U16 - 1) /\ t \in 0..(U16 - 1)
  <2>1. k * s \in Int
    BY <1>1, <1>5, SMT
  <2> QED BY <1>1, <1>3, <1>4, <1>5, <1>6, <2>1, SMT
<1>8. ASSUME NEW a \in 0..(U16 - 1) PROVE a % U16 = a
  BY <1>1, SMT
<1> QED BY <1>4, <1>6, <1>7, <1>8 DEF s, t, Total

LEMMA RequestStartsTone ==
  ASSUME ToneInv, NEW r \in Requests, NEW ms \in Durations, DTMFRequest(r, ms)
  PROVE  ToneInv'
<1>0. ms \in Int
  BY RTPWriterConstants
<1>1. gen' = [req |-> r, ms |-> ms, total |-> Total(ms), step |-> Interval(ms), cur |-> 0,
              out |-> <<>>]
  BY DEF DTMFRequest
<1>2. gen' \in Tones
  <2>1. <<>> \in Seq(Payloads)
    OBVIOUS
  <2> QED BY <1>0, <1>1, <2>1, SamplesAreIntegers DEF Tones
<1>3. /\ gen'.ms = ms /\ gen'.total = Total(ms) /\ gen'.step = Interval(ms) /\ gen'.cur = 0
      /\ gen'.out = <<>>
  BY <1>1
<1>4. TonesGrowToTheirLength'
  <2>1. Len(gen'.out) = 0
    BY <1>3
  <2>2. FitsIn16Bits(ms) => AllSamples(ms) >= 0
    <3>1. ms >= 0 => SampleRate * ms >= 0
      BY <1>0, RTPWriterConstants, SMT
    <3>2. ms >= 0 => AllSamples(ms) >= 0
      BY <1>0, <3>1, RTPWriterConstants, SMT DEF AllSamples
    <3> QED BY <3>2 DEF FitsIn16Bits
  <2>3. 0 * Interval(ms) = 0
    BY <1>0, SamplesAreIntegers, SMT
  <2>4. FitsIn16Bits(ms) => 0 = Least(0 * Interval(ms), AllSamples(ms))
    BY <2>2, <2>3 DEF Least
  <2>5. FitsIn16Bits(gen.ms)' <=> FitsIn16Bits(ms)
    BY <1>3 DEF FitsIn16Bits, AllSamples, Interval
  <2>6. AllSamples(gen.ms)' = AllSamples(ms)
    BY <1>3 DEF AllSamples
  <2> QED BY <1>3, <2>1, <2>4, <2>5, <2>6 DEF TonesGrowToTheirLength, Least
<1> QED BY <1>2, <1>3, <1>4 DEF ToneInv, Total, Interval, AllSamples

LEMMA TurnGrowsTone ==
  ASSUME ToneInv, GenerateTurn
  PROVE  ToneInv'
<1> DEFINE n == Len(gen.out)
           payload == [req |-> gen.req, end |-> FALSE, dur |-> ToneNext]
<1>0. /\ gen \in Tones /\ gen # Idle /\ gen.cur < gen.total
      /\ gen.total = Total(gen.ms) /\ gen.step = Interval(gen.ms)
  BY DEF GenerateTurn, ToneMore, ToneInv
<1>1. gen' = [gen EXCEPT !.cur = ToneNext, !.out = Append(gen.out, payload)]
  BY DEF GenerateTurn
<1>2. ToneNext \in Int
  <2>1. U16 \in Nat /\ U16 > 0 /\ gen.cur \in Int /\ gen.step \in Int /\ gen.total \in Int
    BY <1>0, RTPWriterConstants DEF Tones
  <2>2. (gen.cur + gen.step) % U16 \in Int
    BY <2>1, SMT
  <2> QED BY <2>1, <2>2 DEF ToneNext
<1>3. payload \in Payloads /\ gen.out \in Seq(Payloads)
  BY <1>0, <1>2 DEF Tones, Payloads
<1>4. Append(gen.out, payload) \in Seq(Payloads)
  BY <1>3
<1>5. gen' \in Tones
  BY <1>0, <1>1, <1>2, <1>4 DEF Tones
<1>6. /\ gen'.ms = gen.ms /\ gen'.total = gen.total /\ gen'.step = gen.step
      /\ gen'.cur = ToneNext /\ gen'.out = Append(gen.out, payload)
  BY <1>0, <1>1 DEF Tones
<1>7. TonesGrowToTheirLength'
  <2> DEFINE ms == gen.ms
             s == gen.step
             t == AllSamples(gen.ms)
  <2>0. FitsIn16Bits(gen.ms)' <=> FitsIn16Bits(gen.ms)
    BY <1>6 DEF FitsIn16Bits, AllSamples, Interval
  <2>1. AllSamples(gen.ms)' = AllSamples(gen.ms)
    BY <1>6 DEF AllSamples
  <2> SUFFICES ASSUME FitsIn16Bits(ms)
               PROVE  /\ gen'.cur = Least(Len(gen'.out) * s, t)
                      /\ \A i \in 1..Len(gen'.out) : gen'.out[i].dur = Least(i * s, t)
                      /\ Len(gen'.out) > 0 => (Len(gen'.out) - 1) * s < t
    BY <1>6, <2>0, <2>1 DEF TonesGrowToTheirLength, Least
  <2>2. ms \in Int /\ n \in Nat /\ s = Interval(ms) /\ s \in Nat /\ t \in Int
    BY <1>0, SamplesAreIntegers DEF Tones
  <2>3. gen.cur = Least(n * s, t) /\ \A i \in 1..n : gen.out[i].dur = Least(i * s, t)
    BY <1>0 DEF ToneInv, TonesGrowToTheirLength
  <2>4. n * s < t
    <3>1. t >= 0 => Total(ms) <= t
      <4>1. U16 \in Nat /\ U16 > 0
        BY RTPWriterConstants
      <4>2. ASSUME NEW a \in Nat PROVE a % U16 <= a
        BY <4>1, SMT
      <4> QED BY <2>2, <4>2 DEF Total
    <3>2. n * s \in Nat
      BY <2>2, SMT
    <3>3. CASE t >= 0
      BY <1>0, <2>2, <2>3, <3>1, <3>2, <3>3, SMT DEF Least, Tones
    <3>4. CASE t < 0
      <4>1. ms >= 0
        BY DEF FitsIn16Bits
      <4>2. SampleRate * ms >= 0
        BY <2>2, <4>1, RTPWriterConstants, SMT
      <4> QED BY <2>2, <3>4, <4>1, <4>2, RTPWriterConstants, SMT DEF AllSamples
    <3> QED BY <2>2, <3>3, <3>4
  <2>5. /\ Total(ms) = t /\ (n * s + s) % U16 = n * s + s /\ (n + 1) * s = n * s + s
        /\ n * s \in Nat
    BY <2>2, <2>4, StepFits
  <2>6. ToneNext = Least((n + 1) * s, t)
    <3>1. gen.cur = n * s
      BY <2>2, <2>3, <2>4, <2>5, SMT DEF Least
    <3>2. ToneNext = IF n * s + s > t THEN t ELSE n * s + s
      BY <1>0, <2>5, <3>1 DEF ToneNext
    <3> QED BY <2>2, <2>5, <3>2, SMT DEF Least
  <2>7. Len(gen'.out) = n + 1 /\ (n + 1) - 1 = n
    BY <1>3, <1>6, <2>2
  <2>8. ASSUME NEW i \in 1..(n + 1) PROVE gen'.out[i].dur = Least(i * s, t)
    <3>1. CASE i = n + 1
      BY <1>3, <1>6, <2>2, <2>6, <3>1
    <3>2. CASE i # n + 1
      <4>1. i \in 1..n
        BY <2>2, <3>2
      <4>2. gen'.out[i] = gen.out[i]
        BY <1>3, <1>6, <4>1
      <4> QED BY <2>3, <4>1, <4>2
    <3> QED BY <3>1, <3>2
  <2> QED BY <1>6, <2>4, <2>6, <2>7, <2>8
<1> QED BY <1>0, <1>5, <1>6, <1>7 DEF ToneInv, Total, Interval, AllSamples

LEMMA ToneInvNext == ToneInv /\ [RWNext]_rwVars => ToneInv'
<1> SUFFICES ASSUME ToneInv, [RWNext]_rwVars PROVE ToneInv'
  OBVIOUS
<1>1. ASSUME UNCHANGED gen PROVE ToneInv'
  BY <1>1 DEF ToneInv, TonesGrowToTheirLength, Total, Interval, AllSamples, FitsIn16Bits, Least
<1>2. ASSUME NEW r \in Requests, NEW ms \in Durations, DTMFRequest(r, ms) PROVE ToneInv'
  BY <1>2, RequestStartsTone
<1>3. CASE GenerateTurn
  BY <1>3, TurnGrowsTone
<1>4. CASE GenerateReturn
  <2>1. gen' = Idle
    BY <1>4 DEF GenerateReturn
  <2> QED BY <2>1 DEF ToneInv, TonesGrowToTheirLength, Idle
<1>5. ASSUME NEW m \in Chunks, AudioData(m) PROVE ToneInv'
  BY <1>1, <1>5 DEF AudioData, toneVars
<1>6. CASE Tick \/ UNCHANGED rwVars
  BY <1>1, <1>6 DEF Tick, TickDTMF, TickAudio, TickIdle, toneVars, rwVars
<1> QED BY <1>2, <1>3, <1>4, <1>5, <1>6 DEF RWNext, Generate

\* Generate's durations for every tone that fits in 16 bits: one packet time more with
\* every packet, up to exactly the length asked for, and no packet after that.
THEOREM TonesAreExact == RWSpec => []TonesGrowToTheirLength
<1>1. RWInit => ToneInv
  BY DEF RWInit, ToneInv, TonesGrowToTheirLength
<1>2. ToneInv => TonesGrowToTheirLength
  BY DEF ToneInv
<1> QED BY <1>1, <1>2, ToneInvNext, PTL DEF RWSpec

----------------------------------------------------------------------------
(* The offer                                                                *)

LEMMA LeastNatural ==
  ASSUME NEW S, S \subseteq Nat, S # {}
  PROVE  \E n \in S : \A m \in S : n <= m
<1> DEFINE R == {ss \in Nat \X Nat : ss[1] < ss[2]}
<1>1. IsWellFoundedOn(R, Nat)
  BY NatLessThanWellFounded DEF OpToRel
<1>2. PICK n \in S : \A m \in S : ~(<<m, n>> \in R)
  BY <1>1, WFMin, Zenon
<1>3. ASSUME NEW m \in S PROVE n <= m
  <2>1. m \in Nat /\ n \in Nat
    OBVIOUS
  <2>2. m < n => <<m, n>> \in R
    BY <2>1
  <2>3. ~(m < n)
    BY <1>2, <2>2
  <2> QED BY <2>1, <2>3
<1> QED BY <1>3

\* getDynamicPT finds the first line with the name, if there is one.
LEMMA DynamicPTIsFirst ==
  ASSUME NEW m, m.maps \in Seq(MapLine), NEW name
  PROVE  \/ /\ DynamicPT(m, name) = [ok |-> FALSE]
            /\ \A i \in 1..Len(m.maps) : m.maps[i].name # name
         \/ \E i \in 1..Len(m.maps) :
              /\ m.maps[i].name = name
              /\ DynamicPT(m, name) = [ok |-> TRUE, pt |-> m.maps[i].pt,
                                       rate |-> m.maps[i].rate, ch |-> m.maps[i].ch]
<1> DEFINE hits == { i \in 1..Len(m.maps) : m.maps[i].name = name }
           IsNamed(map) == map.name = name
<1>1. FirstOf(m.maps, IsNamed) = IF hits = {} THEN 0 ELSE CHOOSE i \in hits : \A j \in hits : i <= j
  BY DEF FirstOf
<1>2. DynamicPT(m, name) =
        IF FirstOf(m.maps, IsNamed) = 0 THEN [ok |-> FALSE]
        ELSE [ok |-> TRUE, pt |-> m.maps[FirstOf(m.maps, IsNamed)].pt % U8,
              rate |-> m.maps[FirstOf(m.maps, IsNamed)].rate,
              ch |-> m.maps[FirstOf(m.maps, IsNamed)].ch]
  BY DEF DynamicPT
<1>3. CASE hits = {}
  BY <1>1, <1>2, <1>3
<1>4. CASE hits # {}
  <2> DEFINE f == CHOOSE i \in hits : \A j \in hits : i <= j
  <2>1. hits \subseteq Nat
    OBVIOUS
  <2>2. \E i \in hits : \A j \in hits : i <= j
    BY <1>4, <2>1, LeastNatural, Zenon
  <2>3. f \in hits
    BY <2>2, Zenon
  <2> HIDE DEF f
  <2>4. f \in 1..Len(m.maps) /\ m.maps[f].name = name /\ f # 0
    BY <2>3
  <2>5. m.maps[f] \in MapLine
    BY <2>4
  <2>6. m.maps[f].pt % U8 = m.maps[f].pt
    <3> DEFINE pt == m.maps[f].pt
    <3>1. pt \in 0..255
      BY <2>5 DEF MapLine, U8
    <3> HIDE DEF pt
    <3>2. pt % 256 = pt
      BY <3>1
    <3> QED BY <3>2 DEF pt, U8
  <2>7. FirstOf(m.maps, IsNamed) = f
    BY <1>1, <1>4 DEF f
  <2>8. DynamicPT(m, name) = [ok |-> TRUE, pt |-> m.maps[f].pt,
                              rate |-> m.maps[f].rate, ch |-> m.maps[f].ch]
    BY <1>2, <2>4, <2>6, <2>7
  <2> QED BY <2>4, <2>8
<1> QED BY <1>3, <1>4

Media(offer) == { offer.media[i] : i \in DOMAIN offer.media }
Codecs == {"PASS", "L16", "PCMU", "PCMA"}

LEMMA MediaLines ==
  ASSUME NEW offer, FitsRTP(offer)
  PROVE  /\ Len(offer.media) \in Nat
         /\ \A i \in 1..Len(offer.media) :
              offer.media[i].port \in Int /\ offer.media[i].maps \in Seq(MapLine)
<1>1. offer.media \in Seq(Media(offer))
  BY DEF FitsRTP, Media
<1>2. Len(offer.media) \in Nat /\ DOMAIN offer.media = 1..Len(offer.media)
  BY <1>1
<1> QED BY <1>2 DEF FitsRTP, MapLine

\* negotiateStream looks at the first audio line.
LEMMA FirstAudioLine ==
  ASSUME NEW offer, FitsRTP(offer), FirstOf(offer.media, IsAudio) # 0
  PROVE  LET a == FirstOf(offer.media, IsAudio)
         IN /\ a \in 1..Len(offer.media) /\ IsAudio(offer.media[a])
            /\ \A i \in 1..Len(offer.media) : IsAudio(offer.media[i]) => a <= i
<1> DEFINE hits == { i \in 1..Len(offer.media) : IsAudio(offer.media[i]) }
           a == FirstOf(offer.media, IsAudio)
<1>1. a = IF hits = {} THEN 0 ELSE CHOOSE i \in hits : \A j \in hits : i <= j
  BY DEF FirstOf
<1>2. hits # {} /\ hits \subseteq Nat
  BY <1>1
<1>3. \E i \in hits : \A j \in hits : i <= j
  BY <1>2, LeastNatural, Zenon
<1>4. a \in hits /\ \A j \in hits : a <= j
  BY <1>1, <1>2, <1>3, Zenon
<1> HIDE DEF a
<1> QED BY <1>4 DEF a

\* getRemoteRTPAddr takes that line too, if it has an address and a port.
LEMMA AddressOfFirstAudio ==
  ASSUME NEW offer, FitsRTP(offer), FirstOf(offer.media, IsAudio) # 0,
         offer.media[FirstOf(offer.media, IsAudio)].port > 0,
         MediaIP(offer, FirstOf(offer.media, IsAudio)) # NoAddr
  PROVE  RemoteAddr(offer).media = FirstOf(offer.media, IsAudio)
<1> DEFINE a == FirstOf(offer.media, IsAudio)
           usable == { i \in 1..Len(offer.media) :
                         /\ IsAudio(offer.media[i])
                         /\ MediaIP(offer, i) # NoAddr
                         /\ offer.media[i].port > 0 }
           i == CHOOSE j \in usable : \A k \in usable : j <= k
<1>1. a \in usable /\ \A k \in usable : a <= k
  BY FirstAudioLine
<1>2. usable \subseteq Nat
  OBVIOUS
<1>3. i \in usable /\ \A k \in usable : i <= k
  BY <1>1, Zenon
<1>4. i = a
  <2>1. i <= a /\ a <= i
    BY <1>1, <1>3
  <2>2. i \in Nat /\ a \in Nat
    BY <1>1, <1>2, <1>3
  <2> HIDE DEF i, a
  <2> QED BY <2>1, <2>2
<1>5. RemoteAddr(offer) = [ok |-> TRUE, ip |-> MediaIP(offer, i), port |-> offer.media[i].port,
                           media |-> i]
  BY <1>1 DEF RemoteAddr
<1> HIDE DEF i
<1> QED BY <1>4, <1>5

LEMMA FoundLine ==
  ASSUME NEW m, m.maps \in Seq(MapLine), NEW name, DynamicPT(m, name).ok
  PROVE  \E i \in 1..Len(m.maps) :
           /\ m.maps[i].name = name
           /\ DynamicPT(m, name) = [ok |-> TRUE, pt |-> m.maps[i].pt,
                                    rate |-> m.maps[i].rate, ch |-> m.maps[i].ch]
<1>1. DynamicPT(m, name) # [ok |-> FALSE]
  <2>1. [ok |-> FALSE].ok = FALSE
    OBVIOUS
  <2> QED BY <2>1, Zenon
<1> QED BY <1>1, DynamicPTIsFirst

\* With no stray L16 line, an L16 codec is found exactly when it is offered.
LEMMA L16IsFound ==
  ASSUME NEW m, m.maps \in Seq(MapLine), ~StrayL16(m)
  PROVE  L16Usable(m) <=> Offers(m, "L16")
<1>1. Offers(m, "L16") <=> \E i \in 1..Len(m.maps) :
         m.maps[i].name = "L16" /\ m.maps[i].pt \in m.fmts /\ ValidL16(m.maps[i])
  BY DEF Offers
<1>2. ASSUME L16Usable(m) PROVE Offers(m, "L16")
  <2>1. DynamicPT(m, "L16").ok
    BY <1>2 DEF L16Usable, L16Listed
  <2>2. PICK i \in 1..Len(m.maps) :
          /\ m.maps[i].name = "L16"
          /\ DynamicPT(m, "L16") = [ok |-> TRUE, pt |-> m.maps[i].pt,
                                    rate |-> m.maps[i].rate, ch |-> m.maps[i].ch]
    BY <2>1, FoundLine
  <2>3. m.maps[i].pt \in m.fmts /\ ValidL16(m.maps[i])
    BY <1>2, <2>2 DEF L16Usable, L16Listed, Listed, ValidL16
  <2> QED BY <1>1, <2>2, <2>3
<1> QED BY <1>1, <1>2 DEF StrayL16

L16Side == {"PASS", "L16"}

\* Every codec that is picked is in common, is the best, and is within the encoder's
\* reach; its payload type is one of the offer, and its rtpmap too if it is L16.
LEMMA PickIsBest ==
  ASSUME NEW ws \in Codecs, NEW m, m.maps \in Seq(MapLine),
         StrayL16(m) => ws \notin L16Side
  PROVE  LET prefs == Preferences(ws)
             common == { i \in 1..Len(prefs) : Offers(m, prefs[i]) }
             codec == Pick(ws, m)
         IN /\ ~CodecError(ws, m)
            /\ codec = NoCodec <=> common = {}
            /\ codec # NoCodec =>
                 /\ \E i \in common : codec.name = prefs[i] /\ \A j \in common : i <= j
                 /\ Encoding(ws, codec) # "error"
                 /\ codec.pt \in m.fmts
                 /\ \/ codec.pt \in {PCMU, PCMA}
                    \/ \E i \in 1..Len(m.maps) :
                         m.maps[i] = [name |-> codec.name, pt |-> codec.pt,
                                      rate |-> codec.rate, ch |-> codec.ch]
<1> DEFINE prefs == Preferences(ws)
           common == { i \in 1..Len(prefs) : Offers(m, prefs[i]) }
           codec == Pick(ws, m)
           lineOf(c) == [name |-> c.name, pt |-> c.pt, rate |-> c.rate, ch |-> c.ch]
<1>1. Offers(m, "PCMU") = Listed(m, PCMU) /\ Offers(m, "PCMA") = Listed(m, PCMA)
  BY DEF Offers, Listed
<1>2. CASE ws \in L16Side
  <2>1. prefs = <<"L16", "PCMU", "PCMA">>
    BY <1>2 DEF Preferences, L16Side
  <2>2. L16Usable(m) <=> Offers(m, "L16")
    BY <1>2, L16IsFound
  <2>3. ~CodecError(ws, m)
    BY <1>2 DEF CodecError, StrayL16
  <2>4. /\ 1 \in common <=> L16Usable(m)
        /\ 2 \in common <=> Listed(m, PCMU)
        /\ 3 \in common <=> Listed(m, PCMA)
        /\ common \subseteq 1..3
    BY <1>1, <2>1, <2>2
  <2>5. CASE L16Usable(m)
    <3>1. codec = CodecL16(m)
      BY <1>2, <2>5 DEF Pick, L16Side
    <3>2. DynamicPT(m, "L16").ok
      BY <2>5 DEF L16Usable, L16Listed
    <3>3. PICK i \in 1..Len(m.maps) :
            /\ m.maps[i].name = "L16"
            /\ DynamicPT(m, "L16") = [ok |-> TRUE, pt |-> m.maps[i].pt,
                                      rate |-> m.maps[i].rate, ch |-> m.maps[i].ch]
      BY <3>2, FoundLine
    <3>4. codec = [name |-> "L16", pt |-> m.maps[i].pt, rate |-> m.maps[i].rate,
                   ch |-> m.maps[i].ch, big |-> TRUE]
      <4> DEFINE l16 == DynamicPT(m, "L16")
      <4>1. CodecL16(m) = [name |-> "L16", pt |-> l16.pt, rate |-> l16.rate, ch |-> l16.ch,
                           big |-> TRUE]
        BY DEF CodecL16
      <4>2. l16.pt = m.maps[i].pt /\ l16.rate = m.maps[i].rate /\ l16.ch = m.maps[i].ch
        BY <3>3
      <4> HIDE DEF l16
      <4> QED BY <3>1, <4>1, <4>2
    <3>5. m.maps[i] = lineOf(codec)
      <4>1. m.maps[i] \in MapLine
        OBVIOUS
      <4> QED BY <3>3, <3>4, <4>1 DEF MapLine
    <3>6. codec.pt \in m.fmts
      BY <2>5, <3>3, <3>4 DEF L16Usable, L16Listed, Listed
    <3>7. codec # NoCodec /\ codec.name = "L16"
      BY <3>4 DEF NoCodec
    <3>8. Encoding(ws, codec) # "error"
      BY <1>2, <3>7 DEF Encoding, WsFormat, L16Side
    <3>9. 1 \in common /\ prefs[1] = "L16" /\ \A j \in common : 1 <= j
      BY <2>1, <2>4, <2>5
    <3> HIDE DEF common, codec, prefs
    <3> QED BY <2>3, <3>5, <3>6, <3>7, <3>8, <3>9 DEF common, codec, prefs
  <2>6. CASE ~L16Usable(m) /\ Listed(m, PCMU)
    <3>1. codec = CodecG711("PCMU", PCMU)
      BY <1>2, <2>6 DEF Pick, L16Side
    <3>2. codec # NoCodec /\ codec.name = "PCMU" /\ codec.pt = PCMU /\ codec.pt \in m.fmts
      BY <2>6, <3>1 DEF CodecG711, NoCodec, Listed
    <3>3. Encoding(ws, codec) # "error"
      BY <1>2, <3>2 DEF Encoding, WsFormat, L16Side
    <3>4. 2 \in common /\ prefs[2] = "PCMU" /\ \A j \in common : 2 <= j
      BY <2>1, <2>4, <2>6
    <3> HIDE DEF common, codec, prefs
    <3> QED BY <2>3, <3>2, <3>3, <3>4 DEF common, codec, prefs
  <2>7. CASE ~L16Usable(m) /\ ~Listed(m, PCMU) /\ Listed(m, PCMA)
    <3>1. codec = CodecG711("PCMA", PCMA)
      BY <1>2, <2>7 DEF Pick, L16Side
    <3>2. codec # NoCodec /\ codec.name = "PCMA" /\ codec.pt = PCMA /\ codec.pt \in m.fmts
      BY <2>7, <3>1 DEF CodecG711, NoCodec, Listed
    <3>3. Encoding(ws, codec) # "error"
      BY <1>2, <3>2 DEF Encoding, WsFormat, L16Side
    <3>4. 3 \in common /\ prefs[3] = "PCMA" /\ \A j \in common : 3 <= j
      BY <2>1, <2>4, <2>7
    <3> HIDE DEF common, codec, prefs
    <3> QED BY <2>3, <3>2, <3>3, <3>4 DEF common, codec, prefs
  <2>8. CASE ~L16Usable(m) /\ ~Listed(m, PCMU) /\ ~Listed(m, PCMA)
    <3>1. codec = NoCodec
      BY <2>8 DEF Pick
    <3>2. common = {}
      BY <2>4, <2>8
    <3> QED BY <2>3, <3>1, <3>2
  <2> QED BY <2>5, <2>6, <2>7, <2>8
<1>3. CASE ws \notin L16Side
  <2>1. ws \in {"PCMU", "PCMA"} /\ prefs = <<ws>> /\ ~CodecError(ws, m)
    BY <1>3 DEF Codecs, L16Side, Preferences, CodecError
  <2> DEFINE pt == IF ws = "PCMU" THEN PCMU ELSE PCMA
  <2>2. 1 \in common <=> Listed(m, pt)
    BY <1>1, <2>1
  <2>3. common \subseteq {1}
    BY <2>1
  <2>4. CASE Listed(m, pt)
    <3>1. codec = CodecG711(ws, pt)
      BY <2>1, <2>4 DEF Pick
    <3>2. codec # NoCodec /\ codec.name = ws /\ codec.pt \in {PCMU, PCMA} /\ codec.pt \in m.fmts
      BY <2>1, <2>4, <3>1 DEF CodecG711, NoCodec, Listed
    <3>3. Encoding(ws, codec) # "error"
      BY <2>1, <3>2 DEF Encoding, WsFormat
    <3>4. 1 \in common /\ prefs[1] = ws /\ \A j \in common : 1 <= j
      BY <2>1, <2>2, <2>3, <2>4
    <3> HIDE DEF common, codec, prefs
    <3> QED BY <2>1, <3>2, <3>3, <3>4 DEF common, codec, prefs
  <2>5. CASE ~Listed(m, pt)
    <3>1. codec = NoCodec
      BY <2>1, <2>5 DEF Pick
    <3>2. common = {}
      BY <2>2, <2>3, <2>5
    <3> QED BY <2>1, <3>1, <3>2
  <2> QED BY <2>4, <2>5
<1> QED BY <1>2, <1>3

Found(ws, offer) ==
  [status |-> Status(ws, offer), stream |-> NegotiateStream(ws, offer), addr |-> RemoteAddr(offer)]

LEMMA OfferIsAgreed ==
  ASSUME NEW ws \in Codecs, NEW offer, FitsRTP(offer)
  PROVE  Agreed(ws, offer, Found(ws, offer))
<1> DEFINE a == FirstOf(offer.media, IsAudio)
           m == offer.media[a]
           prefs == Preferences(ws)
           common == { i \in 1..Len(prefs) : Offers(m, prefs[i]) }
           stream == NegotiateStream(ws, offer)
           addr == RemoteAddr(offer)
           codec == Pick(ws, m)
           tel == DynamicPT(m, "telephone-event")
           dtmf == DTMFPayloadType(m)
           maps == Answer(stream).maps
<1> SUFFICES ASSUME a # 0, addr.ok, StrayL16(m) => ws \notin L16Side
             PROVE  /\ (Status(ws, offer) = 200) = (common # {})
                    /\ stream.ok =>
                         /\ \E i \in common : stream.codec.name = prefs[i] /\ \A j \in common : i <= j
                         /\ Encoding(ws, stream.codec) # "error"
                         /\ Answer(stream).fmts \subseteq m.fmts
                         /\ \A map \in { maps[i] : i \in 1..Len(maps) } :
                              \/ map.pt \in {PCMU, PCMA}
                              \/ \E i \in 1..Len(m.maps) : m.maps[i] = map
                              \/ map.name = "telephone-event"
                                   /\ (tel.rate # stream.codec.rate \/ tel.ch # 1)
                    /\ m.port > 0 /\ MediaIP(offer, a) # NoAddr => addr.media = a
  BY DEF Agreed, Found, L16Side
<1>1. a \in 1..Len(offer.media) /\ m.maps \in Seq(MapLine)
  BY FirstAudioLine, MediaLines
<1>2. /\ ~CodecError(ws, m)
      /\ codec = NoCodec <=> common = {}
      /\ codec # NoCodec =>
           /\ \E i \in common : codec.name = prefs[i] /\ \A j \in common : i <= j
           /\ Encoding(ws, codec) # "error"
           /\ codec.pt \in m.fmts
           /\ \/ codec.pt \in {PCMU, PCMA}
              \/ \E i \in 1..Len(m.maps) :
                   m.maps[i] = [name |-> codec.name, pt |-> codec.pt,
                                rate |-> codec.rate, ch |-> codec.ch]
  BY <1>1, PickIsBest
<1>3. stream = IF codec = NoCodec THEN Rejected
               ELSE [ok |-> TRUE, codec |-> codec, dtmf |-> dtmf,
                     ptime |-> IF m.ptime > 0 THEN m.ptime ELSE 20]
  BY <1>2 DEF NegotiateStream
<1>4. m.port > 0 /\ MediaIP(offer, a) # NoAddr => addr.media = a
  BY AddressOfFirstAudio
<1>5. CASE codec = NoCodec
  <2>1. ~stream.ok
    BY <1>3, <1>5 DEF Rejected
  <2>2. Status(ws, offer) # 200
    BY <2>1 DEF Status
  <2> QED BY <1>2, <1>4, <1>5, <2>1, <2>2
<1>6. CASE codec # NoCodec
  <2>1. stream.ok /\ stream.codec = codec /\ stream.dtmf = dtmf
    BY <1>3, <1>6
  <2>2. Status(ws, offer) = 200
    BY <2>1 DEF Status
  <2> DEFINE line == [name |-> codec.name, pt |-> codec.pt, rate |-> codec.rate, ch |-> codec.ch]
             telLine == [name |-> "telephone-event", pt |-> dtmf, rate |-> codec.rate, ch |-> 1]
  <2>3. /\ Answer(stream).fmts = {codec.pt} \cup IF dtmf = 0 THEN {} ELSE {dtmf}
        /\ maps = <<line>> \o IF dtmf = 0 THEN <<>> ELSE <<telLine>>
    BY <2>1 DEF Answer
  <2>4. dtmf # 0 => dtmf \in m.fmts /\ tel.ok /\ tel.pt = dtmf
    BY DEF DTMFPayloadType, Listed
  <2>5. Answer(stream).fmts \subseteq m.fmts
    BY <1>2, <1>6, <2>3, <2>4
  <2>6. \A map \in { maps[i] : i \in 1..Len(maps) } : map = line \/ (dtmf # 0 /\ map = telLine)
    <3>1. CASE dtmf = 0
      BY <2>3, <3>1
    <3>2. CASE dtmf # 0
      <4>1. maps = <<line>> \o <<telLine>>
        BY <2>3, <3>2
      <4> HIDE DEF maps, line, telLine
      <4> QED BY <3>2, <4>1
    <3> QED BY <3>1, <3>2
  <2>7. line.pt \in {PCMU, PCMA} \/ \E i \in 1..Len(m.maps) : m.maps[i] = line
    BY <1>2, <1>6
  <2>8. ASSUME dtmf # 0, tel.rate = codec.rate, tel.ch = 1
        PROVE  \E i \in 1..Len(m.maps) : m.maps[i] = telLine
    <3>1. PICK i \in 1..Len(m.maps) :
            /\ m.maps[i].name = "telephone-event"
            /\ tel = [ok |-> TRUE, pt |-> m.maps[i].pt, rate |-> m.maps[i].rate,
                      ch |-> m.maps[i].ch]
      <4>1. tel.ok /\ m.maps \in Seq(MapLine)
        BY <1>1, <2>4, <2>8
      <4> HIDE DEF m
      <4> QED BY <4>1, FoundLine
    <3>2. m.maps[i] \in MapLine
      BY <1>1
    <3>3. tel.pt = m.maps[i].pt /\ tel.rate = m.maps[i].rate /\ tel.ch = m.maps[i].ch
      BY <3>1
    <3> HIDE DEF tel
    <3>4. m.maps[i] = [name |-> "telephone-event", pt |-> dtmf, rate |-> codec.rate, ch |-> 1]
      BY <2>4, <2>8, <3>1, <3>2, <3>3 DEF MapLine
    <3> QED BY <3>4
  <2>9. \A map \in { maps[i] : i \in 1..Len(maps) } :
          \/ map.pt \in {PCMU, PCMA}
          \/ \E i \in 1..Len(m.maps) : m.maps[i] = map
          \/ map.name = "telephone-event" /\ (tel.rate # codec.rate \/ tel.ch # 1)
    <3> HIDE DEF maps, tel, dtmf, codec
    <3> QED BY <2>6, <2>7, <2>8
  <2> HIDE DEF common, codec, stream, maps, tel
  <2> QED BY <1>2, <1>4, <1>6, <2>1, <2>2, <2>5, <2>9
<1> QED BY <1>5, <1>6

OfferInv ==
  /\ phase \in {"offer", "answered"} => input \in Inputs
  /\ phase = "answered" => answer = Found(input[1], input[2])

LEMMA OfferInvNext == OfferInv /\ [MSNext]_msVars => OfferInv'
<1> SUFFICES ASSUME OfferInv, [MSNext]_msVars PROVE OfferInv'
  OBVIOUS
<1> USE DEF OfferInv, sdpVars
<1>1. CASE HandleOffer
  BY <1>1 DEF HandleOffer, Found
<1>2. CASE StartMedia
  BY <1>2 DEF StartMedia
<1>3. ASSUME NEW x \in Asked, AgentDTMF(x) PROVE OfferInv'
  BY <1>3 DEF AgentDTMF
<1>4. CASE TakeDTMF \/ AgentAudio \/ WriterGenerates \/ WriterTicks \/ WriterStops
  BY <1>4 DEF TakeDTMF, AgentAudio, WriterGenerates, WriterTicks, WriterStops
<1>5. ASSUME NEW p \in link, Lose(p) \/ Deliver(p) PROVE OfferInv'
  BY <1>5 DEF Lose, Deliver
<1>6. CASE UNCHANGED msVars
  BY <1>6 DEF msVars
<1> QED BY <1>1, <1>2, <1>3, <1>4, <1>5, <1>6 DEF MSNext

\* handleInvite agrees on the best codec that both sides have, for every offer.
THEOREM BestCodecIsAgreed == MSSpec => []CommonCodecIsAgreed
<1>1. MSInit => OfferInv
  BY DEF MSInit, OfferInv
<1>2. OfferInv => CommonCodecIsAgreed
  <2> SUFFICES ASSUME OfferInv, phase = "answered" PROVE Agreed(input[1], input[2], answer)
    BY DEF CommonCodecIsAgreed
  <2>1. input[1] \in Codecs /\ FitsRTP(input[2])
    BY MediaSessionConstants DEF OfferInv, Codecs
  <2> QED BY <2>1, OfferIsAgreed DEF OfferInv
<1> QED BY <1>1, <1>2, OfferInvNext, PTL DEF MSSpec

----------------------------------------------------------------------------
(* The session's writer is RTPWriter                                        *)

RequestCount == Cardinality(Requests)

LEMMA RequestsAreNumbers ==
  /\ RequestCount \in Nat /\ Requests = 1..RequestCount
  /\ \A r \in Requests : r \in Nat /\ r > 0 /\ r <= RequestCount
<1>1. RequestCount \in Nat /\ Requests = 1..RequestCount
  BY MediaSessionConstants, FS_CardinalityType DEF RequestCount
<1> HIDE DEF RequestCount
<1> QED BY <1>1

Wishes == [digit : { a[1] : a \in Asked }, ms : Durations]

\* The agent's requests so far, and the channel of those not taken yet.
AskedInv ==
  /\ asked \in Seq(Wishes) /\ Len(asked) <= RequestCount
  /\ dtmfSource \in Seq(Requests) /\ Len(dtmfSource) <= Len(asked)
  /\ \A i \in 1..Len(dtmfSource) : dtmfSource[i] <= Len(asked)

LEMMA AppendedElements ==
  ASSUME NEW S, NEW s \in Seq(S), NEW e \in S
  PROVE  /\ Append(s, e) \in Seq(S) /\ Len(Append(s, e)) = Len(s) + 1
         /\ \A i \in 1..(Len(s) + 1) :
              Append(s, e)[i] = IF i = Len(s) + 1 THEN e ELSE s[i]
OBVIOUS

LEMMA TailElements ==
  ASSUME NEW S, NEW s \in Seq(S), s # <<>>
  PROVE  /\ Tail(s) \in Seq(S) /\ Len(s) \in Nat /\ Len(s) > 0 /\ Len(Tail(s)) = Len(s) - 1
         /\ Head(s) = s[1] /\ Head(s) \in S
         /\ \A i \in 1..(Len(s) - 1) : Tail(s)[i] = s[i + 1]
OBVIOUS

LEMMA AskedInvNext == AskedInv /\ [MSNext]_msVars => AskedInv'
<1> SUFFICES ASSUME AskedInv, [MSNext]_msVars PROVE AskedInv'
  OBVIOUS
<1>1. ASSUME UNCHANGED <<asked, dtmfSource>> PROVE AskedInv'
  BY <1>1 DEF AskedInv
<1>2. CASE HandleOffer \/ StartMedia \/ AgentAudio \/ WriterGenerates \/ WriterTicks \/ WriterStops
  BY <1>1, <1>2 DEF HandleOffer, StartMedia, AgentAudio, WriterGenerates, WriterTicks, WriterStops
<1>3. ASSUME NEW a \in Asked, AgentDTMF(a) PROVE AskedInv'
  <2> DEFINE wish == [digit |-> a[1], ms |-> a[2]]
             n == Len(asked) + 1
  <2>1. wish \in Wishes
    BY MediaSessionConstants DEF Wishes
  <2>2. asked' = Append(asked, wish) /\ Len(asked) < RequestCount
    BY <1>3 DEF AgentDTMF, RequestCount
  <2>3. dtmfSource' = Append(dtmfSource, n) \/ dtmfSource' = dtmfSource
    BY <1>3 DEF AgentDTMF
  <2> HIDE DEF wish
  <2>4. asked' \in Seq(Wishes) /\ Len(asked') = n /\ Len(asked) \in Nat
    BY <2>1, <2>2, AppendedElements DEF AskedInv
  <2>5. Len(asked') <= RequestCount
    BY <2>2, <2>4, RequestsAreNumbers
  <2>6. n \in Requests
    BY <2>2, <2>4, RequestsAreNumbers
  <2> HIDE DEF n
  <2>7. CASE dtmfSource' = Append(dtmfSource, n)
    <3>1. /\ dtmfSource' \in Seq(Requests) /\ Len(dtmfSource') = Len(dtmfSource) + 1
          /\ \A i \in 1..(Len(dtmfSource) + 1) :
               dtmfSource'[i] = IF i = Len(dtmfSource) + 1 THEN n ELSE dtmfSource[i]
      BY <2>6, <2>7, AppendedElements DEF AskedInv
    <3>2. ASSUME NEW i \in 1..Len(dtmfSource') PROVE dtmfSource'[i] <= Len(asked')
      <4>1. CASE i = Len(dtmfSource) + 1
        BY <2>4, <2>6, <3>1, <4>1, RequestsAreNumbers
      <4>2. CASE i # Len(dtmfSource) + 1
        <5>1. i \in 1..Len(dtmfSource) /\ dtmfSource'[i] = dtmfSource[i]
          BY <3>1, <3>2, <4>2 DEF AskedInv
        <5>2. dtmfSource[i] <= Len(asked) /\ dtmfSource[i] \in Requests
          BY <5>1 DEF AskedInv
        <5> QED BY <2>4, <5>1, <5>2, RequestsAreNumbers DEF n
      <4> QED BY <4>1, <4>2
    <3>3. Len(dtmfSource') <= Len(asked')
      BY <2>4, <3>1 DEF AskedInv, n
    <3> QED BY <2>4, <2>5, <3>1, <3>2, <3>3 DEF AskedInv
  <2>8. CASE dtmfSource' = dtmfSource
    <3>1. ASSUME NEW i \in 1..Len(dtmfSource) PROVE dtmfSource[i] <= Len(asked')
      <4>1. dtmfSource[i] <= Len(asked) /\ dtmfSource[i] \in Requests
        BY <3>1 DEF AskedInv
      <4> QED BY <2>4, <4>1, RequestsAreNumbers DEF n
    <3>2. Len(dtmfSource) <= Len(asked')
      BY <2>4 DEF AskedInv, n
    <3> QED BY <2>4, <2>5, <2>8, <3>1, <3>2 DEF AskedInv
  <2> QED BY <2>3, <2>7, <2>8
<1>4. CASE TakeDTMF
  <2>1. dtmfSource # <<>> /\ dtmfSource' = Tail(dtmfSource) /\ asked' = asked
    BY <1>4 DEF TakeDTMF
  <2>2. /\ dtmfSource' \in Seq(Requests) /\ Len(dtmfSource') = Len(dtmfSource) - 1
        /\ Len(dtmfSource) \in Nat
        /\ \A i \in 1..(Len(dtmfSource) - 1) : dtmfSource'[i] = dtmfSource[i + 1]
    BY <2>1, TailElements DEF AskedInv
  <2>3. ASSUME NEW i \in 1..Len(dtmfSource') PROVE dtmfSource'[i] <= Len(asked')
    <3>1. i + 1 \in 1..Len(dtmfSource) /\ i \in 1..(Len(dtmfSource) - 1)
      BY <2>2
    <3> QED BY <2>1, <2>2, <3>1 DEF AskedInv
  <2> QED BY <2>1, <2>2, <2>3 DEF AskedInv
<1>5. ASSUME NEW p \in link, Lose(p) \/ Deliver(p) PROVE AskedInv'
  BY <1>1, <1>5 DEF Lose, Deliver
<1>6. CASE UNCHANGED msVars
  BY <1>1, <1>6 DEF msVars
<1> QED BY <1>2, <1>3, <1>4, <1>5, <1>6 DEF MSNext

\* A digit that the writer takes was asked for.
LEMMA TakenWasAsked ==
  ASSUME AskedInv, dtmfSource # <<>>
  PROVE  /\ Head(dtmfSource) \in Requests /\ Head(dtmfSource) = dtmfSource[1]
         /\ Head(dtmfSource) \in 1..Len(asked)
         /\ asked[Head(dtmfSource)].ms \in Durations
<1> DEFINE r == Head(dtmfSource)
<1>1. r \in Requests /\ r = dtmfSource[1] /\ Len(dtmfSource) \in Nat /\ Len(dtmfSource) > 0
  BY TailElements DEF AskedInv
<1> HIDE DEF r
<1>2. r <= Len(asked)
  BY <1>1 DEF AskedInv
<1>3. r \in 1..Len(asked)
  BY <1>1, <1>2, RequestsAreNumbers DEF AskedInv
<1>4. asked[r] \in Wishes
  BY <1>3 DEF AskedInv
<1> QED BY <1>1, <1>3, <1>4 DEF Wishes, r

\* A step of the session is one of the writer, or the end, where what was pending is
\* dropped.
LEMMA SessionWrites ==
  AskedInv /\ [MSNext]_msVars =>
    \/ [RWNext]_rwVars
    \/ WriterStops /\ UNCHANGED <<ringVars, gen, dtmfTs, clock, seqNum, sent, frame>>
<1> SUFFICES ASSUME AskedInv, [MSNext]_msVars
             PROVE  \/ RWNext \/ UNCHANGED rwVars
                    \/ WriterStops /\ UNCHANGED <<ringVars, gen, dtmfTs, clock, seqNum, sent, frame>>
  OBVIOUS
<1>1. CASE TakeDTMF
  <2>1. CASE DTMFRequest(Head(dtmfSource), asked[Head(dtmfSource)].ms)
    <3>1. Head(dtmfSource) \in Requests /\ asked[Head(dtmfSource)].ms \in Durations
      BY <1>1, TakenWasAsked DEF TakeDTMF
    <3> QED BY <2>1, <3>1 DEF RWNext
  <2> QED BY <1>1, <2>1 DEF TakeDTMF
<1>2. CASE AgentAudio
  BY <1>2 DEF AgentAudio, RWNext
<1>3. CASE WriterGenerates
  BY <1>3 DEF WriterGenerates, RWNext
<1>4. CASE WriterTicks
  BY <1>4 DEF WriterTicks, RWNext
<1>5. CASE WriterStops
  BY <1>5 DEF WriterStops
<1>6. CASE HandleOffer \/ StartMedia
  BY <1>6 DEF HandleOffer, StartMedia
<1>7. ASSUME NEW a \in Asked, AgentDTMF(a) PROVE UNCHANGED rwVars
  BY <1>7 DEF AgentDTMF
<1>8. ASSUME NEW p \in link, Lose(p) \/ Deliver(p) PROVE UNCHANGED rwVars
  BY <1>8 DEF Lose, Deliver
<1>9. CASE UNCHANGED msVars
  BY <1>9 DEF msVars
<1> QED BY <1>1, <1>2, <1>3, <1>4, <1>5, <1>6, <1>7, <1>8, <1>9 DEF MSNext

WriterInv == AskedInv /\ RingInv /\ ToneInv

LEMMA WriterInvHolds == MSSpec => []WriterInv
<1>1. MSInit => WriterInv
  <2>1. MSInit => AskedInv
    BY RequestsAreNumbers DEF MSInit, AskedInv
  <2>2. MSInit => ToneInv
    BY DEF MSInit, RWInit, ToneInv, TonesGrowToTheirLength
  <2> QED BY <2>1, <2>2, RingInvInit DEF MSInit, WriterInv
<1>2. WriterInv /\ [MSNext]_msVars => WriterInv'
  <2> SUFFICES ASSUME WriterInv, [MSNext]_msVars PROVE WriterInv'
    OBVIOUS
  <2>1. CASE [RWNext]_rwVars
    BY <2>1, AskedInvNext, RingInvNext, ToneInvNext DEF WriterInv
  <2>2. CASE UNCHANGED <<ringVars, gen, dtmfTs, clock, seqNum, sent, frame>>
    <3>1. RingInv'
      BY <2>2 DEF WriterInv, RingInv, ringVars, Wrap
    <3>2. ToneInv'
      BY <2>2 DEF WriterInv, ToneInv, TonesGrowToTheirLength, Total, Interval, AllSamples,
                  FitsIn16Bits, Least
    <3> QED BY <3>1, <3>2, AskedInvNext DEF WriterInv
  <2> QED BY <2>1, <2>2, SessionWrites DEF WriterInv
<1> QED BY <1>1, <1>2, PTL DEF MSSpec

\* In a session, too, with digits and audio in any order and the writer stopped at any
\* time, the ring and the tones are exact.
THEOREM SessionIsExact == MSSpec => [](RingHoldsUnsentAudio /\ TonesGrowToTheirLength)
<1>1. WriterInv => RingHoldsUnsentAudio /\ TonesGrowToTheirLength
  BY RingInvIsRing DEF WriterInv, ToneInv
<1> QED BY <1>1, WriterInvHolds, PTL

\* A session's audio goes through the queue.
THEOREM SessionIsAQueue == MSSpec => ImplementsAudioQueue
<1>1. MSInit => Queue!AQInit
  BY DEF MSInit, RWInit, Queue!AQInit
<1>2. WriterInv /\ [MSNext]_msVars => [Queue!AQNext]_<<consumed, accepted, frame>>
  <2> SUFFICES ASSUME WriterInv, [MSNext]_msVars
               PROVE  [Queue!AQNext]_<<consumed, accepted, frame>>
    OBVIOUS
  <2>1. CASE [RWNext]_rwVars
    BY <2>1, StepsAreQueueSteps DEF WriterInv
  <2>2. CASE UNCHANGED <<ringVars, gen, dtmfTs, clock, seqNum, sent, frame>>
    BY <2>2 DEF ringVars
  <2> QED BY <2>1, <2>2, SessionWrites DEF WriterInv
<1> QED BY <1>1, <1>2, WriterInvHolds, PTL DEF MSSpec, ImplementsAudioQueue, Queue!AQSpec

----------------------------------------------------------------------------
(* The order of the digits                                                  *)

Times == 0..(U32 - 1)
Packets == [kind : {"none", "audio", "dtmf"}, req : Requests \cup {0}, end : BOOLEAN,
            seq : Int, ts : Times]

\* The digit that is being generated or sent, 0 for none.
Current == IF gen # Idle THEN gen.req ELSE IF pending # <<>> THEN pending[1].req ELSE 0

\* The end packets that are or have been in the network.
Ends == link \cup delivered

\* The writer has one digit at a time.
OneDigitInv ==
  /\ sent \in Packets /\ (sent.kind = "dtmf" <=> sent.req # 0)
  /\ pending \in Seq(Payloads) /\ Len(pending) <= MaxPayloads + 3
  /\ \A i \in 1..Len(pending) : pending[i].req = Current
  /\ Current \in Requests \cup {0} /\ (Current # 0 => sent.req <= Current)
  /\ gen # Idle => /\ pending = <<>> /\ sent.req < gen.req
                   /\ Len(gen.out) <= MaxPayloads
                   /\ \A i \in 1..Len(gen.out) : gen.out[i].req = gen.req

Increasing(s) == \A i, j \in 1..Len(s) : i < j => s[i] < s[j]
Above(n, s) == \A i \in 1..Len(s) : n < s[i]

\* The digits that are not taken yet come after all that have been.
SourceInv ==
  /\ Increasing(dtmfSource)
  /\ Current <= Len(asked) /\ Above(Current, dtmfSource)
  /\ sent.req <= Len(asked) /\ Above(sent.req, dtmfSource)

\* What a step may do to the digits.
Quiet == UNCHANGED <<asked, dtmfSource, gen, pending, timestamp, elapsed, seqNum, dtmfTs, sent>>
NewEnd == [req |-> sent'.req, ts |-> sent'.ts,
           event |-> DigitToEvent(asked[sent'.req].digit)]

LEMMA DigitSteps ==
  ASSUME [MSNext]_msVars
  PROVE  \/ Quiet /\ Ends' \subseteq Ends
         \/ \E a \in Asked : AgentDTMF(a)
         \/ TakeDTMF
         \/ (GenerateTurn \/ GenerateReturn) /\ UNCHANGED <<asked, dtmfSource, link, delivered>>
         \/ TickDTMF /\ UNCHANGED <<asked, dtmfSource>> /\ Ends' \subseteq Ends \cup {NewEnd}
         \/ TickAudio /\ UNCHANGED <<asked, dtmfSource, link, delivered>>
         \/ WriterStops
<1>1. CASE HandleOffer \/ StartMedia \/ AgentAudio
  BY <1>1 DEF HandleOffer, StartMedia, AgentAudio, AudioData, toneVars, rwVars, readerVars, clock,
              Quiet, Ends
<1>2. CASE WriterGenerates
  BY <1>2 DEF WriterGenerates, Generate, readerVars
<1>3. CASE WriterTicks
  <2>1. UNCHANGED <<asked, dtmfSource, delivered>>
    BY <1>3 DEF WriterTicks, readerVars
  <2>2. CASE TickDTMF
    BY <1>3, <2>1, <2>2 DEF WriterTicks, Ends, NewEnd
  <2>3. CASE TickAudio
    <3>1. ~sent'.end
      BY <2>3 DEF TickAudio
    <3> QED BY <1>3, <2>1, <2>3, <3>1 DEF WriterTicks
  <2>4. CASE TickIdle
    <3>1. Quiet /\ sent' = sent
      BY <2>1, <2>4 DEF TickIdle, rwVars, Quiet
    <3> QED BY <1>3, <2>1, <3>1 DEF WriterTicks, Ends
  <2> QED BY <1>3, <2>2, <2>3, <2>4 DEF WriterTicks, Tick
<1>4. ASSUME NEW p \in link, Lose(p) \/ Deliver(p) PROVE Quiet /\ Ends' \subseteq Ends
  <2>1. Quiet
    BY <1>4 DEF Lose, Deliver, rwVars, Quiet
  <2>2. Ends' \subseteq Ends
    BY <1>4 DEF Lose, Deliver, readerVars, Ends
  <2> QED BY <2>1, <2>2
<1>5. CASE UNCHANGED msVars
  BY <1>5 DEF msVars, rwVars, readerVars, Quiet, Ends
<1> QED BY <1>1, <1>2, <1>3, <1>4, <1>5 DEF MSNext

LEMMA TypesOfWriter ==
  ASSUME WriterInv
  PROVE  /\ gen # Idle => gen \in Tones /\ gen.req \in Requests /\ gen.out \in Seq(Payloads)
         /\ AskedInv
  BY DEF WriterInv, ToneInv, Tones

LEMMA AboveTail ==
  ASSUME NEW s \in Seq(Requests), s # <<>>, Increasing(s)
  PROVE  /\ Increasing(Tail(s)) /\ Above(s[1], Tail(s))
         /\ \A n \in Nat : Above(n, s) => Above(n, Tail(s)) /\ n < s[1]
<1>1. /\ Len(s) \in Nat /\ Len(s) > 0 /\ Len(Tail(s)) = Len(s) - 1
      /\ \A i \in 1..(Len(s) - 1) : Tail(s)[i] = s[i + 1]
  BY TailElements
<1> DEFINE t == Tail(s)
<1> HIDE DEF t
<1>2. ASSUME NEW i \in 1..Len(t) PROVE t[i] = s[i + 1] /\ i + 1 \in 1..Len(s) /\ 1 \in 1..Len(s)
  BY <1>1 DEF t
<1>3. Increasing(t)
  <2>1. ASSUME NEW i \in 1..Len(t), NEW j \in 1..Len(t), i < j PROVE t[i] < t[j]
    <3>1. i + 1 < j + 1
      BY <2>1, <1>1 DEF t
    <3> QED BY <1>2, <3>1 DEF Increasing
  <2> QED BY <2>1 DEF Increasing
<1>4. Above(s[1], t)
  <2>1. ASSUME NEW i \in 1..Len(t) PROVE s[1] < t[i]
    <3>1. 1 < i + 1
      OBVIOUS
    <3> QED BY <1>2, <3>1 DEF Increasing
  <2> QED BY <2>1 DEF Above
<1>5. ASSUME NEW n \in Nat, Above(n, s) PROVE Above(n, t) /\ n < s[1]
  <2>1. 1 \in 1..Len(s)
    BY <1>1
  <2> QED BY <1>2, <1>5, <2>1 DEF Above
<1> QED BY <1>3, <1>4, <1>5 DEF t

LEMMA AboveAppend ==
  ASSUME NEW s \in Seq(Requests), NEW e \in Requests, Increasing(s),
         \A i \in 1..Len(s) : s[i] < e
  PROVE  /\ Increasing(Append(s, e))
         /\ \A n \in Nat : Above(n, s) /\ n < e => Above(n, Append(s, e))
<1> DEFINE t == Append(s, e)
<1>1. /\ Len(s) \in Nat /\ Len(t) = Len(s) + 1
      /\ \A i \in 1..(Len(s) + 1) : t[i] = IF i = Len(s) + 1 THEN e ELSE s[i]
  BY AppendedElements
<1> HIDE DEF t
<1>2. ASSUME NEW i \in 1..Len(t), NEW j \in 1..Len(t), i < j PROVE t[i] < t[j]
  <2>1. i \in 1..Len(s) /\ t[i] = s[i]
    BY <1>1, <1>2
  <2>2. CASE j = Len(s) + 1
    BY <1>1, <2>1, <2>2
  <2>3. CASE j # Len(s) + 1
    <3>1. j \in 1..Len(s) /\ t[j] = s[j]
      BY <1>1, <2>3
    <3> QED BY <1>2, <2>1, <3>1 DEF Increasing
  <2> QED BY <2>2, <2>3
<1>3. ASSUME NEW n \in Nat, Above(n, s), n < e PROVE Above(n, t)
  <2>1. ASSUME NEW i \in 1..Len(t) PROVE n < t[i]
    <3>1. CASE i = Len(s) + 1
      BY <1>1, <1>3, <3>1
    <3>2. CASE i # Len(s) + 1
      <4>1. i \in 1..Len(s) /\ t[i] = s[i]
        BY <1>1, <3>2
      <4> QED BY <1>3, <4>1 DEF Above
    <3> QED BY <3>1, <3>2
  <2> QED BY <2>1 DEF Above
<1> QED BY <1>2, <1>3 DEF t, Increasing

\* Without a change of the writer's own state, OneDigitInv stays.
LEMMA OneDigitStays ==
  ASSUME OneDigitInv, UNCHANGED <<gen, pending, sent>>
  PROVE  OneDigitInv' /\ Current' = Current
BY DEF OneDigitInv, Current

LEMMA RequestKeepsOneDigit ==
  ASSUME WriterInv, OneDigitInv, NEW r \in Requests, NEW ms, DTMFRequest(r, ms), sent.req < r
  PROVE  OneDigitInv' /\ Current' = r
<1>1. gen'.req = r /\ gen'.out = <<>> /\ pending' = <<>> /\ sent' = sent
  BY DEF DTMFRequest
<1>2. gen' # Idle
  BY <1>1, RequestsAreNumbers DEF Idle
<1>3. Current' = r
  BY <1>1, <1>2 DEF Current
<1>4. /\ 0 <= MaxPayloads /\ 0 <= MaxPayloads + 3
      /\ Len(<<>>) = 0 /\ <<>> \in Seq(Payloads) /\ 1..Len(<<>>) = {}
  BY RTPWriterConstants
<1>5. sent.req <= r /\ r # 0
  <2>1. sent.req \in Nat
    BY RequestsAreNumbers DEF OneDigitInv, Packets
  <2> QED BY <2>1, RequestsAreNumbers
<1>6. \A i \in 1..Len(pending') : pending'[i].req = Current'
  BY <1>1, <1>4
<1>7. \A i \in 1..Len(gen'.out) : gen'.out[i].req = gen'.req
  BY <1>1, <1>4
<1> QED BY <1>1, <1>2, <1>3, <1>4, <1>5, <1>6, <1>7 DEF OneDigitInv

LEMMA TurnKeepsOneDigit ==
  ASSUME WriterInv, OneDigitInv, GenerateTurn
  PROVE  OneDigitInv' /\ Current' = Current
<1> DEFINE payload == [req |-> gen.req, end |-> FALSE, dur |-> ToneNext]
<1>0. gen # Idle /\ gen \in Tones /\ gen.req \in Requests /\ gen.out \in Seq(Payloads)
  BY TypesOfWriter DEF GenerateTurn, ToneMore
<1>1. /\ gen' = [gen EXCEPT !.cur = ToneNext, !.out = Append(gen.out, payload)]
      /\ pending' = pending /\ sent' = sent /\ Len(gen.out) < MaxPayloads
  BY DEF GenerateTurn, toneVars
<1>2. gen'.req = gen.req /\ gen'.out = Append(gen.out, payload)
  BY <1>0, <1>1 DEF Tones
<1>3. payload.req = gen.req
  OBVIOUS
<1> HIDE DEF payload
<1>4. gen' # Idle
  BY <1>0, <1>2, RequestsAreNumbers DEF Idle
<1>5. Current' = Current /\ Current = gen.req
  BY <1>0, <1>2, <1>4 DEF Current
<1>6. /\ Len(gen'.out) <= MaxPayloads
      /\ \A i \in 1..Len(gen'.out) : gen'.out[i].req = gen'.req
  <2>1. /\ Len(gen.out) \in Nat /\ Len(gen'.out) = Len(gen.out) + 1
        /\ \A i \in 1..(Len(gen.out) + 1) :
             gen'.out[i] = IF i = Len(gen.out) + 1 THEN payload ELSE gen.out[i]
    BY <1>0, <1>2
  <2>2. ASSUME NEW i \in 1..Len(gen'.out) PROVE gen'.out[i].req = gen.req
    <3>1. CASE i = Len(gen.out) + 1
      BY <1>3, <2>1, <3>1
    <3>2. CASE i # Len(gen.out) + 1
      <4>1. i \in 1..Len(gen.out) /\ gen'.out[i] = gen.out[i]
        BY <2>1, <3>2
      <4> QED BY <1>0, <4>1 DEF OneDigitInv
    <3> QED BY <3>1, <3>2
  <2>3. Len(gen'.out) <= MaxPayloads
    BY <1>1, <2>1, RTPWriterConstants
  <2> QED BY <1>2, <2>2, <2>3
<1> QED BY <1>0, <1>1, <1>2, <1>4, <1>5, <1>6 DEF OneDigitInv

LEMMA ThreeMore ==
  ASSUME NEW S, NEW s \in Seq(S), NEW e \in S
  PROVE  /\ s \o <<e, e, e>> \in Seq(S) /\ Len(s) \in Nat /\ Len(s \o <<e, e, e>>) = Len(s) + 3
         /\ \A i \in 1..(Len(s) + 3) :
              (s \o <<e, e, e>>)[i] = IF i <= Len(s) THEN s[i] ELSE e
<1> DEFINE t == <<e, e, e>>
<1>1. t \in Seq(S) /\ Len(t) = 3 /\ \A i \in 1..3 : t[i] = e
  <2>1. \A i \in 1..3 : i = 1 \/ i = 2 \/ i = 3
    OBVIOUS
  <2> QED BY <2>1
<1> HIDE DEF t
<1>2. s \o t \in Seq(S) /\ Len(s) \in Nat /\ Len(s \o t) = Len(s) + 3
  <2>1. ASSUME NEW x \in Seq(S), NEW y \in Seq(S)
        PROVE  x \o y \in Seq(S) /\ Len(x \o y) = Len(x) + Len(y) /\ Len(x) \in Nat
    OBVIOUS
  <2> QED BY <1>1, <2>1
<1>3. ASSUME NEW i \in 1..(Len(s) + 3) PROVE (s \o t)[i] = IF i <= Len(s) THEN s[i] ELSE e
  <2>1. CASE i <= Len(s)
    BY <1>1, <1>2, <2>1
  <2>2. CASE ~(i <= Len(s))
    <3>1. i - Len(s) \in 1..3
      BY <1>2, <2>2
    <3>2. (s \o t)[i] = t[i - Len(s)]
      BY <1>1, <1>2, <2>2
    <3> QED BY <1>1, <2>2, <3>1, <3>2
  <2> QED BY <2>1, <2>2
<1> QED BY <1>2, <1>3 DEF t

\* The packets of the tone and the three that end it.
LEMMA ReturnKeepsOneDigit ==
  ASSUME WriterInv, OneDigitInv, GenerateReturn
  PROVE  OneDigitInv' /\ Current' = Current /\ pending' # <<>>
<1> DEFINE last == [req |-> gen.req, end |-> TRUE, dur |-> gen.total]
<1>0. gen # Idle /\ gen \in Tones /\ gen.req \in Requests /\ gen.out \in Seq(Payloads)
  BY TypesOfWriter DEF GenerateReturn
<1>1. pending' = gen.out \o <<last, last, last>> /\ gen' = Idle /\ sent' = sent
  BY DEF GenerateReturn
<1>2. last \in Payloads /\ last.req = gen.req
  BY <1>0 DEF Tones, Payloads
<1> HIDE DEF last
<1>4. /\ pending' \in Seq(Payloads) /\ Len(pending') = Len(gen.out) + 3 /\ Len(gen.out) \in Nat
      /\ \A i \in 1..(Len(gen.out) + 3) :
           pending'[i] = IF i <= Len(gen.out) THEN gen.out[i] ELSE last
  BY <1>0, <1>1, <1>2, ThreeMore
<1>5. ASSUME NEW i \in 1..Len(pending') PROVE pending'[i].req = gen.req
  <2>1. CASE i <= Len(gen.out)
    <3>1. i \in 1..Len(gen.out) /\ pending'[i] = gen.out[i]
      BY <1>4, <2>1
    <3> QED BY <1>0, <3>1 DEF OneDigitInv
  <2>2. CASE ~(i <= Len(gen.out))
    BY <1>2, <1>4, <2>2
  <2> QED BY <2>1, <2>2
<1>6. pending' # <<>> /\ 1 \in 1..Len(pending')
  BY <1>4
<1>7. Current' = gen.req /\ Current = gen.req
  BY <1>0, <1>1, <1>5, <1>6 DEF Current
<1>8. Len(pending') <= MaxPayloads + 3
  BY <1>0, <1>4, RTPWriterConstants DEF OneDigitInv
<1> QED BY <1>0, <1>1, <1>4, <1>5, <1>6, <1>7, <1>8 DEF OneDigitInv

LEMMA TickDTMFKeepsOneDigit ==
  ASSUME OneDigitInv, TickDTMF, seqNum \in Int, dtmfTs \in Times
  PROVE  /\ OneDigitInv' /\ Current' \in {Current, 0}
         /\ Current \in Requests /\ sent'.req = Current /\ sent'.ts = dtmfTs
         /\ sent'.kind = "dtmf" /\ sent'.seq = (seqNum + 1) % U16
         /\ Len(pending) \in Nat /\ Len(pending') = Len(pending) - 1
         /\ pending' # <<>> => Current' = Current
<1>1. /\ gen = Idle /\ gen' = Idle /\ pending # <<>> /\ pending' = Tail(pending)
      /\ sent' = [kind |-> "dtmf", req |-> Head(pending).req, end |-> Head(pending).end,
                  seq |-> (seqNum + 1) % U16, ts |-> dtmfTs]
  BY DEF TickDTMF
<1>2. /\ pending' \in Seq(Payloads) /\ Len(pending) \in Nat /\ Len(pending) > 0
      /\ Len(pending') = Len(pending) - 1 /\ Head(pending) = pending[1]
      /\ Head(pending) \in Payloads
      /\ \A i \in 1..(Len(pending) - 1) : pending'[i] = pending[i + 1]
  BY <1>1, TailElements DEF OneDigitInv
<1>3. Head(pending).req = Current /\ Head(pending).req \in Requests /\ Head(pending).end \in BOOLEAN
  BY <1>1, <1>2 DEF Current, Payloads
<1>4. ASSUME NEW i \in 1..Len(pending') PROVE pending'[i].req = Current
  <2>1. i + 1 \in 1..Len(pending) /\ pending'[i] = pending[i + 1]
    BY <1>2
  <2> QED BY <2>1 DEF OneDigitInv
<1>5. IF pending' # <<>> THEN Current' = Current ELSE Current' = 0
  <2>1. CASE pending' = <<>>
    BY <1>1, <2>1 DEF Current
  <2>2. CASE pending' # <<>>
    <3>1. 1 \in 1..Len(pending')
      BY <1>2, <2>2
    <3> QED BY <1>1, <1>4, <2>2, <3>1 DEF Current
  <2> QED BY <2>1, <2>2
<1>6. (seqNum + 1) % U16 \in Int
  <2>1. U16 \in Nat /\ U16 > 0
    BY RTPWriterConstants
  <2> QED BY <2>1
<1>7. sent' \in Packets
  BY <1>1, <1>3, <1>6 DEF Packets
<1>8. /\ sent'.req = Current /\ sent'.ts = dtmfTs /\ sent'.kind = "dtmf"
      /\ sent'.seq = (seqNum + 1) % U16 /\ Current # 0 /\ Current \in Requests
  BY <1>1, <1>3, RequestsAreNumbers
<1>9. ASSUME NEW i \in 1..Len(pending') PROVE pending'[i].req = Current'
  <2>1. pending' # <<>>
    BY <1>2, <1>9
  <2> QED BY <1>4, <1>5, <2>1
<1>10. Len(pending') <= MaxPayloads + 3
  BY <1>2, RTPWriterConstants DEF OneDigitInv
<1>11. Current' # 0 => sent'.req <= Current'
  BY <1>5, <1>8, RequestsAreNumbers
<1> QED BY <1>1, <1>2, <1>5, <1>7, <1>8, <1>9, <1>10, <1>11 DEF OneDigitInv

----------------------------------------------------------------------------
(* Time                                                                     *)

\* How far a is ahead of b on the circle of timestamps.
Ahead(a, b) == (a - b) % U32
Since(ts) == Ahead(ts, StartTs)
Span(n) == n * TsIncrement

\* How many requests the channel has given or dropped.
Gone == Len(asked) - Len(dtmfSource)
Lag == MaxPayloads + 3 + Gone

\* A digit's packets have the time its tone was asked for at, which is not more than
\* the tone's packets behind the clock; the last packet sent is not further behind
\* than a tone and the requests since then.
TimingInv ==
  /\ timestamp \in Times /\ dtmfTs \in Times /\ elapsed \in Nat
  /\ seqNum \in Int /\ sent.seq = seqNum
  /\ Ahead(timestamp, sent.ts) <= Span(Lag)
  /\ gen # Idle => dtmfTs = timestamp
  /\ pending # <<>> => Ahead(timestamp, dtmfTs) <= Span(MaxPayloads + 3 - Len(pending))
  /\ Current # 0 => IF sent.req = Current THEN sent.ts = dtmfTs
                    ELSE Ahead(dtmfTs, sent.ts) \in 1..Span(Lag)
  /\ elapsed < U32 => Since(timestamp) = elapsed

DigitInv == WriterInv /\ OneDigitInv /\ SourceInv /\ TimingInv

LEMMA SourceTypes ==
  ASSUME DigitInv
  PROVE  /\ AskedInv /\ dtmfSource \in Seq(Requests)
         /\ Current \in Nat /\ sent.req \in Nat /\ Len(asked) \in Nat
         /\ Above(0, dtmfSource)
<1>1. AskedInv /\ dtmfSource \in Seq(Requests) /\ Len(asked) \in Nat
  BY DEF DigitInv, WriterInv, AskedInv
<1>2. Current \in Nat
  BY RequestsAreNumbers DEF DigitInv, OneDigitInv
<1>3. sent.req \in Nat
  <2>1. sent.req \in Requests \cup {0}
    BY DEF DigitInv, OneDigitInv, Packets
  <2> QED BY <2>1, RequestsAreNumbers
<1>4. Above(0, dtmfSource)
  BY <1>1, RequestsAreNumbers DEF Above
<1> QED BY <1>1, <1>2, <1>3, <1>4

LEMMA AskingKeepsOrder ==
  ASSUME DigitInv, NEW a \in Asked, AgentDTMF(a), [MSNext]_msVars
  PROVE  /\ OneDigitInv' /\ SourceInv' /\ Current' = Current
<1> DEFINE n == Len(asked) + 1
           wish == [digit |-> a[1], ms |-> a[2]]
<1>1. UNCHANGED <<gen, pending, sent>>
  BY DEF AgentDTMF, rwVars
<1>2. OneDigitInv' /\ Current' = Current
  BY <1>1, OneDigitStays DEF DigitInv
<1>3. AskedInv' /\ AskedInv /\ asked' = Append(asked, wish)
  BY AskedInvNext, SourceTypes DEF AgentDTMF
<1>4. dtmfSource' = Append(dtmfSource, n) \/ dtmfSource' = dtmfSource
  BY DEF AgentDTMF
<1> HIDE DEF wish
<1>5. Len(asked') = n /\ n \in Requests
  <2>1. Len(asked') = n
    BY <1>3 DEF AskedInv
  <2>2. n <= RequestCount
    BY <1>3, <2>1 DEF AskedInv
  <2> QED BY <2>1, <2>2, SourceTypes, RequestsAreNumbers
<1>6. Current < n /\ sent.req < n /\ Current <= n /\ sent.req <= n
  BY SourceTypes DEF DigitInv, SourceInv
<1>7. CASE dtmfSource' = Append(dtmfSource, n)
  <2>1. \A i \in 1..Len(dtmfSource) : dtmfSource[i] < n
    <3>1. ASSUME NEW i \in 1..Len(dtmfSource) PROVE dtmfSource[i] < n
      <4>1. dtmfSource[i] <= Len(asked) /\ dtmfSource[i] \in Nat /\ Len(asked) \in Nat
        BY <1>3, SourceTypes, RequestsAreNumbers DEF AskedInv
      <4> QED BY <4>1
    <3> QED BY <3>1
  <2> HIDE DEF n
  <2>2. /\ Increasing(Append(dtmfSource, n))
        /\ Above(Current, Append(dtmfSource, n)) /\ Above(sent.req, Append(dtmfSource, n))
    BY <1>5, <1>6, <2>1, SourceTypes, AboveAppend DEF DigitInv, SourceInv
  <2> QED BY <1>1, <1>2, <1>5, <1>6, <1>7, <2>2 DEF SourceInv
<1>8. CASE dtmfSource' = dtmfSource
  BY <1>1, <1>2, <1>5, <1>6, <1>8 DEF DigitInv, SourceInv
<1> QED BY <1>2, <1>4, <1>7, <1>8

LEMMA TakingKeepsOrder ==
  ASSUME DigitInv, TakeDTMF
  PROVE  /\ OneDigitInv' /\ SourceInv' /\ asked' = asked
         /\ Len(dtmfSource') = Len(dtmfSource) - 1 /\ Len(dtmfSource) \in Nat
         /\ \/ /\ \E ms : DTMFRequest(Head(dtmfSource), ms)
               /\ Current' = Head(dtmfSource) /\ sent.req < Current' /\ Current < Current'
               /\ Above(Current', dtmfSource')
            \/ gen = Idle /\ UNCHANGED rwVars /\ Current' = Current
<1> DEFINE r == Head(dtmfSource)
<1>1. /\ asked' = asked /\ dtmfSource' = Tail(dtmfSource) /\ dtmfSource # <<>>
      /\ (\E ms : DTMFRequest(r, ms)) \/ (gen = Idle /\ UNCHANGED rwVars)
  BY DEF TakeDTMF
<1>2. r \in Requests /\ r = dtmfSource[1] /\ r \in 1..Len(asked)
  BY <1>1, SourceTypes, TakenWasAsked
<1>3. Len(dtmfSource') = Len(dtmfSource) - 1 /\ Len(dtmfSource) \in Nat
  BY <1>1, SourceTypes, TailElements
<1>4. /\ Increasing(dtmfSource') /\ Above(r, dtmfSource')
      /\ \A n \in Nat : Above(n, dtmfSource) => Above(n, dtmfSource') /\ n < r
  BY <1>1, <1>2, SourceTypes, AboveTail DEF DigitInv, SourceInv
<1>5. sent.req < r /\ Current < r /\ Above(sent.req, dtmfSource') /\ Above(Current, dtmfSource')
  BY <1>4, SourceTypes DEF DigitInv, SourceInv
<1> HIDE DEF r
<1>6. ASSUME NEW ms, DTMFRequest(r, ms)
      PROVE  OneDigitInv' /\ SourceInv' /\ Current' = r
  <2>1. OneDigitInv' /\ Current' = r /\ sent' = sent
    BY <1>2, <1>5, <1>6, RequestKeepsOneDigit DEF DigitInv, DTMFRequest
  <2>2. r <= Len(asked)
    BY <1>2
  <2> QED BY <1>1, <1>4, <1>5, <2>1, <2>2 DEF SourceInv, DigitInv
<1>7. ASSUME gen = Idle, UNCHANGED rwVars
      PROVE  OneDigitInv' /\ SourceInv' /\ Current' = Current
  <2>1. OneDigitInv' /\ Current' = Current /\ sent' = sent
    BY <1>7, OneDigitStays DEF DigitInv, rwVars
  <2> QED BY <1>1, <1>4, <1>5, <2>1 DEF SourceInv, DigitInv
<1> QED BY <1>1, <1>3, <1>4, <1>5, <1>6, <1>7 DEF r

LEMMA AudioKeepsOrder ==
  ASSUME DigitInv, TickAudio, UNCHANGED <<asked, dtmfSource>>
  PROVE  OneDigitInv' /\ SourceInv' /\ Current = 0 /\ Current' = 0
<1>1. /\ gen = Idle /\ gen' = gen /\ pending = <<>> /\ pending' = pending
      /\ sent' = [kind |-> "audio", req |-> 0, end |-> FALSE, seq |-> (seqNum + 1) % U16,
                  ts |-> (timestamp + TsIncrement) % U32]
  BY DEF TickAudio, toneVars
<1>2. Current = 0 /\ Current' = 0
  BY <1>1 DEF Current
<1>3. sent' \in Packets
  <2>1. U16 \in Nat /\ U16 > 0 /\ U32 \in Nat /\ U32 > 0 /\ TsIncrement \in Nat
    BY RTPWriterConstants
  <2>2. (seqNum + 1) % U16 \in Int
    BY <2>1 DEF DigitInv, TimingInv
  <2>3. (timestamp + TsIncrement) % U32 \in Times
    BY <2>1 DEF DigitInv, TimingInv, Times
  <2> HIDE DEF Times
  <2> QED BY <1>1, <2>2, <2>3 DEF Packets
<1>4. sent'.req = 0 /\ sent'.kind = "audio"
  BY <1>1
<1>5. OneDigitInv'
  BY <1>1, <1>2, <1>3, <1>4 DEF DigitInv, OneDigitInv
<1> QED BY <1>2, <1>4, <1>5, SourceTypes DEF DigitInv, SourceInv

LEMMA StopKeepsOrder ==
  ASSUME DigitInv, WriterStops
  PROVE  OneDigitInv' /\ SourceInv' /\ Current' = 0
<1>1. gen = Idle /\ gen' = gen /\ pending' = <<>> /\ sent' = sent /\ UNCHANGED <<asked, dtmfSource>>
  BY DEF WriterStops
<1>2. Current' = 0
  BY <1>1 DEF Current
<1>3. Len(pending') = 0 /\ pending' \in Seq(Payloads) /\ 1..Len(pending') = {}
  BY <1>1
<1>4. 0 <= MaxPayloads + 3
  BY RTPWriterConstants
<1>5. OneDigitInv'
  BY <1>1, <1>2, <1>3, <1>4 DEF DigitInv, OneDigitInv
<1> QED BY <1>1, <1>2, <1>5, SourceTypes DEF DigitInv, SourceInv

LEMMA OrderNext ==
  DigitInv /\ [MSNext]_msVars => OneDigitInv' /\ SourceInv'
<1> SUFFICES ASSUME DigitInv, [MSNext]_msVars PROVE OneDigitInv' /\ SourceInv'
  OBVIOUS
<1>1. ASSUME NEW a \in Asked, AgentDTMF(a) PROVE OneDigitInv' /\ SourceInv'
  BY <1>1, AskingKeepsOrder
<1>2. CASE TakeDTMF
  BY <1>2, TakingKeepsOrder
<1>3. CASE Quiet
  <2>1. OneDigitInv' /\ Current' = Current
    BY <1>3, OneDigitStays DEF DigitInv, Quiet
  <2> QED BY <1>3, <2>1 DEF DigitInv, SourceInv, Quiet
<1>4. CASE (GenerateTurn \/ GenerateReturn) /\ UNCHANGED <<asked, dtmfSource, link, delivered>>
  <2>1. OneDigitInv' /\ Current' = Current
    BY <1>4, TurnKeepsOneDigit, ReturnKeepsOneDigit DEF DigitInv
  <2>2. sent' = sent
    BY <1>4 DEF GenerateTurn, GenerateReturn
  <2> QED BY <1>4, <2>1, <2>2 DEF DigitInv, SourceInv
<1>5. CASE TickDTMF /\ UNCHANGED <<asked, dtmfSource>>
  <2>1. OneDigitInv' /\ Current' \in {Current, 0} /\ sent'.req = Current
    BY <1>5, TickDTMFKeepsOneDigit DEF DigitInv, TimingInv
  <2> QED BY <1>5, <2>1, SourceTypes DEF DigitInv, SourceInv
<1>6. CASE TickAudio /\ UNCHANGED <<asked, dtmfSource>>
  BY <1>6, AudioKeepsOrder
<1>7. CASE WriterStops
  BY <1>7, StopKeepsOrder
<1> QED BY <1>1, <1>2, <1>3, <1>4, <1>5, <1>6, <1>7, DigitSteps

LEMMA TimeConstants ==
  /\ U32 \in Nat /\ U32 > 0 /\ U16 \in Nat /\ U16 > 0
  /\ TsIncrement \in Nat /\ TsIncrement > 0 /\ MaxPayloads \in Nat /\ StartTs \in Times
  /\ (U32 \div 2) \in Nat /\ U32 \div 2 < U32
<1>1. /\ U32 \in Nat /\ U32 > 0 /\ U16 \in Nat /\ U16 > 0
      /\ TsIncrement \in Nat /\ TsIncrement > 0 /\ MaxPayloads \in Nat /\ StartTs \in Times
  BY RTPWriterConstants DEF Times
<1>2. ASSUME NEW m \in Nat, m > 0 PROVE (m \div 2) \in Nat /\ m \div 2 < m
  BY <1>2, SMT
<1> QED BY <1>1, <1>2

LEMMA ModIsCut ==
  ASSUME NEW m \in Nat, m > 0, NEW x \in Int
  PROVE  /\ 0 <= x /\ x < m => x % m = x
         /\ -m <= x /\ x < 0 => x % m = x + m
         /\ m <= x /\ x < m + m => x % m = x - m
<1>1. ASSUME NEW r \in 0..(m - 1) PROVE r % m = r /\ (r + m) % m = r /\ (r - m) % m = r
  BY <1>1, SMT
<1>2. CASE 0 <= x /\ x < m
  BY <1>1, <1>2
<1>3. CASE -m <= x /\ x < 0
  <2>1. x + m \in 0..(m - 1) /\ (x + m) - m = x
    BY <1>3
  <2> QED BY <1>1, <1>3, <2>1
<1>4. CASE m <= x /\ x < m + m
  <2>1. x - m \in 0..(m - 1) /\ (x - m) + m = x
    BY <1>4
  <2> QED BY <1>1, <1>4, <2>1
<1> QED BY <1>2, <1>3, <1>4

LEMMA Difference ==
  ASSUME NEW m \in Nat, m > 0, NEW a \in 0..(m - 1), NEW b \in 0..(m - 1)
  PROVE  /\ (a - b) % m = IF a >= b THEN a - b ELSE (a - b) + m
         /\ (a - b) % m \in 0..(m - 1)
<1>1. a - b \in Int /\ -m <= a - b /\ a - b < m
  OBVIOUS
<1>2. (a - b) % m = IF a >= b THEN a - b ELSE (a - b) + m
  <2>1. CASE a >= b
    <3>1. 0 <= a - b
      BY <2>1
    <3> QED BY <1>1, <2>1, <3>1, ModIsCut
  <2>2. CASE ~(a >= b)
    <3>1. a - b < 0
      BY <2>2
    <3> QED BY <1>1, <2>2, <3>1, ModIsCut
  <2> QED BY <2>1, <2>2
<1> DEFINE r == (a - b) % m
<1>3. r = IF a >= b THEN a - b ELSE (a - b) + m
  BY <1>2
<1> HIDE DEF r
<1>4. r \in 0..(m - 1)
  BY <1>3
<1> QED BY <1>2, <1>4 DEF r

\* A point moves on by d, and is d further ahead of another, as long as it does not
\* go all the way round.
LEMMA DifferenceGrows ==
  ASSUME NEW m \in Nat, m > 0, NEW a \in 0..(m - 1), NEW b \in 0..(m - 1), NEW d \in Nat,
         ((a - b) % m) + d < m
  PROVE  (a + d) % m \in 0..(m - 1) /\ (((a + d) % m) - b) % m = ((a - b) % m) + d
<1> DEFINE e == (a - b) % m
           c == (a + d) % m
<1>1. e = (IF a >= b THEN a - b ELSE (a - b) + m) /\ e + d < m
  BY Difference
<1> HIDE DEF e
<1>2. a + d \in Int /\ 0 <= a + d /\ a + d < m + m
  BY <1>1
<1>3. c = IF a + d < m THEN a + d ELSE (a + d) - m
  <2>1. CASE a + d < m
    BY <1>2, <2>1, ModIsCut
  <2>2. CASE ~(a + d < m)
    <3>1. m <= a + d
      BY <2>2
    <3> QED BY <1>2, <2>2, <3>1, ModIsCut
  <2> QED BY <2>1, <2>2
<1> HIDE DEF c
<1>4. c \in 0..(m - 1)
  BY <1>2, <1>3
<1>5. (c - b) % m = IF c >= b THEN c - b ELSE (c - b) + m
  BY <1>4, Difference
<1>6. (c - b) % m = e + d
  BY <1>1, <1>3, <1>4, <1>5
<1> QED BY <1>4, <1>6 DEF c, e

LEMMA AheadGrows ==
  ASSUME NEW a \in Times, NEW b \in Times, NEW d \in Nat, Ahead(a, b) + d < U32
  PROVE  (a + d) % U32 \in Times /\ Ahead((a + d) % U32, b) = Ahead(a, b) + d
<1>1. U32 \in Nat /\ U32 > 0 /\ a \in 0..(U32 - 1) /\ b \in 0..(U32 - 1)
  BY TimeConstants DEF Times
<1>2. ((a - b) % U32) + d < U32
  BY DEF Ahead
<1> QED BY <1>1, <1>2, DifferenceGrows DEF Ahead, Times

LEMMA AheadIsTime ==
  ASSUME NEW a \in Times, NEW b \in Times
  PROVE  Ahead(a, b) \in 0..(U32 - 1) /\ Ahead(a, b) \in Nat /\ Ahead(a, a) = 0
<1>1. U32 \in Nat /\ U32 > 0 /\ a \in 0..(U32 - 1) /\ b \in 0..(U32 - 1)
  BY TimeConstants DEF Times
<1>2. (a - b) % U32 \in 0..(U32 - 1)
  BY <1>1, Difference
<1>3. (a - a) % U32 = 0
  <2>1. (a - a) % U32 = a - a
    BY <1>1, Difference
  <2> QED BY <1>1, <2>1
<1>4. Ahead(a, b) \in 0..(U32 - 1) /\ Ahead(a, a) = 0
  BY <1>2, <1>3 DEF Ahead
<1> QED BY <1>4

LEMMA TimeGoesOn ==
  ASSUME NEW a \in Times, NEW d \in Nat
  PROVE  (a + d) % U32 \in Times
<1>1. ASSUME NEW m \in Nat, m > 0, NEW x \in Nat PROVE x % m \in 0..(m - 1)
  BY <1>1, SMT
<1> QED BY <1>1, TimeConstants DEF Times

LEMMA SpanGrows ==
  /\ \A n \in Nat : Span(n) \in Nat /\ Span(n + 1) = Span(n) + TsIncrement
  /\ \A n, k \in Nat : n <= k => Span(n) <= Span(k)
<1>1. ASSUME NEW t \in Nat, NEW n \in Nat
      PROVE  n * t \in Nat /\ (n + 1) * t = n * t + t
  BY SMT
<1>2. ASSUME NEW t \in Nat, NEW n \in Nat, NEW k \in Nat, n <= k
      PROVE  n * t <= k * t
  BY <1>2, SMT
<1> QED BY <1>1, <1>2, TimeConstants DEF Span

\* What DigitsAreNear says.
LEMMA SpanIsNear ==
  ASSUME NEW n \in Nat, n <= MaxPayloads + 3 + RequestCount
  PROVE  Span(n) + TsIncrement < U32 \div 2 /\ Span(n) + TsIncrement < U32
<1> DEFINE big == RequestCount + MaxPayloads + 4
<1>1. RequestCount \in Nat /\ MaxPayloads \in Nat
  BY RequestsAreNumbers, TimeConstants
<1>2. big \in Nat /\ n + 1 \in Nat /\ n + 1 <= big
  BY <1>1
<1>3. Span(big) < U32 \div 2
  BY DigitsAreNear DEF Span, RequestCount
<1> HIDE DEF big
<1>4. Span(n + 1) <= Span(big) /\ Span(n + 1) = Span(n) + TsIncrement /\ Span(big) \in Nat
      /\ Span(n) \in Nat
  BY <1>2, SpanGrows
<1> QED BY <1>3, <1>4, TimeConstants

LEMMA GoneIsBounded ==
  ASSUME AskedInv
  PROVE  Gone \in Nat /\ Gone <= RequestCount
<1>1. Len(asked) \in Nat /\ Len(dtmfSource) \in Nat
  BY DEF AskedInv
<1> QED BY <1>1, RequestsAreNumbers DEF AskedInv, Gone

LEMMA LagIsNear ==
  ASSUME AskedInv
  PROVE  /\ Lag \in Nat /\ Span(Lag) \in Nat
         /\ Span(Lag) + TsIncrement < U32 \div 2 /\ Span(Lag) + TsIncrement < U32
         /\ Span(Lag + 1) = Span(Lag) + TsIncrement
<1>1. Lag \in Nat /\ Lag <= MaxPayloads + 3 + RequestCount
  BY GoneIsBounded, TimeConstants, RequestsAreNumbers DEF Lag
<1> QED BY <1>1, SpanGrows, SpanIsNear

LEMMA TimingTypes ==
  ASSUME DigitInv
  PROVE  /\ timestamp \in Times /\ dtmfTs \in Times /\ sent.ts \in Times /\ seqNum \in Int
         /\ Ahead(timestamp, sent.ts) \in Nat /\ Since(timestamp) \in Nat /\ elapsed \in Nat
         /\ AskedInv
<1>1. timestamp \in Times /\ dtmfTs \in Times /\ seqNum \in Int /\ elapsed \in Nat /\ AskedInv
  BY DEF DigitInv, TimingInv, WriterInv
<1>2. sent.ts \in Times
  BY DEF DigitInv, OneDigitInv, Packets
<1> QED BY <1>1, <1>2, AheadIsTime, TimeConstants DEF Since

\* The clock after one more packet time.
LEMMA ClockTicks ==
  ASSUME DigitInv, timestamp' = (timestamp + TsIncrement) % U32,
         elapsed' = elapsed + TsIncrement
  PROVE  /\ timestamp' \in Times /\ elapsed' \in Nat
         /\ elapsed' < U32 => Since(timestamp') = elapsed' /\ Since(timestamp) = elapsed
         /\ Ahead(timestamp', sent.ts) = Ahead(timestamp, sent.ts) + TsIncrement
         /\ Ahead(timestamp', sent.ts) \in 1..(U32 \div 2 - 1)
         /\ Ahead(timestamp', sent.ts) <= Span(Lag) + TsIncrement
<1>1. timestamp' \in Times /\ elapsed' \in Nat
  BY TimingTypes, TimeGoesOn, TimeConstants
<1>2. ASSUME elapsed' < U32 PROVE Since(timestamp') = elapsed' /\ Since(timestamp) = elapsed
  <2>1. elapsed < U32
    BY <1>2, TimingTypes, TimeConstants
  <2>2. Ahead(timestamp, StartTs) = elapsed
    BY <2>1 DEF DigitInv, TimingInv, Since
  <2>3. Ahead(timestamp', StartTs) = Ahead(timestamp, StartTs) + TsIncrement
    BY <1>2, <2>2, AheadGrows, TimingTypes, TimeConstants
  <2> QED BY <2>2, <2>3 DEF Since
<1>3. Ahead(timestamp, sent.ts) <= Span(Lag)
  BY DEF DigitInv, TimingInv
<1>4. /\ Span(Lag) \in Nat /\ Span(Lag) + TsIncrement < U32 \div 2
      /\ Span(Lag) + TsIncrement < U32
  BY TimingTypes, LagIsNear
<1>5. Ahead(timestamp, sent.ts) + TsIncrement < U32
  BY <1>3, <1>4, TimingTypes, TimeConstants
<1>6. Ahead(timestamp', sent.ts) = Ahead(timestamp, sent.ts) + TsIncrement
  BY <1>5, AheadGrows, TimingTypes, TimeConstants
<1> QED BY <1>1, <1>2, <1>3, <1>4, <1>6, TimingTypes, TimeConstants

\* More requests gone, and nothing else.
LEMMA LagMayGrow ==
  ASSUME DigitInv, AskedInv', Current' = Current,
         UNCHANGED <<gen, pending, timestamp, elapsed, seqNum, dtmfTs, sent>>, Gone' >= Gone
  PROVE  TimingInv'
<1>1. Lag \in Nat /\ Lag' \in Nat /\ Lag <= Lag'
  <2>1. Gone \in Nat
    BY TimingTypes, GoneIsBounded
  <2>2. Gone' \in Nat
    <3>1. Len(asked') \in Nat /\ Len(dtmfSource') \in Nat
      BY DEF AskedInv
    <3> QED BY <2>1, <3>1 DEF Gone
  <2>3. ASSUME NEW g \in Nat, NEW h \in Nat, h >= g
        PROVE  /\ MaxPayloads + 3 + g \in Nat /\ MaxPayloads + 3 + h \in Nat
               /\ MaxPayloads + 3 + g <= MaxPayloads + 3 + h
    BY <2>3, TimeConstants
  <2> QED BY <2>1, <2>2, <2>3 DEF Lag
<1>2. Span(Lag) <= Span(Lag') /\ Span(Lag) \in Nat /\ Span(Lag') \in Nat
  BY <1>1, SpanGrows
<1>3. Ahead(timestamp, sent.ts) <= Span(Lag')
  BY <1>2, TimingTypes DEF DigitInv, TimingInv
<1>4. Ahead(dtmfTs, sent.ts) \in 1..Span(Lag) => Ahead(dtmfTs, sent.ts) \in 1..Span(Lag')
  BY <1>2
<1> QED BY <1>3, <1>4 DEF DigitInv, TimingInv, Ahead, Since, Span

LEMMA TakingKeepsTime ==
  ASSUME DigitInv, AskedInv', TakeDTMF
  PROVE  TimingInv'
<1>1. asked' = asked /\ Len(dtmfSource') = Len(dtmfSource) - 1 /\ Len(dtmfSource) \in Nat
  BY TakingKeepsOrder
<1>2. Gone' = Gone + 1 /\ Gone \in Nat /\ Lag' = Lag + 1 /\ Lag \in Nat
  <2>1. Gone \in Nat /\ Len(asked) \in Nat
    BY TimingTypes, GoneIsBounded, SourceTypes
  <2> QED BY <1>1, <2>1, TimeConstants DEF Gone, Lag
<1>3. ASSUME NEW ms, DTMFRequest(Head(dtmfSource), ms), sent.req < Current'
      PROVE  TimingInv'
  <2>1. /\ timestamp' = (timestamp + TsIncrement) % U32 /\ dtmfTs' = timestamp'
        /\ elapsed' = elapsed + TsIncrement /\ seqNum' = seqNum /\ sent' = sent
        /\ pending' = <<>>
    BY <1>3 DEF DTMFRequest, ToneTimestamp
  <2>2. Span(Lag') = Span(Lag) + TsIncrement
    BY <1>2, SpanGrows
  <2>3. /\ timestamp' \in Times /\ elapsed' \in Nat
        /\ elapsed' < U32 => Since(timestamp') = elapsed'
        /\ Ahead(timestamp', sent.ts) \in 1..(U32 \div 2 - 1)
        /\ Ahead(timestamp', sent.ts) <= Span(Lag')
    BY <2>1, <2>2, ClockTicks
  <2>4. Span(Lag') \in Nat /\ (U32 \div 2) \in Nat
    BY <1>2, SpanGrows, TimeConstants
  <2>5. Ahead(timestamp', sent.ts) \in 1..Span(Lag')
    BY <2>3, <2>4
  <2>6. sent.req # Current'
    BY <1>3, SourceTypes
  <2> QED BY <2>1, <2>3, <2>5, <2>6 DEF DigitInv, TimingInv, Ahead, Since, Span
<1>4. ASSUME UNCHANGED rwVars, Current' = Current PROVE TimingInv'
  <2>1. Gone' >= Gone
    BY <1>2
  <2> QED BY <1>4, <2>1, LagMayGrow DEF rwVars
<1> QED BY <1>3, <1>4, TakingKeepsOrder

LEMMA TickDTMFKeepsTime ==
  ASSUME DigitInv, TickDTMF, UNCHANGED <<asked, dtmfSource>>
  PROVE  TimingInv'
<1>1. /\ timestamp' = (timestamp + TsIncrement) % U32 /\ dtmfTs' = dtmfTs
      /\ elapsed' = elapsed + TsIncrement /\ seqNum' = (seqNum + 1) % U16
      /\ gen = Idle /\ gen' = Idle /\ pending # <<>>
  BY DEF TickDTMF
<1>2. /\ Current' \in {Current, 0} /\ sent'.req = Current /\ sent'.ts = dtmfTs
      /\ sent'.seq = (seqNum + 1) % U16
      /\ Len(pending) \in Nat /\ Len(pending') = Len(pending) - 1
  BY TickDTMFKeepsOneDigit DEF DigitInv, TimingInv
<1>3. /\ timestamp' \in Times /\ elapsed' \in Nat
      /\ elapsed' < U32 => Since(timestamp') = elapsed'
  BY <1>1, ClockTicks
<1>4. seqNum' \in Int
  BY <1>1, TimingTypes, TimeConstants
<1> DEFINE n == MaxPayloads + 3 - Len(pending)
<1>5. n \in Nat /\ n <= MaxPayloads + 3 + RequestCount /\ n + 1 <= Lag /\ Lag \in Nat
  <2>1. Len(pending) <= MaxPayloads + 3 /\ Len(pending) > 0
    BY <1>1, <1>2 DEF DigitInv, OneDigitInv
  <2>2. Gone \in Nat
    BY TimingTypes, GoneIsBounded
  <2> QED BY <1>2, <2>1, <2>2, TimeConstants, RequestsAreNumbers DEF Lag
<1>6. Ahead(timestamp, dtmfTs) <= Span(n)
  BY <1>1 DEF DigitInv, TimingInv
<1>7. MaxPayloads + 3 - Len(pending') = n + 1
  BY <1>2, TimeConstants
<1> HIDE DEF n
<1>8. /\ Span(n + 1) = Span(n) + TsIncrement /\ Span(n) \in Nat /\ Span(n) + TsIncrement < U32
      /\ Span(n + 1) <= Span(Lag) /\ Span(Lag) \in Nat
  <2>1. n + 1 \in Nat
    BY <1>5
  <2> QED BY <1>5, <2>1, SpanGrows, SpanIsNear
<1>9. Ahead(timestamp, dtmfTs) \in Nat
  BY AheadIsTime, TimingTypes
<1>10. Ahead(timestamp', dtmfTs) = Ahead(timestamp, dtmfTs) + TsIncrement
  <2>1. Ahead(timestamp, dtmfTs) + TsIncrement < U32
    BY <1>6, <1>8, <1>9, TimeConstants
  <2> QED BY <1>1, <2>1, AheadGrows, TimingTypes, TimeConstants
<1>11. Ahead(timestamp', dtmfTs) <= Span(n + 1) /\ Ahead(timestamp', dtmfTs) <= Span(Lag)
  BY <1>6, <1>8, <1>9, <1>10, TimeConstants
<1>12. Lag' = Lag
  BY DEF Lag, Gone
<1>13. dtmfTs' \in Times
  BY <1>1, TimingTypes
<1>14. sent'.seq = seqNum'
  BY <1>1, <1>2
<1>15. Current' # 0 => sent'.req = Current'
  BY <1>2
<1>16. pending' # <<>> =>
         Ahead(timestamp', dtmfTs') <= Span(MaxPayloads + 3 - Len(pending'))
  BY <1>1, <1>7, <1>11
<1>17. Ahead(timestamp', sent'.ts) <= Span(Lag')
  BY <1>2, <1>11, <1>12
<1> QED BY <1>1, <1>2, <1>3, <1>4, <1>13, <1>14, <1>15, <1>16, <1>17
        DEF TimingInv, Ahead, Since, Span

LEMMA TickAudioKeepsTime ==
  ASSUME DigitInv, TickAudio, UNCHANGED <<asked, dtmfSource>>
  PROVE  TimingInv'
<1>1. /\ timestamp' = (timestamp + TsIncrement) % U32 /\ dtmfTs' = dtmfTs
      /\ elapsed' = elapsed + TsIncrement /\ seqNum' = (seqNum + 1) % U16
      /\ gen = Idle /\ gen' = Idle /\ pending' = <<>>
      /\ sent'.seq = seqNum' /\ sent'.ts = timestamp'
  BY DEF TickAudio, toneVars
<1>2. Current' = 0
  BY AudioKeepsOrder
<1>3. /\ timestamp' \in Times /\ elapsed' \in Nat
      /\ elapsed' < U32 => Since(timestamp') = elapsed'
  BY <1>1, ClockTicks
<1>4. seqNum' \in Int
  BY <1>1, TimingTypes, TimeConstants
<1>5. Ahead(timestamp', sent'.ts) = 0
  BY <1>1, <1>3, AheadIsTime
<1>6. Lag' = Lag /\ Span(Lag) \in Nat
  BY TimingTypes, LagIsNear DEF Lag, Gone
<1>7. Ahead(timestamp', sent'.ts) <= Span(Lag')
  BY <1>5, <1>6
<1> QED BY <1>1, <1>2, <1>3, <1>4, <1>7, TimingTypes DEF TimingInv, Ahead, Since, Span

LEMMA TimingNext == DigitInv /\ [MSNext]_msVars => TimingInv'
<1> SUFFICES ASSUME DigitInv, [MSNext]_msVars PROVE TimingInv'
  OBVIOUS
<1>0. AskedInv'
  BY TimingTypes, AskedInvNext
<1>1. ASSUME NEW a \in Asked, AgentDTMF(a) PROVE TimingInv'
  <2>1. UNCHANGED rwVars /\ Current' = Current
    BY <1>1, AskingKeepsOrder DEF AgentDTMF
  <2>2. /\ asked' = Append(asked, [digit |-> a[1], ms |-> a[2]])
        /\ dtmfSource' = Append(dtmfSource, Len(asked) + 1) \/ dtmfSource' = dtmfSource
    BY <1>1 DEF AgentDTMF
  <2>3. Len(asked') = Len(asked) + 1 /\ Len(asked) \in Nat /\ Len(dtmfSource) \in Nat
    BY <2>2, TimingTypes DEF AskedInv
  <2>4. Len(dtmfSource') = Len(dtmfSource) + 1 \/ Len(dtmfSource') = Len(dtmfSource)
    BY <2>2, TimingTypes DEF AskedInv
  <2>5. Gone' >= Gone
    BY <2>3, <2>4 DEF Gone
  <2> QED BY <1>0, <2>1, <2>5, LagMayGrow DEF rwVars
<1>2. CASE TakeDTMF
  BY <1>0, <1>2, TakingKeepsTime
<1>3. ASSUME Current' = Current, asked' = asked, dtmfSource' = dtmfSource,
             UNCHANGED <<gen, pending, timestamp, elapsed, seqNum, dtmfTs, sent>>
      PROVE  TimingInv'
  <2>1. Gone' >= Gone
    BY <1>3, TimingTypes, GoneIsBounded DEF Gone
  <2> QED BY <1>0, <1>3, <2>1, LagMayGrow
<1>4. CASE Quiet
  BY <1>3, <1>4, OneDigitStays DEF DigitInv, Quiet
<1>5. CASE GenerateTurn /\ UNCHANGED <<asked, dtmfSource, link, delivered>>
  <2>1. Current' = Current
    BY <1>5, TurnKeepsOneDigit DEF DigitInv
  <2>2. /\ UNCHANGED <<pending, timestamp, elapsed, seqNum, dtmfTs, sent>> /\ gen # Idle
        /\ Lag' = Lag
    BY <1>5 DEF GenerateTurn, ToneMore, clock, Lag, Gone
  <2> QED BY <2>1, <2>2 DEF DigitInv, TimingInv, Ahead, Since, Span
<1>6. CASE GenerateReturn /\ UNCHANGED <<asked, dtmfSource, link, delivered>>
  <2>1. Current' = Current /\ OneDigitInv'
    BY <1>6, ReturnKeepsOneDigit DEF DigitInv
  <2>2. /\ UNCHANGED <<timestamp, elapsed, seqNum, dtmfTs, sent>> /\ gen # Idle /\ gen' = Idle
        /\ Lag' = Lag
    BY <1>6 DEF GenerateReturn, clock, Lag, Gone
  <2>3. Ahead(timestamp', dtmfTs') = 0
    BY <2>2, AheadIsTime, TimingTypes DEF DigitInv, TimingInv
  <2>4. MaxPayloads + 3 - Len(pending') \in Nat
    BY <2>1, TimeConstants DEF OneDigitInv
  <2>5. Span(MaxPayloads + 3 - Len(pending')) \in Nat
    BY <2>4, SpanGrows
  <2>6. Ahead(timestamp', dtmfTs') <= Span(MaxPayloads + 3 - Len(pending'))
    BY <2>3, <2>5
  <2> QED BY <2>1, <2>2, <2>6 DEF DigitInv, TimingInv, Ahead, Since, Span
<1>7. CASE TickDTMF /\ UNCHANGED <<asked, dtmfSource>>
  BY <1>7, TickDTMFKeepsTime
<1>8. CASE TickAudio /\ UNCHANGED <<asked, dtmfSource>>
  BY <1>8, TickAudioKeepsTime
<1>9. CASE WriterStops
  <2>1. /\ UNCHANGED <<gen, timestamp, elapsed, seqNum, dtmfTs, sent, asked, dtmfSource>>
        /\ pending' = <<>>
    BY <1>9 DEF WriterStops, clock
  <2>2. Current' = 0 /\ Lag' = Lag
    BY <1>9, <2>1, StopKeepsOrder DEF Lag, Gone
  <2> QED BY <2>1, <2>2 DEF DigitInv, TimingInv, Ahead, Since, Span
<1> QED BY <1>1, <1>2, <1>4, <1>5, <1>6, <1>7, <1>8, <1>9, DigitSteps

LEMMA DigitInvHolds == MSSpec => []DigitInv
<1>1. MSInit => DigitInv
  <2> SUFFICES ASSUME MSInit PROVE DigitInv
    OBVIOUS
  <2>1. /\ asked = <<>> /\ dtmfSource = <<>> /\ pending = <<>> /\ gen = Idle
        /\ timestamp = StartTs /\ elapsed = 0 /\ seqNum = StartSeq /\ dtmfTs = 0
        /\ sent = NoPacket
    BY DEF MSInit, RWInit
  <2>2. Current = 0
    BY <2>1 DEF Current
  <2>3. StartSeq \in Int /\ StartTs \in Times /\ 0 \in Times
    BY RTPWriterConstants, TimeConstants DEF Times
  <2>4. sent \in Packets /\ sent.req = 0 /\ sent.kind = "none" /\ sent.seq = StartSeq
        /\ sent.ts = StartTs
    BY <2>1, <2>3 DEF Packets, NoPacket
  <2>5. OneDigitInv
    <3>1. 0 <= MaxPayloads + 3 /\ Len(pending) = 0 /\ pending \in Seq(Payloads)
          /\ 1..Len(pending) = {}
      BY <2>1, TimeConstants
    <3> QED BY <2>1, <2>2, <2>4, <3>1 DEF OneDigitInv
  <2>6. SourceInv
    BY <2>1, <2>2, <2>4 DEF SourceInv, Increasing, Above
  <2>7. TimingInv
    <3>1. Ahead(timestamp, sent.ts) = 0 /\ Since(timestamp) = 0
      BY <2>1, <2>3, <2>4, AheadIsTime DEF Since
    <3>2. Lag \in Nat
      BY <2>1, TimeConstants DEF Lag, Gone
    <3>3. Span(Lag) \in Nat
      BY <3>2, SpanGrows
    <3> QED BY <2>1, <2>2, <2>3, <2>4, <3>1, <3>3 DEF TimingInv
  <2>8. AskedInv
    BY RequestsAreNumbers DEF MSInit, AskedInv
  <2>9. ToneInv
    BY DEF MSInit, RWInit, ToneInv, TonesGrowToTheirLength
  <2> QED BY <2>5, <2>6, <2>7, <2>8, <2>9, RingInvInit DEF DigitInv, WriterInv, MSInit
<1>2. WriterInv' /\ DigitInv /\ [MSNext]_msVars => DigitInv'
  BY OrderNext, TimingNext DEF DigitInv
<1> QED BY <1>1, <1>2, WriterInvHolds, PTL DEF MSSpec

\* What the receiver tells digits apart by, for any number of digits and however long
\* their tones, as long as they are near: no gap in the sequence numbers, time that
\* only goes forward, one timestamp for a digit's packets and another for the next.
THEOREM TimestampsAreApart == MSSpec => TimestampsTellDigitsApart
<1> DEFINE Step ==
      sent' # sent =>
        /\ sent'.seq = (sent.seq + 1) % U16
        /\ IF sent'.kind = "dtmf" /\ sent.kind = "dtmf" /\ sent'.req = sent.req
           THEN sent'.ts = sent.ts
           ELSE After(sent'.ts, sent.ts)
<1>1. DigitInv /\ [MSNext]_msVars => Step
  <2> SUFFICES ASSUME DigitInv, [MSNext]_msVars, sent' # sent
               PROVE  /\ sent'.seq = (sent.seq + 1) % U16
                      /\ IF sent'.kind = "dtmf" /\ sent.kind = "dtmf" /\ sent'.req = sent.req
                         THEN sent'.ts = sent.ts
                         ELSE After(sent'.ts, sent.ts)
    OBVIOUS
  <2>1. TickDTMF \/ TickAudio
    BY SessionWrites, TimingTypes DEF RWNext, AudioData, DTMFRequest, Generate, GenerateTurn,
       GenerateReturn, Tick, TickIdle, rwVars
  <2>2. sent.seq = seqNum
    BY DEF DigitInv, TimingInv
  <2>3. CASE TickDTMF
    <3>1. /\ sent'.req = Current /\ Current \in Requests /\ sent'.ts = dtmfTs
          /\ sent'.seq = (seqNum + 1) % U16 /\ sent'.kind = "dtmf"
      BY <2>3, TickDTMFKeepsOneDigit DEF DigitInv, TimingInv
    <3>2. Current # 0 /\ (sent.kind = "dtmf" <=> sent.req # 0)
      BY <3>1, RequestsAreNumbers DEF DigitInv, OneDigitInv
    <3>3. CASE sent.req = Current
      <4>1. sent.ts = dtmfTs
        BY <3>2, <3>3 DEF DigitInv, TimingInv
      <4> QED BY <2>2, <3>1, <3>2, <3>3, <4>1
    <3>4. CASE sent.req # Current
      <4>1. Ahead(dtmfTs, sent.ts) \in 1..Span(Lag)
        BY <3>2, <3>4 DEF DigitInv, TimingInv
      <4>2. Span(Lag) + TsIncrement < U32 \div 2 /\ Span(Lag) \in Nat
        BY TimingTypes, LagIsNear
      <4>3. Ahead(dtmfTs, sent.ts) \in 1..(U32 \div 2 - 1)
        BY <4>1, <4>2, TimeConstants
      <4> QED BY <2>2, <3>1, <3>4, <4>3 DEF After, Ahead
    <3> QED BY <3>3, <3>4
  <2>4. CASE TickAudio
    <3>1. /\ timestamp' = (timestamp + TsIncrement) % U32 /\ elapsed' = elapsed + TsIncrement
          /\ sent'.ts = timestamp' /\ sent'.kind = "audio" /\ sent'.seq = (seqNum + 1) % U16
      BY <2>4 DEF TickAudio
    <3>2. Ahead(timestamp', sent.ts) \in 1..(U32 \div 2 - 1)
      BY <3>1, ClockTicks
    <3> QED BY <2>2, <3>1, <3>2 DEF After, Ahead
  <2> QED BY <2>1, <2>3, <2>4
<1>2. DigitInv /\ [MSNext]_msVars => [Step]_rwVars
  BY <1>1
<1>3. TimestampsTellDigitsApart <=> [][Step]_rwVars
  BY DEF TimestampsTellDigitsApart
<1> HIDE DEF Step
<1> QED BY <1>2, <1>3, DigitInvHolds, PTL DEF MSSpec

----------------------------------------------------------------------------
(* The end packets and the reader                                           *)

\* The end packets are of digits that were asked for and taken.
EndsAreAsked ==
  \A p \in Ends :
    /\ p.req \in Requests /\ p.req <= Len(asked) /\ Above(p.req, dtmfSource)
    /\ p.ts \in Times /\ p.event = DigitToEvent(asked[p.req].digit)

InOrder(p, q) ==
  /\ p.req = q.req => p.ts = q.ts
  /\ p.req < q.req => Since(p.ts) < Since(q.ts)

\* As long as timestamps do not come again, those of a later digit are later.
EndsInOrder ==
  elapsed < U32 =>
    \A p \in Ends :
      /\ Since(p.ts) <= elapsed
      /\ \A q \in Ends : InOrder(p, q)

\* The digit under way is the last one, and has no end packet before its tone is made.
CurrentIsLast ==
  Current # 0 =>
    /\ \A p \in Ends : p.req <= Current /\ (gen # Idle => p.req # Current)
    /\ elapsed < U32 =>
         /\ Since(dtmfTs) <= elapsed
         /\ \A p \in Ends : IF p.req = Current THEN p.ts = dtmfTs
                            ELSE Since(p.ts) < Since(dtmfTs)

EndsInv == EndsAreAsked /\ EndsInOrder /\ CurrentIsLast

\* The reader's last timestamp is that of the last digit it has got, if none crossed.
ReaderInv ==
  /\ DOMAIN reports = Requests
  /\ ~crossed /\ elapsed < U32 =>
       /\ delivered = {} => lastDTMFTimestamp = 0
       /\ delivered # {} =>
            \E q \in delivered : q.ts = lastDTMFTimestamp /\ \A p \in delivered : p.req <= q.req
       /\ \A r \in Requests : (\A p \in delivered : p.req # r) => reports[r] = <<>>
       /\ \A p \in delivered : p.ts = 0 \/ reports[p.req] = <<ParsedDigit(p)>>

LEMMA EndsTypes ==
  ASSUME EndsAreAsked, NEW p \in Ends
  PROVE  p.req \in Requests /\ p.req \in Nat /\ p.req > 0 /\ Since(p.ts) \in Nat
  BY RequestsAreNumbers, AheadIsTime, TimeConstants DEF EndsAreAsked, Since

\* What time and losses leave of it.
LEMMA EndsKept ==
  ASSUME DigitInv, EndsInv, Ends' \subseteq Ends, UNCHANGED <<asked, dtmfSource>>,
         elapsed' \in Nat, elapsed' >= elapsed
  PROVE  EndsAreAsked' /\ EndsInOrder'
<1>1. EndsAreAsked'
  BY DEF EndsInv, EndsAreAsked, Above
<1>2. ASSUME elapsed' < U32
      PROVE  elapsed < U32 /\ \A p \in Ends : Since(p.ts) <= elapsed'
  <2>1. elapsed < U32
    BY <1>2, TimeConstants, TimingTypes
  <2>2. ASSUME NEW p \in Ends PROVE Since(p.ts) <= elapsed'
    <3>1. Since(p.ts) <= elapsed /\ Since(p.ts) \in Nat
      BY <2>1, EndsTypes DEF EndsInv, EndsInOrder
    <3> QED BY <3>1, TimingTypes
  <2> QED BY <2>1, <2>2
<1>3. EndsInOrder'
  <2> SUFFICES ASSUME elapsed' < U32, NEW p \in Ends'
               PROVE  /\ Since(p.ts) <= elapsed'
                      /\ \A q \in Ends' : InOrder(p, q)
    BY DEF EndsInOrder, Since, Ahead
  <2> QED BY <1>2 DEF EndsInv, EndsInOrder
<1> QED BY <1>1, <1>3

LEMMA AskingKeepsEnds ==
  ASSUME DigitInv, EndsInv, NEW a \in Asked, AgentDTMF(a), [MSNext]_msVars
  PROVE  EndsInv'
<1> DEFINE n == Len(asked) + 1
           wish == [digit |-> a[1], ms |-> a[2]]
<1>1. /\ UNCHANGED <<gen, pending, sent, elapsed, dtmfTs, link, delivered>>
      /\ asked' = Append(asked, wish)
      /\ dtmfSource' = Append(dtmfSource, n) \/ dtmfSource' = dtmfSource
  BY DEF AgentDTMF, rwVars, readerVars
<1>2. Current' = Current /\ Ends' = Ends
  BY <1>1, AskingKeepsOrder DEF Ends
<1>3. AskedInv /\ AskedInv'
  BY AskedInvNext, SourceTypes
<1> HIDE DEF wish
<1>4. Len(asked') = n /\ \A i \in 1..Len(asked) : asked'[i] = asked[i]
  <2>1. Len(asked') = n
    BY <1>1, <1>3 DEF AskedInv
  <2>2. ASSUME NEW i \in 1..Len(asked) PROVE asked'[i] = asked[i]
    BY <1>1, <1>3 DEF AskedInv
  <2> QED BY <2>1, <2>2
<1>5. n \in Requests
  <2>1. n <= RequestCount
    BY <1>3, <1>4 DEF AskedInv
  <2> QED BY <2>1, SourceTypes, RequestsAreNumbers
<1>6. \A i \in 1..Len(dtmfSource) : dtmfSource[i] < n
  <2>1. ASSUME NEW i \in 1..Len(dtmfSource) PROVE dtmfSource[i] < n
    <3>1. dtmfSource[i] <= Len(asked) /\ dtmfSource[i] \in Nat /\ Len(asked) \in Nat
      BY <1>3, SourceTypes, RequestsAreNumbers DEF AskedInv
    <3> QED BY <3>1
  <2> QED BY <2>1
<1>7. ASSUME NEW p \in Ends
      PROVE  /\ p.req \in Requests /\ p.req <= Len(asked') /\ Above(p.req, dtmfSource')
             /\ p.ts \in Times /\ p.event = DigitToEvent(asked'[p.req].digit)
  <2>1. /\ p.req \in Requests /\ p.req <= Len(asked) /\ Above(p.req, dtmfSource)
        /\ p.ts \in Times /\ p.event = DigitToEvent(asked[p.req].digit)
    BY DEF EndsInv, EndsAreAsked
  <2>2. p.req \in Nat /\ p.req \in 1..Len(asked) /\ p.req < n
    BY <2>1, SourceTypes, RequestsAreNumbers
  <2>3. Above(p.req, dtmfSource')
    <3>1. CASE dtmfSource' = Append(dtmfSource, n)
      <4> HIDE DEF n
      <4> QED BY <1>5, <1>6, <2>1, <2>2, <3>1, SourceTypes, AboveAppend DEF DigitInv, SourceInv
    <3> QED BY <1>1, <2>1, <3>1
  <2> QED BY <1>4, <2>1, <2>2, <2>3, SourceTypes
<1>8. EndsAreAsked'
  BY <1>2, <1>7 DEF EndsAreAsked
<1>9. EndsInOrder' /\ CurrentIsLast'
  BY <1>1, <1>2 DEF EndsInv, EndsInOrder, CurrentIsLast, Since, Ahead
<1> QED BY <1>8, <1>9 DEF EndsInv

LEMMA TakingKeepsEnds ==
  ASSUME DigitInv, EndsInv, TakeDTMF, TimingInv'
  PROVE  EndsInv'
<1>1. /\ Ends' = Ends /\ asked' = asked /\ dtmfSource' = Tail(dtmfSource) /\ dtmfSource # <<>>
  BY DEF TakeDTMF, Ends, readerVars
<1>2. \A n \in Nat : Above(n, dtmfSource) => Above(n, dtmfSource') /\ n < Head(dtmfSource)
  <2>1. Head(dtmfSource) = dtmfSource[1]
    BY <1>1, SourceTypes, TakenWasAsked
  <2> QED BY <1>1, <2>1, SourceTypes, AboveTail DEF DigitInv, SourceInv
<1>3. ASSUME NEW p \in Ends
      PROVE  /\ p.req \in Nat /\ Above(p.req, dtmfSource') /\ p.req < Head(dtmfSource)
  BY <1>2, EndsTypes DEF EndsInv, EndsAreAsked
<1>4. EndsAreAsked'
  BY <1>1, <1>3 DEF EndsInv, EndsAreAsked
<1>5. ASSUME NEW ms, DTMFRequest(Head(dtmfSource), ms), Current' = Head(dtmfSource)
      PROVE  EndsInv'
  <2>1. /\ timestamp' = (timestamp + TsIncrement) % U32 /\ dtmfTs' = timestamp'
        /\ elapsed' = elapsed + TsIncrement
    BY <1>5 DEF DTMFRequest, ToneTimestamp
  <2>2. elapsed' \in Nat /\ (elapsed' < U32 => Since(timestamp') = elapsed' /\ elapsed < U32)
    BY <2>1, ClockTicks, TimingTypes, TimeConstants
  <2>3. ASSUME elapsed' < U32, NEW p \in Ends
        PROVE  Since(p.ts) <= elapsed' /\ Since(p.ts) < Since(dtmfTs')
    <3>1. Since(p.ts) <= elapsed /\ Since(p.ts) \in Nat
      BY <2>2, <2>3, EndsTypes DEF EndsInv, EndsInOrder
    <3>2. Since(dtmfTs') = elapsed + TsIncrement
      BY <2>1, <2>2, <2>3
    <3> QED BY <2>1, <3>1, <3>2, TimingTypes, TimeConstants
  <2>4. EndsInOrder'
    BY <1>1, <2>2, <2>3 DEF EndsInv, EndsInOrder, Since, Ahead
  <2>5. ASSUME NEW p \in Ends PROVE p.req <= Current' /\ p.req # Current'
    <3>1. Head(dtmfSource) \in Nat
      BY <1>1, SourceTypes, TakenWasAsked, RequestsAreNumbers
    <3> QED BY <1>3, <1>5, <3>1
  <2>6. elapsed' < U32 => Since(dtmfTs') <= elapsed'
    BY <2>1, <2>2
  <2>7. CurrentIsLast'
    BY <1>1, <2>3, <2>5, <2>6 DEF CurrentIsLast, Since, Ahead
  <2> QED BY <1>4, <2>4, <2>7 DEF EndsInv
<1>6. ASSUME UNCHANGED rwVars, Current' = Current PROVE EndsInv'
  <2>1. UNCHANGED <<gen, elapsed, dtmfTs>>
    BY <1>6 DEF rwVars
  <2>2. EndsInOrder' /\ CurrentIsLast'
    BY <1>1, <1>6, <2>1 DEF EndsInv, EndsInOrder, CurrentIsLast, Since, Ahead
  <2> QED BY <1>4, <2>2 DEF EndsInv
<1> QED BY <1>5, <1>6, TakingKeepsOrder

LEMMA TickDTMFKeepsEnds ==
  ASSUME DigitInv, EndsInv, TickDTMF, UNCHANGED <<asked, dtmfSource>>,
         Ends' \subseteq Ends \cup {NewEnd}
  PROVE  EndsInv'
<1>1. /\ timestamp' = (timestamp + TsIncrement) % U32 /\ dtmfTs' = dtmfTs
      /\ elapsed' = elapsed + TsIncrement /\ gen = Idle /\ gen' = Idle
  BY DEF TickDTMF
<1>2. /\ Current' \in {Current, 0} /\ sent'.req = Current /\ sent'.ts = dtmfTs
      /\ Current \in Requests
  BY TickDTMFKeepsOneDigit DEF DigitInv, TimingInv
<1>3. Current # 0 /\ Current \in Nat
  BY <1>2, RequestsAreNumbers
<1>4. NewEnd.req = Current /\ NewEnd.ts = dtmfTs
      /\ NewEnd.event = DigitToEvent(asked[Current].digit)
  BY <1>2 DEF NewEnd
<1> DEFINE all == Ends \cup {NewEnd}
<1>5. ASSUME NEW p \in all
      PROVE  /\ p.req \in Requests /\ p.req <= Len(asked) /\ Above(p.req, dtmfSource)
             /\ p.ts \in Times /\ p.event = DigitToEvent(asked[p.req].digit)
             /\ p.req <= Current
  <2>1. CASE p \in Ends
    BY <1>3, <2>1 DEF EndsInv, EndsAreAsked, CurrentIsLast
  <2>2. CASE p = NewEnd
    BY <1>2, <1>3, <1>4, <2>2, TimingTypes DEF DigitInv, SourceInv
  <2> QED BY <2>1, <2>2
<1>6. elapsed' \in Nat /\ (elapsed' < U32 => elapsed < U32)
  BY <1>1, TimingTypes, TimeConstants
<1>7. ASSUME elapsed' < U32, NEW p \in all
      PROVE  /\ Since(p.ts) \in Nat /\ Since(p.ts) <= elapsed
             /\ IF p.req = Current THEN p.ts = dtmfTs ELSE Since(p.ts) < Since(dtmfTs)
  <2>1. CASE p \in Ends
    BY <1>3, <1>6, <1>7, <2>1, EndsTypes DEF EndsInv, EndsInOrder, CurrentIsLast
  <2>2. CASE p = NewEnd
    <3>1. Since(dtmfTs) \in Nat
      BY TimingTypes, AheadIsTime, TimeConstants DEF Since
    <3>2. Since(dtmfTs) <= elapsed
      BY <1>3, <1>6, <1>7 DEF EndsInv, CurrentIsLast
    <3> QED BY <1>4, <2>2, <3>1, <3>2
  <2> QED BY <2>1, <2>2
<1>8. ASSUME elapsed' < U32, NEW p \in all, NEW q \in all
      PROVE  InOrder(p, q)
  <2>1. CASE p \in Ends /\ q \in Ends
    BY <1>6, <1>8, <2>1 DEF EndsInv, EndsInOrder
  <2>2. CASE p = NewEnd
    <3>1. p.req = Current /\ p.ts = dtmfTs /\ q.req <= Current /\ q.req \in Nat
      BY <1>4, <1>5, <2>2, RequestsAreNumbers
    <3>2. ~(p.req < q.req)
      BY <1>3, <3>1
    <3>3. q.req = Current => q.ts = dtmfTs
      BY <1>7, <1>8
    <3> QED BY <3>1, <3>2, <3>3 DEF InOrder
  <2>3. CASE q = NewEnd
    <3>1. q.req = Current /\ q.ts = dtmfTs /\ p.req \in Nat
      BY <1>4, <1>5, <2>3, RequestsAreNumbers
    <3>2. p.req < Current => p.req # Current
      BY <1>3, <3>1
    <3>3. IF p.req = Current THEN p.ts = dtmfTs ELSE Since(p.ts) < Since(dtmfTs)
      BY <1>7, <1>8
    <3>4. Since(q.ts) = Since(dtmfTs)
      BY <3>1
    <3> QED BY <3>1, <3>2, <3>3, <3>4 DEF InOrder
  <2> QED BY <2>1, <2>2, <2>3
<1>9. EndsAreAsked'
  BY <1>5 DEF EndsAreAsked, Above
<1>10. ASSUME elapsed' < U32, NEW p \in all
       PROVE  Since(p.ts) <= elapsed'
  BY <1>1, <1>7, <1>10, TimingTypes, TimeConstants
<1>11. EndsInOrder'
  <2> SUFFICES ASSUME elapsed' < U32, NEW p \in Ends'
               PROVE  /\ Since(p.ts) <= elapsed'
                      /\ \A q \in Ends' : InOrder(p, q)
    BY DEF EndsInOrder, Since, Ahead
  <2> HIDE DEF all
  <2>1. Ends' \subseteq all
    BY DEF all
  <2> QED BY <1>8, <1>10, <2>1
<1>12. ASSUME elapsed' < U32 PROVE Since(dtmfTs) <= elapsed'
  <2>1. Since(dtmfTs) <= elapsed /\ Since(dtmfTs) \in Nat
    BY <1>3, <1>6, <1>12, TimingTypes, AheadIsTime, TimeConstants DEF EndsInv, CurrentIsLast, Since
  <2> QED BY <1>1, <2>1, TimingTypes, TimeConstants
<1>13. CurrentIsLast'
  <2> SUFFICES ASSUME Current' # 0
               PROVE  /\ \A p \in Ends' : p.req <= Current' /\ (gen' # Idle => p.req # Current')
                      /\ elapsed' < U32 =>
                           /\ Since(dtmfTs') <= elapsed'
                           /\ \A p \in Ends' : IF p.req = Current' THEN p.ts = dtmfTs'
                                              ELSE Since(p.ts) < Since(dtmfTs')
    BY DEF CurrentIsLast, Since, Ahead
  <2>1. Current' = Current
    BY <1>2
  <2> HIDE DEF all
  <2>2. Ends' \subseteq all
    BY DEF all
  <2> QED BY <1>1, <1>5, <1>7, <1>12, <2>1, <2>2
<1> QED BY <1>9, <1>11, <1>13 DEF EndsInv

LEMMA EndsNext == DigitInv /\ DigitInv' /\ EndsInv /\ [MSNext]_msVars => EndsInv'
<1> SUFFICES ASSUME DigitInv, DigitInv', EndsInv, [MSNext]_msVars PROVE EndsInv'
  OBVIOUS
<1>0. elapsed \in Nat /\ elapsed' \in Nat
  BY DEF DigitInv, TimingInv
<1>1. ASSUME NEW a \in Asked, AgentDTMF(a) PROVE EndsInv'
  BY <1>1, AskingKeepsEnds
<1>2. CASE TakeDTMF
  BY <1>2, TakingKeepsEnds DEF DigitInv
<1>3. ASSUME UNCHANGED <<asked, dtmfSource, elapsed, dtmfTs>>, Ends' \subseteq Ends,
             Current' \in {Current, 0}, gen' # Idle => gen # Idle
      PROVE  EndsInv'
  <2>1. EndsAreAsked' /\ EndsInOrder'
    BY <1>0, <1>3, EndsKept
  <2>2. CurrentIsLast'
    BY <1>3 DEF EndsInv, CurrentIsLast, Since, Ahead
  <2> QED BY <2>1, <2>2 DEF EndsInv
<1>4. CASE Quiet /\ Ends' \subseteq Ends
  <2>1. Current' = Current
    BY <1>4, OneDigitStays DEF DigitInv, Quiet
  <2> QED BY <1>3, <1>4, <2>1 DEF Quiet
<1>5. CASE (GenerateTurn \/ GenerateReturn) /\ UNCHANGED <<asked, dtmfSource, link, delivered>>
  <2>1. Current' = Current
    BY <1>5, TurnKeepsOneDigit, ReturnKeepsOneDigit DEF DigitInv
  <2>2. UNCHANGED <<elapsed, dtmfTs>> /\ gen # Idle
    BY <1>5 DEF GenerateTurn, GenerateReturn, ToneMore, clock
  <2>3. Ends' = Ends
    BY <1>5 DEF Ends
  <2> QED BY <1>3, <1>5, <2>1, <2>2, <2>3
<1>6. CASE TickDTMF /\ UNCHANGED <<asked, dtmfSource>> /\ Ends' \subseteq Ends \cup {NewEnd}
  BY <1>6, TickDTMFKeepsEnds
<1>7. CASE TickAudio /\ UNCHANGED <<asked, dtmfSource, link, delivered>>
  <2>1. Current' = 0 /\ Ends' = Ends /\ elapsed' >= elapsed
    BY <1>0, <1>7, AudioKeepsOrder, TimeConstants DEF Ends, TickAudio
  <2>2. EndsAreAsked' /\ EndsInOrder'
    BY <1>0, <1>7, <2>1, EndsKept
  <2> QED BY <2>1, <2>2 DEF EndsInv, CurrentIsLast
<1>8. CASE WriterStops
  <2>1. UNCHANGED <<asked, dtmfSource, elapsed, dtmfTs, gen>> /\ Ends' = Ends
    BY <1>8 DEF WriterStops, clock, Ends, readerVars
  <2> QED BY <1>3, <1>8, <2>1, StopKeepsOrder
<1> QED BY <1>1, <1>2, <1>4, <1>5, <1>6, <1>7, <1>8, DigitSteps

LEMMA ClockGoesOn ==
  ASSUME DigitInv, [MSNext]_msVars
  PROVE  elapsed' \in Nat /\ (elapsed' < U32 => elapsed < U32)
<1>1. elapsed' \in Nat
  BY TimingNext DEF TimingInv
<1>2. elapsed' = elapsed \/ elapsed' = elapsed + TsIncrement
  BY SessionWrites, TimingTypes DEF RWNext, AudioData, DTMFRequest, Generate, GenerateTurn,
     GenerateReturn, Tick, TickDTMF, TickAudio, TickIdle, rwVars, clock
<1> QED BY <1>1, <1>2, TimingTypes, TimeConstants

\* A copy of p arrives: it is the first of its digit, which no later digit's has come
\* before, or it is a repetition.
LEMMA DeliveryIsOnce ==
  ASSUME EndsInv, ReaderInv, NEW p \in link, Deliver(p), ~crossed, elapsed' = elapsed
  PROVE  ReaderInv'
<1>1. /\ delivered' = delivered \cup {p}
      /\ IF p.ts # lastDTMFTimestamp
         THEN /\ lastDTMFTimestamp' = p.ts
              /\ reports' = [reports EXCEPT ![p.req] = Append(@, ParsedDigit(p))]
         ELSE UNCHANGED <<lastDTMFTimestamp, reports>>
      /\ crossed' = (crossed \/ \E q \in delivered : q.req > p.req)
  BY DEF Deliver, DedupeKeeps
<1>2. /\ \A q \in delivered : q \in Ends /\ q.req \in Nat
      /\ p \in Ends /\ p.req \in Nat /\ p.req \in Requests
  BY EndsTypes DEF EndsInv, Ends
<1>3. DOMAIN reports' = Requests
  BY <1>1 DEF ReaderInv
<1> SUFFICES ASSUME ~crossed', elapsed < U32
             PROVE  /\ lastDTMFTimestamp' = p.ts
                    /\ \A q \in delivered : q.req <= p.req
                    /\ \A r \in Requests :
                         (\A q \in delivered' : q.req # r) => reports'[r] = <<>>
                    /\ \A q \in delivered' : q.ts = 0 \/ reports'[q.req] = <<ParsedDigit(q)>>
  BY <1>1, <1>2, <1>3 DEF ReaderInv, ParsedDigit
<1>4. \A q \in delivered : q.req <= p.req
  <2>1. ~\E q \in delivered : q.req > p.req
    BY <1>1, Zenon
  <2> QED BY <1>2, <2>1
<1>5. /\ delivered = {} => lastDTMFTimestamp = 0
      /\ delivered # {} =>
           \E q \in delivered : q.ts = lastDTMFTimestamp /\ \A s \in delivered : s.req <= q.req
      /\ \A r \in Requests : (\A q \in delivered : q.req # r) => reports[r] = <<>>
      /\ \A q \in delivered : q.ts = 0 \/ reports[q.req] = <<ParsedDigit(q)>>
  BY DEF ReaderInv
<1>6. \A q, s \in Ends : InOrder(q, s)
  BY DEF EndsInv, EndsInOrder
<1>7. CASE p.ts # lastDTMFTimestamp
  <2>1. \A q \in delivered : q.req # p.req
    <3> SUFFICES ASSUME NEW q \in delivered, q.req = p.req PROVE FALSE
      OBVIOUS
    <3>1. PICK w \in delivered : w.ts = lastDTMFTimestamp /\ \A s \in delivered : s.req <= w.req
      BY <1>5
    <3>2. w.req = p.req
      <4>1. p.req <= w.req /\ w.req <= p.req /\ w.req \in Nat
        BY <1>2, <1>4, <3>1
      <4> QED BY <1>2, <4>1
    <3>3. w.ts = p.ts
      BY <1>2, <1>6, <3>2 DEF InOrder
    <3> QED BY <1>7, <3>1, <3>3
  <2>2. reports[p.req] = <<>>
    BY <1>2, <1>5, <2>1
  <2>3. reports'[p.req] = <<ParsedDigit(p)>>
    <3>1. reports'[p.req] = Append(reports[p.req], ParsedDigit(p))
      BY <1>1, <1>2, <1>7 DEF ReaderInv
    <3> QED BY <2>2, <3>1
  <2>4. \A r \in Requests : r # p.req => reports'[r] = reports[r]
    BY <1>1, <1>7 DEF ReaderInv
  <2>5. \A q \in delivered : q.req \in Requests
    BY <1>2 DEF EndsInv, EndsAreAsked
  <2> QED BY <1>1, <1>4, <1>5, <1>7, <2>1, <2>3, <2>4, <2>5
<1>8. CASE p.ts = lastDTMFTimestamp
  <2>1. reports' = reports /\ lastDTMFTimestamp' = lastDTMFTimestamp
    BY <1>1, <1>8
  <2>2. p.ts = 0 \/ reports[p.req] = <<ParsedDigit(p)>>
    <3> SUFFICES ASSUME p.ts # 0 PROVE reports[p.req] = <<ParsedDigit(p)>>
      OBVIOUS
    <3>1. PICK w \in delivered : w.ts = lastDTMFTimestamp /\ \A s \in delivered : s.req <= w.req
      BY <1>5, <1>8
    <3>2. w.req = p.req
      <4>1. ~(w.req < p.req)
        <5>1. w.req < p.req => Since(w.ts) < Since(p.ts)
          BY <1>2, <1>6 DEF InOrder
        <5>2. Since(p.ts) \in Nat /\ Since(w.ts) = Since(p.ts)
          BY <1>2, <1>8, <3>1, EndsTypes DEF EndsInv
        <5> QED BY <5>1, <5>2
      <4> QED BY <1>2, <1>4, <4>1
    <3>3. w.event = p.event
      BY <1>2, <3>2 DEF EndsInv, EndsAreAsked
    <3>4. w.ts # 0
      BY <1>8, <3>1
    <3> QED BY <1>5, <3>1, <3>2, <3>3, <3>4 DEF ParsedDigit
  <2>3. \A q \in delivered' : q.ts = 0 \/ reports[q.req] = <<ParsedDigit(q)>>
    BY <1>1, <1>5, <2>2
  <2>4. \A r \in Requests : (\A q \in delivered' : q.req # r) => reports[r] = <<>>
    BY <1>1, <1>5
  <2> QED BY <1>4, <1>8, <2>1, <2>3, <2>4
<1> QED BY <1>7, <1>8

LEMMA ReaderNext == DigitInv /\ EndsInv /\ ReaderInv /\ [MSNext]_msVars => ReaderInv'
<1> SUFFICES ASSUME DigitInv, EndsInv, ReaderInv, [MSNext]_msVars PROVE ReaderInv'
  OBVIOUS
<1>1. ASSUME NEW p \in link, ~crossed, Deliver(p) PROVE ReaderInv'
  <2>1. elapsed' = elapsed
    BY <1>1 DEF Deliver, rwVars
  <2> QED BY <1>1, <2>1, DeliveryIsOnce
<1>2. ASSUME UNCHANGED readerVars PROVE ReaderInv'
  BY <1>2, ClockGoesOn DEF ReaderInv, readerVars, ParsedDigit
<1>3. UNCHANGED readerVars \/ \E p \in link : ~crossed /\ Deliver(p)
  BY DEF MSNext, HandleOffer, StartMedia, AgentDTMF, TakeDTMF, AgentAudio, WriterGenerates,
         WriterTicks, WriterStops, Lose, msVars
<1> QED BY <1>1, <1>2, <1>3

\* The event of a valid digit is read as that digit.
LEMMA DigitsComeBack ==
  ASSUME NEW d, ValidDigit(d)
  PROVE  EventDigits[DigitToEvent(d) + 1] = Upper(d)
<1> DEFINE i == CHOOSE j \in 1..16 : EventDigits[j] = Upper(d)
<1>1. i \in 1..16 /\ EventDigits[i] = Upper(d)
  BY DEF ValidDigit
<1>2. DigitToEvent(d) = i - 1
  BY DEF ValidDigit, DigitToEvent
<1> HIDE DEF i
<1>3. (i - 1) + 1 = i
  BY <1>1
<1> QED BY <1>1, <1>2, <1>3

\* The digits of a session, any number of them, are reported once each and as what they
\* were, in whatever order their packets are lost and repeated.
THEOREM DigitsArriveOnce == MSSpec => []EachDigitOnce
<1>1. MSInit => EndsInv /\ ReaderInv
  <2> SUFFICES ASSUME MSInit PROVE EndsInv /\ ReaderInv
    OBVIOUS
  <2>1. /\ link = {} /\ delivered = {} /\ reports = [r \in Requests |-> <<>>]
        /\ lastDTMFTimestamp = 0 /\ Current = 0
    BY DEF MSInit, RWInit, Current
  <2> QED BY <2>1 DEF EndsInv, EndsAreAsked, EndsInOrder, CurrentIsLast, ReaderInv, Ends
<1>2. DigitInv /\ DigitInv' /\ EndsInv /\ ReaderInv /\ [MSNext]_msVars => (EndsInv /\ ReaderInv)'
  BY EndsNext, ReaderNext
<1>3. DigitInv /\ EndsInv /\ ReaderInv => EachDigitOnce
  <2> SUFFICES ASSUME DigitInv, EndsInv, ReaderInv, NEW p \in delivered,
                      ~crossed, p.ts # 0, ~(elapsed >= U32)
               PROVE  /\ Len(reports[p.req]) = 1
                      /\ ValidDigit(asked[p.req].digit) =>
                           reports[p.req] = <<Upper(asked[p.req].digit)>>
    BY DEF EachDigitOnce
  <2>1. elapsed < U32
    BY TimingTypes, TimeConstants
  <2>2. reports[p.req] = <<ParsedDigit(p)>>
    BY <2>1 DEF ReaderInv
  <2>3. p.event = DigitToEvent(asked[p.req].digit)
    BY DEF EndsInv, EndsAreAsked, Ends
  <2>4. ValidDigit(asked[p.req].digit) => ParsedDigit(p) = Upper(asked[p.req].digit)
    BY <2>3, DigitsComeBack DEF ParsedDigit
  <2>5. Len(<<ParsedDigit(p)>>) = 1
    OBVIOUS
  <2> QED BY <2>2, <2>4, <2>5
<1> QED BY <1>1, <1>2, <1>3, DigitInvHolds, PTL DEF MSSpec
=============================================================================
