------------------------------ MODULE RTPWriter ------------------------------
(***************************************************************************)
(* The outgoing half of a call's RTP stream: StartWriter's loop              *)
(* (internal/rtp/rtp_handler.go) and the tones of DTMFGenerator              *)
(* (internal/rtp/dtmf_generator.go).  The agent's audio waits in a ring of   *)
(* bytes; each tick sends one packet, of a digit if one is pending, else of  *)
(* audio.                                                                    *)
(*                                                                         *)
(* Bytes are numbered as the ring accepts them, so that their order can be   *)
(* told; the loop of Generate is one step per packet it makes, with the      *)
(* 16-bit durations it computes in.                                          *)
(***************************************************************************)
EXTENDS Integers, Sequences

CONSTANTS BytesPerTick, \* bytes of one audio packet
          RingTicks,    \* capacity of the ring in packets (10)
          TsIncrement,  \* samples of one audio packet
          SampleRate,   \* samples per second
          PTime,        \* milliseconds of one packet
          U16,          \* 2^16: durations and sequence numbers
          U32,          \* 2^32: timestamps
          StartSeq, StartTs, \* initRTPHeader's random numbers
          Chunks,       \* the sizes of the agent's audio messages
          Requests,     \* the numbers of its DTMF requests
          Durations,    \* the durations it asks for, in milliseconds
          MaxPayloads,  \* bound: the packets of one tone
          Zero,         \* a byte of silence
          Stale         \* what a pooled buffer holds before it is written

Capacity == BytesPerTick * RingTicks
Slots == 0..(Capacity - 1)

ASSUME RTPWriterConstants ==
  /\ BytesPerTick \in Nat \ {0}
  /\ RingTicks \in Nat \ {0}
  /\ SampleRate \in Nat /\ PTime \in Nat /\ MaxPayloads \in Nat
  /\ TsIncrement \in Nat \ {0} /\ U16 \in Nat \ {0} /\ U32 \in Nat \ {0}
  /\ StartSeq \in 0..(U16 - 1) /\ StartTs \in 0..(U32 - 1)
  /\ Chunks \subseteq Nat /\ Durations \subseteq Int
  /\ Zero \notin Nat /\ Stale \notin Nat /\ Zero # Stale

VARIABLES ringBuf, head, tail, count,
          accepted,  \* history: how many bytes the ring has taken
          consumed,  \* history: how many have left it, sent or discarded
          pending,   \* pendingDTMF: the payloads [req, end, dur] to be sent
          gen,       \* the call of Generate under way, or Idle
          timestamp, seqNum,
          elapsed,   \* history: samples of timestamp since the start, without wrapping
          dtmfTs,    \* currentDTMFTimestamp
          sent,      \* the last packet written to the network
          frame      \* the payload of the last audio packet

ringVars == <<ringBuf, head, tail, count, accepted, consumed>>
toneVars == <<pending, gen, dtmfTs>>
clock == <<timestamp, elapsed>>
rwVars == <<ringBuf, head, tail, count, accepted, consumed, pending, gen, timestamp, elapsed,
            seqNum, dtmfTs, sent, frame>>

Idle == [req |-> 0]
NoPacket == [kind |-> "none", req |-> 0, end |-> FALSE, seq |-> StartSeq, ts |-> StartTs]

RWInit ==
  /\ ringBuf = [i \in Slots |-> Zero]
  /\ head = 0 /\ tail = 0 /\ count = 0
  /\ accepted = 0 /\ consumed = 0
  /\ pending = <<>> /\ gen = Idle
  /\ timestamp = StartTs /\ elapsed = 0 /\ seqNum = StartSeq /\ dtmfTs = 0
  /\ sent = NoPacket
  /\ frame = [i \in 0..(BytesPerTick - 1) |-> Zero]

Least(a, b) == IF a <= b THEN a ELSE b

----------------------------------------------------------------------------
(* case data := <-audioSource                                               *)

\* How many of n bytes there is room for.
Room(n) == Least(n, Capacity - count)

\* Mutant: the part that wraps around is written after the end of the first part.
RingAfterNoWrap(n) ==
  [i \in Slots |-> IF i >= tail /\ i < tail + n THEN accepted + (i - tail) ELSE ringBuf[i]]

\* The two copies: from tail up to the end of the ring, the rest from its start.
RingAfter(n) ==
  LET firstPart == Least(Capacity - tail, n)
  IN [i \in Slots |->
        IF i >= tail /\ i < tail + firstPart THEN accepted + (i - tail)
        ELSE IF i < n - firstPart THEN accepted + firstPart + i
        ELSE ringBuf[i]]

\* n bytes from the agent; those without room are lost.
AudioData(n) ==
  /\ gen = Idle
  /\ LET m == Room(n)
     IN /\ ringBuf' = RingAfter(m)
        /\ tail' = (tail + m) % Capacity
        /\ count' = count + m
        /\ accepted' = accepted + m
  /\ UNCHANGED <<head, consumed, toneVars, clock, seqNum, sent, frame>>

----------------------------------------------------------------------------
(* case req := <-dtmfSource, and Generate                                   *)

\* Go's division rounds towards zero; uint16 cuts to sixteen bits.
AllSamples(ms) ==
  IF ms >= 0 THEN (SampleRate * ms) \div 1000 ELSE -((SampleRate * (-ms)) \div 1000)
Total(ms) == AllSamples(ms) % U16
Interval(ms) == AllSamples(Least(ms, PTime)) % U16

\* Mutant: the digit's packets use the time of the last audio packet.
ToneTimestampLast == timestamp

\* timestamp += tsIncrement
ToneTimestamp == (timestamp + TsIncrement) % U32

\* Digit number r, of ms milliseconds.  What is left of the digit before it goes
\* back to the pool.
DTMFRequest(r, ms) ==
  /\ gen = Idle
  /\ gen' = [req |-> r, ms |-> ms, total |-> Total(ms), step |-> Interval(ms), cur |-> 0,
             out |-> <<>>]
  /\ pending' = <<>>
  /\ timestamp' = ToneTimestamp
  /\ elapsed' = elapsed + TsIncrement
  /\ dtmfTs' = ToneTimestamp
  /\ UNCHANGED <<ringVars, seqNum, sent, frame>>

ToneMore == gen # Idle /\ gen.cur < gen.total

\* Mutant: the last packet is not cut to the length of the tone.
ToneNextUncut == (gen.cur + gen.step) % U16

\* currentDuration after one turn of the loop.
ToneNext ==
  LET next == (gen.cur + gen.step) % U16
  IN IF next > gen.total THEN gen.total ELSE next

\* for currentDuration < totalSamples
GenerateTurn ==
  /\ ToneMore
  /\ Len(gen.out) < MaxPayloads
  /\ gen' = [gen EXCEPT !.cur = ToneNext,
                        !.out = Append(@, [req |-> gen.req, end |-> FALSE, dur |-> ToneNext])]
  /\ UNCHANGED <<ringVars, pending, dtmfTs, clock, seqNum, sent, frame>>

\* The three end packets, and the return to the loop of StartWriter.
GenerateReturn ==
  /\ gen # Idle /\ ~ToneMore
  /\ LET last == [req |-> gen.req, end |-> TRUE, dur |-> gen.total]
     IN pending' = gen.out \o <<last, last, last>>
  /\ gen' = Idle
  /\ UNCHANGED <<ringVars, dtmfTs, clock, seqNum, sent, frame>>

----------------------------------------------------------------------------
(* case <-ticker.C                                                          *)

Consume(n) ==
  /\ head' = (head + n) % Capacity
  /\ count' = count - n
  /\ consumed' = consumed + n

\* While a digit plays, the audio of each tick is discarded.
Discards == count >= BytesPerTick

TickDTMF ==
  /\ gen = Idle /\ pending # <<>>
  /\ seqNum' = (seqNum + 1) % U16
  /\ sent' = [kind |-> "dtmf", req |-> Head(pending).req, end |-> Head(pending).end,
              seq |-> (seqNum + 1) % U16, ts |-> dtmfTs]
  /\ pending' = Tail(pending)
  /\ timestamp' = (timestamp + TsIncrement) % U32
  /\ elapsed' = elapsed + TsIncrement
  /\ IF Discards THEN Consume(BytesPerTick) ELSE UNCHANGED <<head, count, consumed>>
  /\ UNCHANGED <<ringBuf, tail, accepted, gen, dtmfTs, frame>>

\* Mutant: the rest of a short packet is left as the pool gave it.
FrameNotCleared ==
  LET firstPart == Least(Capacity - head, Least(BytesPerTick, count))
      secondPart == Least(BytesPerTick - firstPart, count - firstPart)
  IN [i \in 0..(BytesPerTick - 1) |->
        IF i < firstPart THEN ringBuf[head + i]
        ELSE IF i < firstPart + secondPart THEN ringBuf[i - firstPart]
        ELSE Stale]

\* The two copies out of the ring, and the clear of the rest.
Frame ==
  LET firstPart == Least(Capacity - head, Least(BytesPerTick, count))
      secondPart == Least(BytesPerTick - firstPart, count - firstPart)
  IN [i \in 0..(BytesPerTick - 1) |->
        IF i < firstPart THEN ringBuf[head + i]
        ELSE IF i < firstPart + secondPart THEN ringBuf[i - firstPart]
        ELSE IF i >= count THEN Zero
        ELSE Stale]

\* The branch for a failed encoding (the bytes are gone, nothing is sent) is left out:
\* the only error that encoding has for an agreed codec is an odd length, and where
\* there is anything to encode bytesPerTick counts two bytes a sample.
TickAudio ==
  /\ gen = Idle /\ pending = <<>> /\ count > 0
  /\ frame' = Frame
  /\ Consume(Least(count, BytesPerTick))
  /\ seqNum' = (seqNum + 1) % U16
  /\ timestamp' = (timestamp + TsIncrement) % U32
  /\ elapsed' = elapsed + TsIncrement
  /\ sent' = [kind |-> "audio", req |-> 0, end |-> FALSE, seq |-> (seqNum + 1) % U16,
              ts |-> (timestamp + TsIncrement) % U32]
  /\ UNCHANGED <<ringBuf, tail, accepted, toneVars>>

\* A tick with nothing to send.
TickIdle ==
  /\ gen = Idle /\ pending = <<>> /\ count = 0
  /\ UNCHANGED rwVars

Tick == TickDTMF \/ TickAudio \/ TickIdle

----------------------------------------------------------------------------
Generate == GenerateTurn \/ GenerateReturn

RWNext ==
  \/ \E n \in Chunks : AudioData(n)
  \/ \E r \in Requests, ms \in Durations : DTMFRequest(r, ms)
  \/ Generate
  \/ Tick

RWSpec == RWInit /\ [][RWNext]_rwVars

----------------------------------------------------------------------------
\* The ring holds the bytes that were accepted and have not left it, in their
\* order, wherever it has wrapped around, and the two indices and the count agree:
\* no byte is overwritten, repeated or skipped.
RingHoldsUnsentAudio ==
  /\ head \in Slots /\ tail \in Slots /\ count \in 0..Capacity
  /\ tail = (head + count) % Capacity
  /\ consumed + count = accepted
  /\ \A i \in 0..(count - 1) : ringBuf[(head + i) % Capacity] = consumed + i

\* For the agent and the caller the ring is AudioQueue: what was accepted is sent
\* in order, in full packets as long as there is enough of it and padded with
\* silence when there is not, never with what a pooled buffer held before; only
\* whole packets' worth is discarded, and only under a digit.
Queue == INSTANCE AudioQueue WITH lo <- consumed, hi <- accepted
ImplementsAudioQueue == Queue!AQSpec

\* Later, as the receiver's comparison of 32-bit timestamps sees it.
After(ts, than) == (ts - than) % U32 \in 1..(U32 \div 2 - 1)

\* Sequence numbers have no gap; an audio packet is later than every packet before
\* it; the packets of one digit share a timestamp that no other digit and no audio
\* before it has, though the next digit may cut one short: it is what the receiver
\* tells digits apart by.
TimestampsTellDigitsApart ==
  [][sent' # sent =>
       /\ sent'.seq = (sent.seq + 1) % U16
       /\ IF sent'.kind = "dtmf" /\ sent.kind = "dtmf" /\ sent'.req = sent.req
          THEN sent'.ts = sent.ts
          ELSE After(sent'.ts, sent.ts)]_rwVars

\* Durations from 0 to the largest multiple of the packet time that fits in 16 bits,
\* for a packet time (the offer's ptime) that is not cut to 0 by them.
FitsIn16Bits(ms) ==
  /\ ms >= 0
  /\ ms > 0 => /\ Interval(ms) > 0
               /\ AllSamples(ms) <= ((U16 - 1) \div Interval(ms)) * Interval(ms)

\* A tone that fits grows by a packet time with every packet and ends at the length
\* asked for, so Generate comes to its end.  (Beyond that the sum wraps around: the
\* tone is cut to its length modulo 2^16, or starts over, or never ends.)
TonesGrowToTheirLength ==
  gen # Idle /\ FitsIn16Bits(gen.ms) =>
    /\ gen.cur = Least(Len(gen.out) * gen.step, AllSamples(gen.ms))
    /\ \A i \in 1..Len(gen.out) : gen.out[i].dur = Least(i * gen.step, AllSamples(gen.ms))
    /\ Len(gen.out) > 0 => (Len(gen.out) - 1) * gen.step < AllSamples(gen.ms)
=============================================================================
