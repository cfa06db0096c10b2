---------------------------- MODULE JitterBuffer ----------------------------
(***************************************************************************)
(* Who gives a received packet's pooled buffer back                          *)
(* (internal/audio/pion_jitter_buffer.go and pool.go, with the two ends of   *)
(* the path: StartReader, which takes the buffer, and runAudioProcessor,     *)
(* which returns it).  pion's jitter buffer orders the parsed packets, whose *)
(* payloads lie in the buffers; the buffers themselves wait in a ring that   *)
(* is indexed by sequence number.  The reader, the release loop, Stop and    *)
(* the processor run concurrently and share the ring under a mutex.          *)
(*                                                                         *)
(* Buffers are numbered as they are taken.  pion's buffer is a set of        *)
(* packets: it forgets those that are not later than the last it released,   *)
(* releases any of the others, and may report an error at any time.          *)
(***************************************************************************)
EXTENDS Integers, Sequences

CONSTANTS SeqMod,    \* 2^16
          WinSize,   \* rawBufferWinSize (1024)
          SweepEach, \* the sweep is made at multiples of this (32)
          OutputCap, \* capacity of the output channel (100)
          Arrivals,  \* sequence numbers of the packets that come
          StartSeqs, \* and of the first of them
          MaxBuffers \* bound: buffers taken from the pool

\* Two sequence numbers of one slot are a multiple of WinSize apart, across the wrap
\* too, and a window is a small part of the numbers.
ASSUME JitterBufferConstants ==
  /\ SeqMod \in Nat \ {0} /\ WinSize \in Nat \ {0} /\ SweepEach \in Nat \ {0}
  /\ SeqMod % WinSize = 0 /\ 4 * WinSize <= SeqMod
  /\ OutputCap \in Nat \ {0} /\ MaxBuffers \in Nat
  /\ StartSeqs \subseteq Arrivals /\ Arrivals \subseteq 0..(SeqMod - 1)

Buffers == 1..MaxBuffers
None == 0

VARIABLES taken,     \* how many buffers were taken
          seqOf,     \* seqOf[p]: the sequence number of the packet in buffer p
          puts,      \* how often each buffer went back to the pool
          rawBuffers,\* the ring: [buf, seq]
          arrived,   \* the reader has a packet and found the context not done
          reader,    \* the packet between the two halves of Push, or None
          held,      \* the packets in pion's buffer
          last,      \* the sequence number it released last, or -1
          loop,      \* the release loop: "none", "select", "popped", "sending", "exited"
          item,      \* what it has in hand: [mem, raw], the payload's buffer and RawBuffer
          output, outputClosed,
          consumer,  \* runAudioProcessor: "idle", "busy", "exited"
          using,     \* the packet it works on
          ctxDone,
          stop,      \* Stop: "no", "closed", "done"
          spread,    \* history: a packet came WinSize or more away from one that waited
          raced      \* history: buffers that Stop put back under a packet still to come

ring == <<rawBuffers, held, last>>
ends == <<arrived, reader, consumer, using, ctxDone>>
jbVars == <<taken, seqOf, puts, rawBuffers, arrived, reader, held, last, loop, item, output,
            outputClosed, consumer, using, ctxDone, stop, spread, raced>>

NoItem == [mem |-> None, raw |-> None]

JBInit ==
  /\ taken = 0 /\ seqOf = [p \in Buffers |-> 0] /\ puts = [p \in Buffers |-> 0]
  /\ rawBuffers = [i \in 0..(WinSize - 1) |-> [buf |-> None, seq |-> 0]]
  /\ arrived = FALSE /\ reader = None /\ held = {} /\ last = -1
  /\ loop = "none" /\ item = NoItem /\ output = <<>> /\ outputClosed = FALSE
  /\ consumer = "idle" /\ using = NoItem
  /\ ctxDone = FALSE /\ stop = "no"
  /\ spread = FALSE /\ raced = {}

\* PutBuffer, which ignores nil.
Put(bufs) == puts' = [p \in Buffers |-> IF p \in bufs THEN puts[p] + 1 ELSE puts[p]]

\* Mutant: the numbers are compared without their wrapping around.
IsEarlierNoWrap(a, b) == a < b

\* isEarlier
IsEarlier(a, b) == (b - a) % SeqMod < SeqMod \div 2 /\ a # b

\* The packets that pion takes for later than seq, by the same arithmetic.
Later(packets, seq) ==
  { p \in packets : seq = -1 \/ (seqOf[p] - seq) % SeqMod \in 1..(SeqMod \div 2 - 1) }

\* Packets that pion may still release, or has just released.
Wanted == held \cup IF loop = "popped" THEN {item.mem} ELSE {}

----------------------------------------------------------------------------
(* The reader                                                               *)

\* The slot's buffer belongs to another sequence number: it goes back.
Collides(entry, seq) == entry.buf # None /\ entry.seq # seq

InWindow(a, b) == (a - b) % SeqMod < WinSize \/ (b - a) % SeqMod < WinSize

\* ReadFrom has filled a buffer of the pool and the context is not done yet.
PacketArrives ==
  /\ ~arrived /\ reader = None /\ ~ctxDone
  /\ arrived' = TRUE
  /\ UNCHANGED <<taken, seqOf, puts, ring, reader, loop, item, output, outputClosed, consumer, using,
                 ctxDone, stop, spread, raced>>

\* Push as far as the unlock.  It does not look whether Stop has emptied the ring
\* meanwhile.
PushRaw(seq) ==
  /\ arrived /\ reader = None /\ taken < MaxBuffers
  /\ arrived' = FALSE
  /\ taken = 0 => seq \in StartSeqs
  /\ LET p == taken + 1
         i == seq % WinSize
     IN /\ taken' = p
        /\ reader' = p
        /\ seqOf' = [seqOf EXCEPT ![p] = seq]
        /\ rawBuffers' = [rawBuffers EXCEPT ![i] = [buf |-> p, seq |-> seq]]
        /\ Put(IF Collides(rawBuffers[i], seq) THEN {rawBuffers[i].buf} ELSE {})
  /\ spread' = (spread \/ \E q \in Wanted : ~InWindow(seq, seqOf[q]))
  /\ UNCHANGED <<held, last, loop, item, output, outputClosed, consumer, using, ctxDone, stop,
                 raced>>

\* pjb.jb.Push, and the first time the release loop.
PushPacket ==
  /\ reader # None
  /\ held' = held \cup Later({reader}, last)
  /\ reader' = None
  /\ loop' = IF loop = "none" THEN "select" ELSE loop
  /\ UNCHANGED <<taken, seqOf, puts, rawBuffers, last, item, output, outputClosed, consumer, using,
                 arrived, ctxDone, stop, spread, raced>>

----------------------------------------------------------------------------
(* The release loop                                                         *)

LoopStops ==
  /\ loop = "select" /\ stop # "no"
  /\ loop' = "exited" /\ outputClosed' = TRUE
  /\ UNCHANGED <<taken, seqOf, puts, ring, item, output, ends, stop, spread, raced>>

\* jb.Pop() without an error.
Pop(p) ==
  /\ loop = "select" /\ p \in held
  /\ loop' = "popped"
  /\ item' = [mem |-> p, raw |-> None]
  /\ held' = Later(held, seqOf[p])
  /\ last' = seqOf[p]
  /\ UNCHANGED <<taken, seqOf, puts, rawBuffers, output, outputClosed, ends, stop, spread, raced>>

\* The sweep: buffers of packets that pion has dropped.
Stale(seq) ==
  { i \in DOMAIN rawBuffers : rawBuffers[i].buf # None /\ IsEarlier(rawBuffers[i].seq, seq) }
Swept(seq) == IF seq % SweepEach = 0 THEN Stale(seq) ELSE {}

\* The section under the mutex: the packet's buffer, if the slot is still its own,
\* and the sweep.
Retrieve ==
  /\ loop = "popped"
  /\ LET seq == seqOf[item.mem]
         i == seq % WinSize
         own == rawBuffers[i].seq = seq
         emptied == (IF own THEN {i} ELSE {}) \cup Swept(seq)
         swept == Swept(seq) \ {i}
     IN /\ item' = [item EXCEPT !.raw = IF own THEN rawBuffers[i].buf ELSE None]
        /\ rawBuffers' = [j \in DOMAIN rawBuffers |->
             IF j \in emptied THEN [rawBuffers[j] EXCEPT !.buf = None] ELSE rawBuffers[j]]
        /\ Put({ rawBuffers[j].buf : j \in IF own THEN swept ELSE Swept(seq) })
  /\ loop' = "sending"
  /\ UNCHANGED <<taken, seqOf, held, last, output, outputClosed, ends, stop, spread, raced>>

\* emitSilence: a buffer of the pool, without RawBuffer.
EmitSilence ==
  /\ loop = "select" /\ last # -1 /\ taken < MaxBuffers
  /\ taken' = taken + 1
  /\ item' = [mem |-> taken + 1, raw |-> None]
  /\ loop' = "sending"
  /\ UNCHANGED <<seqOf, puts, ring, output, outputClosed, ends, stop, spread, raced>>

Send ==
  /\ loop = "sending" /\ Len(output) < OutputCap
  /\ output' = Append(output, item)
  /\ item' = NoItem
  /\ loop' = "select"
  /\ UNCHANGED <<taken, seqOf, puts, ring, outputClosed, ends, stop, spread, raced>>

----------------------------------------------------------------------------
(* Stop                                                                     *)

Cancel ==
  /\ ~ctxDone
  /\ ctxDone' = TRUE
  /\ UNCHANGED <<taken, seqOf, puts, ring, arrived, reader, loop, item, output, outputClosed, consumer,
                 using, stop, spread, raced>>

StopCloses ==
  /\ ctxDone /\ stop = "no"
  /\ stop' = "closed"
  /\ UNCHANGED <<taken, seqOf, puts, ring, loop, item, output, outputClosed, ends, spread, raced>>

\* All that is in the ring goes back.
StopCleans ==
  /\ stop = "closed"
  /\ stop' = "done"
  /\ LET bufs == { rawBuffers[i].buf : i \in DOMAIN rawBuffers } \ {None}
     IN /\ Put(bufs)
        /\ raced' = raced \cup (bufs \cap (Wanted \cup {reader}))
  /\ rawBuffers' = [i \in DOMAIN rawBuffers |-> [rawBuffers[i] EXCEPT !.buf = None]]
  /\ UNCHANGED <<taken, seqOf, held, last, loop, item, output, outputClosed, ends, spread>>

----------------------------------------------------------------------------
(* runAudioProcessor                                                        *)

Receive ==
  /\ consumer = "idle" /\ output # <<>>
  /\ consumer' = "busy"
  /\ using' = Head(output)
  /\ output' = Tail(output)
  /\ UNCHANGED <<taken, seqOf, puts, ring, arrived, reader, loop, item, outputClosed, ctxDone, stop,
                 spread, raced>>

\* RawBuffer if there is one, else the payload.
Returned(packet) == IF packet.raw # None THEN {packet.raw} ELSE {packet.mem}

\* Every path of the loop's body ends so; with the context done it returns.
Return ==
  /\ consumer = "busy"
  /\ Put(Returned(using))
  /\ using' = NoItem
  /\ consumer' = IF ctxDone THEN "exited" ELSE "idle"
  /\ UNCHANGED <<taken, seqOf, ring, arrived, reader, loop, item, output, outputClosed, ctxDone, stop,
                 spread, raced>>

ConsumerStops ==
  /\ consumer = "idle" /\ (ctxDone \/ (outputClosed /\ output = <<>>))
  /\ consumer' = "exited"
  /\ UNCHANGED <<taken, seqOf, puts, ring, arrived, reader, loop, item, output, outputClosed, using,
                 ctxDone, stop, spread, raced>>

----------------------------------------------------------------------------
JBNext ==
  \/ PacketArrives
  \/ \E seq \in Arrivals : PushRaw(seq)
  \/ PushPacket
  \/ LoopStops \/ (\E p \in held : Pop(p)) \/ Retrieve \/ EmitSilence \/ Send
  \/ Cancel \/ StopCloses \/ StopCleans
  \/ Receive \/ Return \/ ConsumerStops

JBSpec == JBInit /\ [][JBNext]_jbVars

----------------------------------------------------------------------------
InFlight ==
  Wanted \cup UNION { {x.mem, x.raw} : x \in {item, using} \cup { output[i] : i \in 1..Len(output) } }

\* A buffer goes back to the pool once, and not while a packet that lies in it is
\* with the release loop, in the output channel or with the processor, or may still
\* be released: two users of one buffer would mix the audio of two calls.  Late and
\* repeated packets, wrapping sequence numbers and the sweep do not break it.  Two
\* things do: packets that wait WinSize or more apart, which share a slot of the
\* ring, and Stop, which empties the ring while the release loop may release more.
\* A packet that is pushed after Stop has emptied the ring is no exception.
RawBuffersReturnedOnce ==
  spread \/ \A p \in Buffers \ raced : puts[p] <= IF p \in InFlight THEN 0 ELSE 1
=============================================================================
