---------------------------- MODULE ClientProofs ----------------------------
(***************************************************************************)
(* Proofs about the Go client, for every capacity of its channels, with and  *)
(* without the listen-only pump, and for any number of buffers.              *)
(***************************************************************************)
EXTENDS Client, TLAPS

ClosingStates == {"open", "cancel", "message", "conn", "wait", "send", "receive", "done"}

States ==
  /\ new \in {"dial", "wait", "ok", "close", "failed"}
  /\ reader \in {"none", "next", "callback", "done"}
  /\ writer \in {"none", "select", "writing", "done"}
  /\ listener \in {"none", "tick", "done"}
  /\ closing \in ClosingStates
  /\ sendClosed \in BOOLEAN /\ receiveClosed \in BOOLEAN /\ crashed \in BOOLEAN

Waited == closing \in {"send", "receive", "done"}

\* Close cannot begin before the listen-only pump is started or will never be, it
\* closes the channels behind its wait, and what it has waited for does not start again.
CloseOrder ==
  /\ new = "dial" => writer = "none"
  /\ new \in {"dial", "wait"} => closing = "open"
  /\ Waited => reader = "done" /\ writer = "done" /\ listener # "tick"
  /\ sendClosed <=> closing \in {"receive", "done"}
  /\ receiveClosed <=> closing = "done"

PumpInv == States /\ CloseOrder

----------------------------------------------------------------------------
(* Where the buffers are                                                    *)

Messages == Buffers \cup {Text}

\* No buffer is twice in a channel.
Distinct(q) == \A i, j \in 1..Len(q) : i < j => q[i] # q[j] \/ q[i] = Text

PoolTypes ==
  /\ taken \in 0..MaxBuffers
  /\ send \in Seq(Messages) /\ Distinct(send)
  /\ receive \in Seq(Buffers) /\ Distinct(receive)
  /\ writing \in Messages \cup {Nothing}
  /\ writing # Nothing <=> writer = "writing"
  /\ call \in [Callers -> Messages \cup {Nothing}]
  /\ puts \in [Buffers -> Nat]
  /\ handed \in SUBSET Buffers
  /\ sendClosed => send = <<>>
  /\ receiveClosed => receive = <<>>

InSend(b) == b \in InQueue(send)
InReceive(b) == b \in InQueue(receive)
WithWriter(b) == writing = b
WithApp(b) == call["app"] = b
WithCallback(b) == call["callback"] = b
Handed(b) == b \in handed
Back(b) == puts[b] > 0

\* A buffer is in at most one place.
OnePlace(b) ==
  /\ InSend(b) => ~InReceive(b) /\ ~WithWriter(b) /\ ~WithApp(b) /\ ~WithCallback(b)
                    /\ ~Handed(b) /\ ~Back(b)
  /\ InReceive(b) => ~WithWriter(b) /\ ~WithApp(b) /\ ~WithCallback(b) /\ ~Handed(b) /\ ~Back(b)
  /\ WithWriter(b) => ~WithApp(b) /\ ~WithCallback(b) /\ ~Handed(b) /\ ~Back(b)
  /\ WithApp(b) => ~WithCallback(b) /\ ~Handed(b) /\ ~Back(b)
  /\ WithCallback(b) => ~Handed(b) /\ ~Back(b)
  /\ Handed(b) => ~Back(b)

Somewhere(b) ==
  InSend(b) \/ InReceive(b) \/ WithWriter(b) \/ WithApp(b) \/ WithCallback(b) \/ Handed(b)
    \/ Back(b)

\* The buffers that were taken, and no others, are somewhere; a panic may lose one.
Followed(b) ==
  /\ OnePlace(b)
  /\ puts[b] <= 1
  /\ Somewhere(b) => b <= taken
  /\ b <= taken /\ ~crashed => Somewhere(b)

PoolInv == PoolTypes /\ \A b \in Buffers : Followed(b)

----------------------------------------------------------------------------
(* The pumps and Close                                                      *)

LEMMA PumpInit == CLInit => PumpInv
BY DEF CLInit, PumpInv, States, ClosingStates, CloseOrder, Waited

LEMMA PumpNext == PumpInv /\ [CLNext]_clVars => PumpInv'
<1> SUFFICES ASSUME PumpInv, [CLNext]_clVars PROVE PumpInv'
  OBVIOUS
<1> USE DEF PumpInv, States, ClosingStates, CloseOrder, Waited, pumps, channels
<1>1. CASE DialFails \/ DialSucceeds \/ HandshakeFails \/ ParentCanceled \/ PeerGone
  BY <1>1 DEF DialFails, DialSucceeds, HandshakeFails, ParentCanceled, PeerGone
\* The listen-only pump starts while nobody can have called Close.
<1>2. CASE Metadata
  BY <1>2 DEF Metadata
<1>3. CASE ReaderSteps
  <2>1. CASE ReadBinary
    <3>1. crashed' \in BOOLEAN
      BY <2>1, Zenon DEF ReadBinary
    <3> QED BY <2>1, <3>1 DEF ReadBinary
  <2>2. CASE ReadMetadata \/ ReadDTMF \/ CallbackReturns \/ ReadEnds
    BY <2>2 DEF ReadMetadata, ReadDTMF, CallbackReturns, ReadEnds
  <2> QED BY <1>3, <2>1, <2>2 DEF ReaderSteps, ReadFails, ReadCallEnded
<1>4. CASE WriterSteps
  BY <1>4 DEF WriterSteps, WriterTakes, WriteSucceeds, WriteFails, Written, WriterEnds
<1>5. CASE ListenerTicks \/ ListenerEnds \/ Read
  <2>1. crashed' \in BOOLEAN
    BY <1>5, Zenon DEF ListenerTicks, ListenerEnds, Read
  <2> QED BY <1>5, <2>1 DEF ListenerTicks, ListenerEnds, Read
<1>6. ASSUME NEW p \in Callers, Write(p) \/ SendText(p) \/ CallSteps(p) \/ CloseBegins(p)
      PROVE  PumpInv'
  BY <1>6 DEF Write, SendText, CallSteps, CallSends, CallGivesUp, CloseBegins, MayCall
<1>7. CASE CloseCancels \/ CloseWrites \/ CloseClosesConn
  <2>1. crashed' \in BOOLEAN
    BY <1>7, Zenon DEF CloseCancels, CloseWrites, CloseClosesConn
  <2>2. /\ closing \in {"cancel", "message", "conn"} /\ closing' \in {"message", "conn", "wait"}
        /\ UNCHANGED <<new, reader, writer, listener, sendClosed, receiveClosed>>
    BY <1>7, Zenon DEF CloseCancels, CloseWrites, CloseClosesConn, Closes
  <2> QED BY <2>1, <2>2
<1>8. CASE CloseWaits
  BY <1>8 DEF CloseWaits, Closes, GroupDone
<1>9. CASE CloseDrainsSend \/ CloseDrainsReceive
  <2>1. CASE CloseDrainsSend
    BY <2>1 DEF CloseDrainsSend, Closes
  <2>2. CASE CloseDrainsReceive
    BY <2>2 DEF CloseDrainsReceive, Closes
  <2> QED BY <1>9, <2>1, <2>2
<1>10. CASE UNCHANGED clVars
  BY <1>10 DEF clVars
<1> QED BY <1>1, <1>2, <1>3, <1>4, <1>5, <1>6, <1>7, <1>8, <1>9, <1>10 DEF CLNext, CloseSteps

LEMMA PumpInvHolds == CLSpec => []PumpInv
BY PumpInit, PumpNext, PTL DEF CLSpec

\* Close closes the channels only behind eg.Wait, and no pump, the listen-only one that
\* NewClient starts late included, runs after it.
THEOREM ChannelsClosedAfterPumps == CLSpec => []PumpsNeverMeetClosedChannels
<1>1. PumpInv => PumpsNeverMeetClosedChannels
  BY DEF PumpInv, States, CloseOrder, Waited, PumpsNeverMeetClosedChannels
<1> QED BY <1>1, PumpInvHolds, PTL

----------------------------------------------------------------------------
(* The channels as sets                                                     *)

LEMMA EmptyQueue == InQueue(<<>>) = {} /\ Distinct(<<>>)
BY DEF InQueue, Distinct

LEMMA QueueAfterAppend ==
  ASSUME NEW S, NEW q \in Seq(S), NEW m \in S, Distinct(q), m \notin InQueue(q) \/ m = Text
  PROVE  /\ Append(q, m) \in Seq(S) /\ Distinct(Append(q, m))
         /\ InQueue(Append(q, m)) = InQueue(q) \cup {m}
<1> DEFINE a == Append(q, m)
<1>1. /\ a \in Seq(S) /\ Len(a) = Len(q) + 1 /\ Len(q) \in Nat
      /\ a[Len(q) + 1] = m /\ \A i \in 1..Len(q) : a[i] = q[i]
  OBVIOUS
<1> HIDE DEF a
<1>2. InQueue(a) = InQueue(q) \cup {m}
  <2>1. ASSUME NEW x \in InQueue(a) PROVE x \in InQueue(q) \cup {m}
    <3>1. PICK i \in 1..Len(a) : x = a[i]
      BY DEF InQueue
    <3> QED BY <1>1, <3>1 DEF InQueue
  <2>2. ASSUME NEW x \in InQueue(q) \cup {m} PROVE x \in InQueue(a)
    <3>1. CASE x = m
      BY <1>1, <3>1 DEF InQueue
    <3>2. CASE x \in InQueue(q)
      <4>1. PICK i \in 1..Len(q) : x = q[i]
        BY <3>2 DEF InQueue
      <4> QED BY <1>1, <4>1 DEF InQueue
    <3> QED BY <3>1, <3>2
  <2> QED BY <2>1, <2>2
<1>3. Distinct(a)
  <2> SUFFICES ASSUME NEW i \in 1..Len(a), NEW j \in 1..Len(a), i < j
               PROVE  a[i] # a[j] \/ a[i] = Text
    BY DEF Distinct
  <2>1. i \in 1..Len(q) /\ a[i] = q[i] /\ q[i] \in InQueue(q)
    BY <1>1 DEF InQueue
  <2>2. CASE j = Len(q) + 1
    BY <1>1, <2>1, <2>2
  <2>3. CASE j # Len(q) + 1
    BY <1>1, <2>1, <2>3 DEF Distinct
  <2> QED BY <2>2, <2>3
<1> QED BY <1>1, <1>2, <1>3 DEF a

LEMMA QueueAfterTail ==
  ASSUME NEW S, NEW q \in Seq(S), q # <<>>, Distinct(q)
  PROVE  /\ Head(q) \in S /\ Tail(q) \in Seq(S) /\ Distinct(Tail(q))
         /\ InQueue(q) = InQueue(Tail(q)) \cup {Head(q)}
         /\ Head(q) \notin InQueue(Tail(q)) \/ Head(q) = Text
<1> DEFINE t == Tail(q)
<1>1. /\ t \in Seq(S) /\ Len(q) \in Nat /\ Len(q) > 0 /\ Len(t) = Len(q) - 1
      /\ Head(q) = q[1] /\ \A i \in 1..Len(t) : t[i] = q[i + 1]
      /\ Head(q) \in S
  OBVIOUS
<1> HIDE DEF t
<1>2. InQueue(q) = InQueue(t) \cup {Head(q)}
  <2>1. ASSUME NEW x \in InQueue(q) PROVE x \in InQueue(t) \cup {Head(q)}
    <3>1. PICK i \in 1..Len(q) : x = q[i]
      BY DEF InQueue
    <3>2. CASE i = 1
      BY <1>1, <3>1, <3>2
    <3>3. CASE i # 1
      <4>1. i - 1 \in 1..Len(t) /\ t[i - 1] = q[i]
        BY <1>1, <3>3
      <4> QED BY <3>1, <4>1 DEF InQueue
    <3> QED BY <3>2, <3>3
  <2>2. ASSUME NEW x \in InQueue(t) \cup {Head(q)} PROVE x \in InQueue(q)
    <3>1. CASE x = Head(q)
      BY <1>1, <3>1 DEF InQueue
    <3>2. CASE x \in InQueue(t)
      <4>1. PICK i \in 1..Len(t) : x = t[i]
        BY <3>2 DEF InQueue
      <4>2. i + 1 \in 1..Len(q) /\ x = q[i + 1]
        BY <1>1, <4>1
      <4> QED BY <4>2 DEF InQueue
    <3> QED BY <3>1, <3>2
  <2> QED BY <2>1, <2>2
<1>3. ASSUME NEW i \in 1..Len(t), t[i] = Head(q) PROVE Head(q) = Text
  <2>1. 1 \in 1..Len(q) /\ i + 1 \in 1..Len(q) /\ 1 < i + 1 /\ q[1] = q[i + 1]
    BY <1>1, <1>3
  <2> QED BY <1>1, <2>1 DEF Distinct
<1>4. Distinct(t)
  <2> SUFFICES ASSUME NEW i \in 1..Len(t), NEW j \in 1..Len(t), i < j
               PROVE  t[i] # t[j] \/ t[i] = Text
    BY DEF Distinct
  <2>1. i + 1 \in 1..Len(q) /\ j + 1 \in 1..Len(q) /\ i + 1 < j + 1
    BY <1>1
  <2> QED BY <1>1, <2>1 DEF Distinct
<1> QED BY <1>1, <1>2, <1>3, <1>4 DEF t, InQueue

----------------------------------------------------------------------------
(* Every step moves at most one buffer, or empties a channel into the pool  *)

LEMMA BuffersAreNotMarks ==
  /\ Buffers \subseteq Nat /\ Text \notin Buffers /\ Nothing \notin Buffers /\ Text # Nothing
  /\ \A n \in 0..MaxBuffers : n < MaxBuffers => n + 1 \in Buffers /\ n + 1 \in 0..MaxBuffers
BY ClientConstants DEF Buffers, Text, Nothing

LEMMA PoolInit == CLInit => PoolInv
<1> SUFFICES ASSUME CLInit PROVE PoolInv
  OBVIOUS
<1>1. PoolTypes
  <2>1. 0 \in 0..MaxBuffers /\ <<>> \in Seq(Messages) /\ <<>> \in Seq(Buffers)
    BY ClientConstants
  <2> QED BY <2>1, EmptyQueue DEF CLInit, PoolTypes
<1>2. ASSUME NEW b \in Buffers PROVE Followed(b)
  <2>1. b # Nothing /\ b > 0
    BY BuffersAreNotMarks DEF Buffers
  <2>2. /\ ~InSend(b) /\ ~InReceive(b) /\ ~WithWriter(b) /\ ~WithApp(b) /\ ~WithCallback(b)
        /\ ~Handed(b) /\ ~Back(b) /\ puts[b] = 0
    BY <2>1, EmptyQueue DEF CLInit, InSend, InReceive, WithWriter, WithApp, WithCallback, Handed,
                            Back, Callers
  <2>3. ~(b <= taken)
    BY <2>1, BuffersAreNotMarks DEF CLInit
  <2> QED BY <2>2, <2>3 DEF Followed, OnePlace, Somewhere
<1> QED BY <1>1, <1>2 DEF PoolInv

\* A step that moves no buffer; it may end in a panic.
LEMMA PoolFrame ==
  ASSUME PoolInv, ~crashed,
         UNCHANGED <<send, receive, writing, call, taken, puts, handed, sendClosed, receiveClosed>>,
         writer' = "writing" <=> writer = "writing"
  PROVE  PoolInv'
<1>1. PoolTypes'
  BY DEF PoolInv, PoolTypes
<1>2. ASSUME NEW b \in Buffers PROVE Followed(b)'
  BY DEF PoolInv, Followed, OnePlace, Somewhere, InSend, InReceive, WithWriter, WithApp,
         WithCallback, Handed, Back
<1> QED BY <1>1, <1>2 DEF PoolInv

\* readPump takes a buffer and hands it to the application's channel, which is open.
LEMMA ReadBinaryPool ==
  ASSUME PumpInv, PoolInv, ~crashed, ReadBinary
  PROVE  PoolInv'
<1>1. /\ taken < MaxBuffers /\ taken' = taken + 1 /\ receive' = Append(receive, taken + 1)
      /\ UNCHANGED <<send, writing, writer, call, puts, handed, sendClosed, receiveClosed>>
      /\ reader = "next"
  BY DEF ReadBinary, pumps
<1>2. ~receiveClosed
  BY <1>1 DEF PumpInv, CloseOrder, Waited
<1>3. taken + 1 \in Buffers /\ taken + 1 \in 0..MaxBuffers /\ taken \in Nat
  BY <1>1, BuffersAreNotMarks DEF PoolInv, PoolTypes
<1>4. taken + 1 \notin InQueue(receive) /\ ~Somewhere(taken + 1)
  BY <1>3 DEF PoolInv, Followed, Somewhere, InReceive
<1>5. /\ receive' \in Seq(Buffers) /\ Distinct(receive')
      /\ InQueue(receive') = InQueue(receive) \cup {taken + 1}
  BY <1>1, <1>3, <1>4, QueueAfterAppend DEF PoolInv, PoolTypes
<1>6. PoolTypes'
  BY <1>1, <1>2, <1>3, <1>5 DEF PoolInv, PoolTypes, Distinct
<1>7. ASSUME NEW b \in Buffers PROVE Followed(b)'
  <2>1. Followed(b) /\ b \in Nat
    BY BuffersAreNotMarks DEF PoolInv
  <2>2. InReceive(b)' <=> (InReceive(b) \/ b = taken + 1)
    BY <1>5 DEF InReceive
  <2>3. b <= taken' <=> b <= taken \/ b = taken + 1
    BY <1>1, <1>3, <2>1
  <2> QED BY <1>1, <1>4, <2>1, <2>2, <2>3
          DEF Followed, OnePlace, Somewhere, InSend, WithWriter, WithApp, WithCallback, Handed, Back
<1> QED BY <1>6, <1>7 DEF PoolInv

\* The listen-only pump takes a buffer; the channel it sends on is open.
LEMMA ListenerTicksPool ==
  ASSUME PumpInv, PoolInv, ~crashed, ListenerTicks
  PROVE  PoolInv'
<1>1. /\ taken < MaxBuffers /\ taken' = taken + 1 /\ send' = Append(send, taken + 1)
      /\ UNCHANGED <<receive, writing, writer, call, puts, handed, sendClosed, receiveClosed>>
      /\ listener = "tick"
  BY DEF ListenerTicks, pumps
<1>2. ~sendClosed
  BY <1>1 DEF PumpInv, CloseOrder, Waited
<1>3. taken + 1 \in Buffers /\ taken + 1 \in 0..MaxBuffers /\ taken \in Nat
  BY <1>1, BuffersAreNotMarks DEF PoolInv, PoolTypes
<1>4. taken + 1 \notin InQueue(send) /\ ~Somewhere(taken + 1)
  BY <1>3 DEF PoolInv, Followed, Somewhere, InSend
<1>5. /\ send' \in Seq(Messages) /\ Distinct(send')
      /\ InQueue(send') = InQueue(send) \cup {taken + 1}
  BY <1>1, <1>3, <1>4, QueueAfterAppend DEF PoolInv, PoolTypes, Messages
<1>6. PoolTypes'
  BY <1>1, <1>2, <1>3, <1>5 DEF PoolInv, PoolTypes, Distinct
<1>7. ASSUME NEW b \in Buffers PROVE Followed(b)'
  <2>1. Followed(b) /\ b \in Nat
    BY BuffersAreNotMarks DEF PoolInv
  <2>2. InSend(b)' <=> (InSend(b) \/ b = taken + 1)
    BY <1>5 DEF InSend
  <2>3. b <= taken' <=> b <= taken \/ b = taken + 1
    BY <1>1, <1>3, <2>1
  <2> QED BY <1>1, <1>4, <2>1, <2>2, <2>3
          DEF Followed, OnePlace, Somewhere, InReceive, WithWriter, WithApp, WithCallback, Handed, Back
<1> QED BY <1>6, <1>7 DEF PoolInv

LEMMA WriterTakesPool ==
  ASSUME PoolInv, ~crashed, WriterTakes
  PROVE  PoolInv'
<1>1. /\ writer = "select" /\ writer' = "writing" /\ send # <<>>
      /\ writing' = Head(send) /\ send' = Tail(send)
      /\ UNCHANGED <<receive, call, taken, puts, handed, sendClosed, receiveClosed, crashed>>
  BY DEF WriterTakes, pool
<1>2. /\ Head(send) \in Messages /\ send' \in Seq(Messages) /\ Distinct(send')
      /\ InQueue(send) = InQueue(send') \cup {Head(send)}
      /\ Head(send) \notin InQueue(send') \/ Head(send) = Text
  BY <1>1, QueueAfterTail DEF PoolInv, PoolTypes
<1>3. writing = Nothing
  BY <1>1 DEF PoolInv, PoolTypes
<1>4. PoolTypes'
  BY <1>1, <1>2, BuffersAreNotMarks DEF PoolInv, PoolTypes, Messages, Distinct
<1>5. ASSUME NEW b \in Buffers PROVE Followed(b)'
  <2>1. Followed(b) /\ b # Text /\ b # Nothing
    BY BuffersAreNotMarks DEF PoolInv
  <2>2. /\ InSend(b)' <=> (InSend(b) /\ b # Head(send))
        /\ b = Head(send) => InSend(b)
    BY <1>2, <2>1 DEF InSend
  <2> QED BY <1>1, <1>3, <2>1, <2>2
          DEF Followed, OnePlace, Somewhere, InReceive, WithWriter, WithApp, WithCallback, Handed, Back
<1> QED BY <1>4, <1>5 DEF PoolInv

\* writePump returns the buffer it has written, or could not write.
LEMMA WrittenPool ==
  ASSUME PoolInv, ~crashed, NEW next \in {"select", "done"}, Written(next)
  PROVE  PoolInv'
<1>1. /\ writer = "writing" /\ writer' = next /\ writing' = Nothing
      /\ puts' = [b \in Buffers |-> IF b \in Binary({writing}) THEN puts[b] + 1 ELSE puts[b]]
      /\ UNCHANGED <<send, receive, call, taken, handed, sendClosed, receiveClosed, crashed>>
  BY DEF Written, Put, channels
<1>2. PoolTypes'
  BY <1>1 DEF PoolInv, PoolTypes, Distinct
<1>3. ASSUME NEW b \in Buffers PROVE Followed(b)'
  <2>1. Followed(b) /\ b # Text /\ b # Nothing /\ puts[b] \in Nat
    BY BuffersAreNotMarks DEF PoolInv, PoolTypes
  <2>2. puts'[b] = IF b = writing THEN puts[b] + 1 ELSE puts[b]
    BY <1>1, <2>1 DEF Binary
  <2> QED BY <1>1, <2>1, <2>2
          DEF Followed, OnePlace, Somewhere, InSend, InReceive, WithWriter, WithApp, WithCallback, Handed, Back
<1> QED BY <1>2, <1>3 DEF PoolInv

\* Write takes a buffer, SendDTMF and Hangup none.
LEMMA CallBeginsPool ==
  ASSUME PoolInv, ~crashed, NEW p \in Callers, Write(p) \/ SendText(p)
  PROVE  PoolInv'
<1>1. PICK m \in Messages :
        /\ call[p] = Nothing /\ call' = [call EXCEPT ![p] = m]
        /\ \/ m = Text /\ UNCHANGED taken
           \/ m = taken + 1 /\ taken' = m /\ m \in Buffers /\ m \in 0..MaxBuffers
        /\ UNCHANGED <<send, receive, writing, writer, puts, handed, sendClosed, receiveClosed,
                       crashed>>
  BY BuffersAreNotMarks DEF Write, SendText, MayCall, pumps, channels, pool, Messages, PoolInv,
                            PoolTypes
<1>2. taken \in Nat
  BY DEF PoolInv, PoolTypes
<1>3. m \in Buffers => m = taken + 1 /\ ~Somewhere(m)
  BY <1>1, <1>2, BuffersAreNotMarks DEF PoolInv, Followed
<1>4. PoolTypes'
  BY <1>1 DEF PoolInv, PoolTypes, Distinct
<1>5. ASSUME NEW b \in Buffers PROVE Followed(b)'
  <2>1. Followed(b) /\ b \in Nat /\ b # Text /\ b # Nothing
    BY BuffersAreNotMarks DEF PoolInv
  <2>2. b <= taken' <=> b <= taken \/ b = m
    BY <1>1, <1>2, <2>1
  <2>3. /\ WithApp(b)' <=> (WithApp(b) \/ (p = "app" /\ b = m))
        /\ WithCallback(b)' <=> (WithCallback(b) \/ (p = "callback" /\ b = m))
    BY <1>1, <2>1 DEF WithApp, WithCallback, Callers, PoolInv, PoolTypes
  <2> QED BY <1>1, <1>3, <2>1, <2>2, <2>3
          DEF Followed, OnePlace, Somewhere, InSend, InReceive, WithWriter, Handed, Back, Callers
<1> QED BY <1>4, <1>5 DEF PoolInv

\* The message of a call goes to the open channel, or the program ends.
LEMMA CallSendsPool ==
  ASSUME PumpInv, PoolInv, ~crashed, NEW p \in Callers, CallSends(p)
  PROVE  PoolInv'
<1>1. /\ call[p] # Nothing /\ call' = [call EXCEPT ![p] = Nothing]
      /\ send' = IF sendClosed THEN send ELSE Append(send, call[p])
      /\ sendClosed => crashed'
      /\ UNCHANGED <<receive, writing, writer, taken, puts, handed, sendClosed, receiveClosed>>
  BY DEF CallSends, pumps, pool
<1>2. call[p] \in Messages /\ (call[p] \in Buffers => Followed(call[p]))
  BY <1>1 DEF PoolInv, PoolTypes
<1>3. call[p] \in Buffers => WithApp(call[p]) \/ WithCallback(call[p])
  BY DEF WithApp, WithCallback, Callers
<1>4. call[p] \notin InQueue(send) \/ call[p] = Text
  BY <1>2, <1>3 DEF Followed, OnePlace, InSend, Messages
<1>5. ~sendClosed => /\ send' \in Seq(Messages) /\ Distinct(send')
                     /\ InQueue(send') = InQueue(send) \cup {call[p]}
  BY <1>1, <1>2, <1>4, QueueAfterAppend DEF PoolInv, PoolTypes
<1>6. PoolTypes'
  BY <1>1, <1>5 DEF PoolInv, PoolTypes, Distinct
<1>7. ASSUME NEW b \in Buffers PROVE Followed(b)'
  <2>1. Followed(b) /\ b # Text /\ b # Nothing
    BY BuffersAreNotMarks DEF PoolInv
  <2>2. /\ InSend(b)' <=> (InSend(b) \/ (~sendClosed /\ b = call[p]))
        /\ sendClosed => ~InSend(b)
    BY <1>1, <1>5, EmptyQueue DEF InSend, PoolInv, PoolTypes
  <2>3. /\ WithApp(b)' <=> (WithApp(b) /\ p # "app")
        /\ WithCallback(b)' <=> (WithCallback(b) /\ p # "callback")
    BY <1>1, <2>1 DEF WithApp, WithCallback, Callers, PoolInv, PoolTypes
  <2>4. b = call[p] <=> (p = "app" /\ WithApp(b)) \/ (p = "callback" /\ WithCallback(b))
    BY DEF WithApp, WithCallback, Callers
  <2> QED BY <1>1, <2>1, <2>2, <2>3, <2>4
          DEF Followed, OnePlace, Somewhere, InReceive, WithWriter, Handed, Back
<1> QED BY <1>6, <1>7 DEF PoolInv

LEMMA CallGivesUpPool ==
  ASSUME PoolInv, ~crashed, NEW p \in Callers, CallGivesUp(p)
  PROVE  PoolInv'
<1>1. /\ call' = [call EXCEPT ![p] = Nothing]
      /\ puts' = [b \in Buffers |-> IF b \in Binary({call[p]}) THEN puts[b] + 1 ELSE puts[b]]
      /\ UNCHANGED <<send, receive, writing, writer, taken, handed, sendClosed, receiveClosed,
                     crashed>>
  BY DEF CallGivesUp, GivenUp, Put, pumps, channels
<1>2. PoolTypes'
  BY <1>1 DEF PoolInv, PoolTypes, Distinct
<1>3. ASSUME NEW b \in Buffers PROVE Followed(b)'
  <2>1. Followed(b) /\ b # Text /\ b # Nothing /\ puts[b] \in Nat
    BY BuffersAreNotMarks DEF PoolInv, PoolTypes
  <2>2. puts'[b] = IF b = call[p] THEN puts[b] + 1 ELSE puts[b]
    BY <1>1, <2>1 DEF Binary
  <2>3. /\ WithApp(b)' <=> (WithApp(b) /\ p # "app")
        /\ WithCallback(b)' <=> (WithCallback(b) /\ p # "callback")
    BY <1>1, <2>1 DEF WithApp, WithCallback, Callers, PoolInv, PoolTypes
  <2>4. b = call[p] <=> (p = "app" /\ WithApp(b)) \/ (p = "callback" /\ WithCallback(b))
    BY DEF WithApp, WithCallback, Callers
  <2> QED BY <1>1, <2>1, <2>2, <2>3, <2>4
          DEF Followed, OnePlace, Somewhere, InSend, InReceive, WithWriter, Handed, Back
<1> QED BY <1>2, <1>3 DEF PoolInv

LEMMA ReadPool ==
  ASSUME PoolInv, ~crashed, Read
  PROVE  PoolInv'
<1>1. /\ receive # <<>> /\ receive' = Tail(receive) /\ handed' = handed \cup {Head(receive)}
      /\ UNCHANGED <<send, writing, writer, call, taken, puts, sendClosed, receiveClosed, crashed>>
  BY DEF Read, pumps
<1>2. /\ Head(receive) \in Buffers /\ receive' \in Seq(Buffers) /\ Distinct(receive')
      /\ InQueue(receive) = InQueue(receive') \cup {Head(receive)}
      /\ Head(receive) \notin InQueue(receive') \/ Head(receive) = Text
  BY <1>1, QueueAfterTail DEF PoolInv, PoolTypes
<1>3. PoolTypes'
  BY <1>1, <1>2 DEF PoolInv, PoolTypes, Distinct
<1>4. ASSUME NEW b \in Buffers PROVE Followed(b)'
  <2>1. Followed(b) /\ b # Text
    BY BuffersAreNotMarks DEF PoolInv
  <2>2. /\ InReceive(b)' <=> (InReceive(b) /\ b # Head(receive))
        /\ b = Head(receive) => InReceive(b)
        /\ Handed(b)' <=> (Handed(b) \/ b = Head(receive))
    BY <1>1, <1>2, <2>1 DEF InReceive, Handed
  <2> QED BY <1>1, <2>1, <2>2
          DEF Followed, OnePlace, Somewhere, InSend, WithWriter, WithApp, WithCallback, Back
<1> QED BY <1>3, <1>4 DEF PoolInv

\* Close empties a channel into the pool: each of its buffers goes back once.
LEMMA DrainsPool ==
  ASSUME PumpInv, PoolInv, ~crashed, CloseDrainsSend \/ CloseDrainsReceive
  PROVE  PoolInv'
<1> DEFINE q == IF closing = "send" THEN send ELSE receive
<1>1. /\ puts' = [b \in Buffers |-> IF b \in Binary(InQueue(q)) THEN puts[b] + 1 ELSE puts[b]]
      /\ UNCHANGED <<writing, writer, call, taken, handed, crashed>>
      /\ closing = "send" => send' = <<>> /\ UNCHANGED <<receive, receiveClosed>>
      /\ closing # "send" => receive' = <<>> /\ UNCHANGED <<send, sendClosed>>
  <2>1. CASE CloseDrainsSend
    BY <2>1 DEF CloseDrainsSend, Closes, Put, pumps
  <2>2. CASE CloseDrainsReceive
    <3>1. Text \notin InQueue(receive)
      BY BuffersAreNotMarks DEF InQueue, PoolInv, PoolTypes
    <3>2. Binary(InQueue(receive)) = InQueue(receive)
      BY <3>1 DEF Binary
    <3> QED BY <2>2, <3>2 DEF CloseDrainsReceive, Closes, Put, pumps
  <2> QED BY <2>1, <2>2
<1>2. PoolTypes'
  <2>1. <<>> \in Seq(Messages) /\ <<>> \in Seq(Buffers)
    OBVIOUS
  <2>2. puts' \in [Buffers -> Nat]
    BY <1>1 DEF PoolInv, PoolTypes
  <2>3. CASE closing = "send"
    <3>1. send' = <<>> /\ Distinct(send')
      BY <1>1, <2>3, EmptyQueue
    <3>2. UNCHANGED <<receive, receiveClosed>>
      BY <1>1, <2>3
    <3> QED BY <1>1, <2>1, <2>2, <3>1, <3>2 DEF PoolInv, PoolTypes
  <2>4. CASE closing # "send"
    <3>1. receive' = <<>> /\ Distinct(receive')
      BY <1>1, <2>4, EmptyQueue
    <3>2. UNCHANGED <<send, sendClosed>>
      BY <1>1, <2>4
    <3> QED BY <1>1, <2>1, <2>2, <3>1, <3>2 DEF PoolInv, PoolTypes
  <2> QED BY <2>3, <2>4
<1>3. ASSUME NEW b \in Buffers PROVE Followed(b)'
  <2>1. Followed(b) /\ b # Text /\ puts[b] \in Nat
    BY BuffersAreNotMarks DEF PoolInv, PoolTypes
  <2>2. puts'[b] = IF b \in InQueue(q) THEN puts[b] + 1 ELSE puts[b]
    BY <1>1, <2>1 DEF Binary
  <2>3. CASE closing = "send"
    <3>1. /\ ~InSend(b)'
          /\ InReceive(b)' <=> InReceive(b)
          /\ b \in InQueue(q) <=> InSend(b)
      BY <1>1, <2>3, EmptyQueue DEF InSend, InReceive, InQueue
    <3> QED BY <1>1, <2>1, <2>2, <3>1
            DEF Followed, OnePlace, Somewhere, WithWriter, WithApp, WithCallback, Handed, Back
  <2>4. CASE closing # "send"
    <3>1. /\ ~InReceive(b)'
          /\ InSend(b)' <=> InSend(b)
          /\ b \in InQueue(q) <=> InReceive(b)
      BY <1>1, <2>4, EmptyQueue DEF InSend, InReceive, InQueue
    <3> QED BY <1>1, <2>1, <2>2, <3>1
            DEF Followed, OnePlace, Somewhere, WithWriter, WithApp, WithCallback, Handed, Back
  <2> QED BY <2>3, <2>4
<1> QED BY <1>2, <1>3 DEF PoolInv

LEMMA PoolNext == PumpInv /\ PoolInv /\ [CLNext]_clVars => PoolInv'
<1> SUFFICES ASSUME PumpInv, PoolInv, [CLNext]_clVars PROVE PoolInv'
  OBVIOUS
<1>1. CASE UNCHANGED clVars
  <2>1. PoolTypes'
    BY <1>1 DEF clVars, pumps, channels, pool, PoolInv, PoolTypes, Distinct
  <2>2. ASSUME NEW b \in Buffers PROVE Followed(b)'
    BY <1>1 DEF clVars, pumps, channels, pool, PoolInv, Followed, OnePlace, Somewhere, InSend,
                InReceive, WithWriter, WithApp, WithCallback, Handed, Back
  <2> QED BY <2>1, <2>2 DEF PoolInv
<1>2. CASE CLNext
  <2>0. ~crashed
    BY <1>2 DEF CLNext
  <2> USE <2>0
  <2>1. CASE DialFails \/ DialSucceeds \/ Metadata \/ HandshakeFails \/ ParentCanceled \/ PeerGone
    <3>1. new = "dial" => writer # "writing"
      BY DEF PumpInv, CloseOrder
    <3> QED BY <2>1, <3>1, PoolFrame
            DEF DialFails, DialSucceeds, Metadata, HandshakeFails, ParentCanceled, PeerGone,
                pumps, channels, pool
  <2>2. CASE ReaderSteps
    BY <2>2, PoolFrame, ReadBinaryPool
       DEF ReaderSteps, ReadMetadata, ReadDTMF, CallbackReturns, ReadFails, ReadCallEnded,
           ReadEnds, pumps, channels, pool
  <2>3. CASE WriterSteps
    BY <2>3, PoolFrame, WriterTakesPool, WrittenPool
       DEF WriterSteps, WriteSucceeds, WriteFails, WriterEnds, channels, pool
  <2>4. CASE ListenerTicks \/ ListenerEnds \/ Read
    BY <2>4, PoolFrame, ListenerTicksPool, ReadPool DEF ListenerEnds, channels, pool
  <2>5. ASSUME NEW p \in Callers, Write(p) \/ SendText(p) \/ CallSteps(p) \/ CloseBegins(p)
        PROVE  PoolInv'
    BY <2>5, PoolFrame, CallBeginsPool, CallSendsPool, CallGivesUpPool
       DEF CallSteps, CloseBegins, pumps, channels, pool
  <2>6. CASE CloseSteps
    BY <2>6, PoolFrame, DrainsPool
       DEF CloseSteps, CloseCancels, CloseWrites, CloseClosesConn, CloseWaits, Closes, pumps,
           channels
  <2> QED BY <1>2, <2>1, <2>2, <2>3, <2>4, <2>5, <2>6 DEF CLNext
<1> QED BY <1>1, <1>2

\* The final statement, place by place.
LEMMA PoolInvIsExact == PumpInv /\ PoolInv => BuffersReturnedOnce
<1> SUFFICES ASSUME PumpInv, PoolInv PROVE BuffersReturnedOnce
  OBVIOUS
<1> DEFINE places == << InQueue(send), {writing}, {call["app"]}, {call["callback"]},
                        InQueue(receive), handed, { b \in Buffers : puts[b] > 0 } >>
           At(i) == places[i] \ {Text, Nothing}
           calls == { call[p] : p \in Callers }
<1>1. /\ At(1) \subseteq { b \in Buffers : InSend(b) }
      /\ At(2) \subseteq { b \in Buffers : WithWriter(b) }
      /\ At(3) \subseteq { b \in Buffers : WithApp(b) }
      /\ At(4) \subseteq { b \in Buffers : WithCallback(b) }
      /\ At(5) \subseteq { b \in Buffers : InReceive(b) }
      /\ At(6) \subseteq { b \in Buffers : Handed(b) }
      /\ At(7) \subseteq { b \in Buffers : Back(b) }
  <2>1. InQueue(send) \subseteq Messages /\ InQueue(receive) \subseteq Buffers
    BY DEF InQueue, PoolInv, PoolTypes
  <2> QED BY <2>1 DEF InSend, InReceive, WithWriter, WithApp, WithCallback, Handed, Back, PoolInv,
                      PoolTypes, Messages, Callers
<1>2. Len(places) = 7
  OBVIOUS
<1> HIDE DEF At
<1>3. ASSUME NEW b \in Buffers
      PROVE  \A i, j \in 1..7 : i < j => ~(b \in At(i) /\ b \in At(j))
  BY <1>1 DEF PoolInv, Followed, OnePlace
<1>4. \A i \in 1..7 : At(i) \subseteq Buffers
  BY <1>1
<1>5. \A i, j \in 1..7 : i < j => At(i) \cap At(j) = {}
  BY <1>3, <1>4
<1>6. \A b \in Buffers : puts[b] <= 1
  BY DEF PoolInv, Followed
<1>7. ASSUME closing = "done", ~crashed, NEW b \in 1..taken
      PROVE  puts[b] = 1 \/ b \in handed \/ b \in calls
  <2>1. b \in Buffers /\ b <= taken /\ puts[b] \in Nat
    BY ClientConstants DEF PoolInv, PoolTypes, Buffers
  <2>2. ~InSend(b) /\ ~InReceive(b) /\ writing = Nothing
    <3>1. sendClosed /\ receiveClosed /\ writer = "done"
      BY <1>7 DEF PumpInv, CloseOrder, Waited
    <3>2. send = <<>> /\ receive = <<>> /\ writing = Nothing
      BY <3>1 DEF PoolInv, PoolTypes
    <3> QED BY <3>2, EmptyQueue DEF InSend, InReceive
  <2>3. Back(b) \/ Handed(b) \/ WithApp(b) \/ WithCallback(b)
    BY <1>7, <2>1, <2>2, BuffersAreNotMarks DEF PoolInv, Followed, Somewhere, WithWriter
  <2>4. WithApp(b) \/ WithCallback(b) => b \in calls
    BY DEF WithApp, WithCallback, Callers
  <2> QED BY <1>6, <2>1, <2>3, <2>4 DEF Back, Handed
<1> QED BY <1>2, <1>5, <1>6, <1>7 DEF BuffersReturnedOnce, At

\* However Write, the pumps, Read and Close interleave, no buffer goes back to the pool
\* twice or while somebody still uses it, and after Close none is forgotten.
THEOREM ClientBuffersAreExact == CLSpec => []BuffersReturnedOnce
<1>1. CLSpec => []PoolInv
  BY PoolInit, PoolNext, PumpInvHolds, PTL DEF CLSpec
<1> QED BY <1>1, PumpInvHolds, PoolInvIsExact, PTL
=============================================================================
