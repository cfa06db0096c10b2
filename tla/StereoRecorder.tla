--------------------------- MODULE StereoRecorder ---------------------------
(***************************************************************************)
(* The stereo recording of a call (internal/audio/recorder.go and            *)
(* wav_fast.go).  The audio processor pushes the caller's samples, the       *)
(* agent's ReadPump the agent's; the goroutine run takes chunks from the two *)
(* queues in any order, interleaves what both sides have, pads the side that *)
(* lags with silence, and drains the queues when the call's context is done. *)
(*                                                                         *)
(* A channel's bytes are numbered as its queue accepts them; Pad is a byte   *)
(* of silence.  What run hands to the FastWavWriter is kept as the bytes of  *)
(* the two channels; a prefix of it is on the disk, where any write may fail.*)
(***************************************************************************)
EXTENDS Integers, Sequences

CONSTANTS QueueCap,  \* capacity of each queue in chunks (100)
          Chunks,    \* Chunks[c]: sizes of the chunks that are pushed
          Threshold, \* bytes of lag that silence is filled in for (sampleRate)
          BufSize,   \* size of bufio.Writer's buffer (4096)
          MaxBytes,  \* bound: bytes pushed to each channel
          Pad

Channels == {"left", "right"}

\* An empty chunk is not pushed.
ASSUME StereoRecorderConstants ==
  /\ QueueCap \in Nat \ {0} /\ Threshold \in Nat /\ BufSize \in Nat \ {0}
  /\ MaxBytes \in Nat /\ Pad \notin Nat
  /\ \A c \in Channels : Chunks[c] \subseteq Nat \ {0}

Other(c) == IF c = "left" THEN "right" ELSE "left"

VARIABLES run,      \* "starting", "running", "draining", "closing", "done", "failed"
          ctxDone,
          queue,    \* queue[c]: the chunks in leftCh, rightCh
          buf,      \* buf[c]: leftBuf, rightBuf
          written,  \* written[c]: the channel's bytes handed to the FastWavWriter
          disk,     \* how many bytes of them, of both channels, are in the file
          broken,   \* an error of the file was met, logged, and otherwise ignored
          size,     \* the data size in the file's header
          accepted, \* history: how many bytes each queue accepted
          sure      \* history: how many when the context was done

srVars == <<run, ctxDone, queue, buf, written, disk, broken, size, accepted, sure>>
wav == <<written, disk, broken, size>>

SRInit ==
  /\ run = "starting" /\ ctxDone = FALSE
  /\ queue = [c \in Channels |-> <<>>]
  /\ buf = [c \in Channels |-> <<>>]
  /\ written = [c \in Channels |-> <<>>]
  /\ disk = 0 /\ broken = FALSE /\ size = 0
  /\ accepted = [c \in Channels |-> 0]
  /\ sure = [c \in Channels |-> 0]

Even(n) == n - (n % 2)
Lesser(a, b) == IF a <= b THEN a ELSE b
Greater(a, b) == IF a <= b THEN b ELSE a
Silence(n) == [i \in 1..n |-> Pad]

----------------------------------------------------------------------------
(* PushLeft and PushRight                                                   *)

\* A chunk that finds room.  One that finds none, or the context done, is dropped;
\* but with both room and the context done the select may choose either.
Push(c, n) ==
  /\ accepted[c] + n <= MaxBytes
  /\ Len(queue[c]) < QueueCap
  /\ queue' = [queue EXCEPT ![c] = Append(@, [i \in 1..n |-> accepted[c] + i])]
  /\ accepted' = [accepted EXCEPT ![c] = @ + n]
  /\ sure' = IF ctxDone THEN sure ELSE accepted'
  /\ UNCHANGED <<run, ctxDone, buf, wav>>

----------------------------------------------------------------------------
(* run                                                                      *)

\* The file and its header, or an error: then nothing is recorded.
Start ==
  /\ run = "starting"
  /\ run' \in {"running", "failed"}
  /\ UNCHANGED <<ctxDone, queue, buf, wav, accepted, sure>>

\* Mutant: the bytes are not counted in whole samples.
WholeSamplesAny(n) == n

\* minBytes -= minBytes % 2
WholeSamples(n) == Even(n)

\* FastWavWriter's dataBytes, as long as no write has failed.
DataBytes(given) == 2 * Len(given["left"])

\* A write to the file of what it is to hold then, of which it may get a part only.
\* bufio.Writer keeps the error and takes nothing any more.
WriteFails(given) == broken' = TRUE /\ disk' \in disk..DataBytes(given)

\* bufio.Writer, given more than it was.  What is too much for the buffer fills and
\* empties it; a rest that is longer than the buffer is written past it.
BufferedWrite(given) ==
  LET held == DataBytes(written) - disk
      more == DataBytes(given) - DataBytes(written)
      rest == IF held = 0 THEN more ELSE more - (BufSize - held)
  IN IF broken \/ held + more <= BufSize THEN UNCHANGED <<disk, broken>>
     ELSE \/ /\ disk' = DataBytes(given) - (IF rest <= BufSize THEN rest ELSE 0)
             /\ UNCHANGED broken
          \/ WriteFails(given)

\* writeInterleaved of n bytes of each channel, out of the buffers b.  They leave the
\* buffers whether or not the write failed.  With n = 0 it is not called.
WriteInterleaved(b, n) ==
  /\ written' = [c \in Channels |-> written[c] \o SubSeq(b[c], 1, n)]
  /\ buf' = [c \in Channels |-> SubSeq(b[c], n + 1, Len(b[c]))]
  /\ IF n = 0 THEN UNCHANGED <<disk, broken>> ELSE BufferedWrite(written')

\* process, with the buffers b.
Process(b) == WriteInterleaved(b, WholeSamples(Lesser(Len(b["left"]), Len(b["right"]))))

Take(c) ==
  /\ run \in {"running", "draining"} /\ queue[c] # <<>>
  /\ queue' = [queue EXCEPT ![c] = Tail(@)]
  /\ Process([buf EXCEPT ![c] = @ \o Head(queue[c])])
  /\ UNCHANGED <<run, ctxDone, size, accepted, sure>>

Lags(c) == Len(buf[Other(c)]) - Len(buf[c]) > Threshold

\* handleSilence, at the tick.
HandleSilence(c) ==
  /\ run = "running"
  /\ Lags(c)
  /\ Process([buf EXCEPT ![c] = @ \o Silence(Even(Len(buf[Other(c)]) - Len(buf[c])))])
  /\ UNCHANGED <<run, ctxDone, queue, size, accepted, sure>>

Cancel ==
  /\ ~ctxDone
  /\ ctxDone' = TRUE
  /\ UNCHANGED <<run, queue, buf, wav, accepted, sure>>

\* <-r.ctx.Done() chosen.
Drain ==
  /\ run = "running" /\ ctxDone
  /\ run' = "draining"
  /\ UNCHANGED <<ctxDone, queue, buf, wav, accepted, sure>>

\* Mutant: the loop ends when one of the queues is empty.
DrainedEither == \E c \in Channels : queue[c] = <<>>

\* The drain loop's default.
Drained == \A c \in Channels : queue[c] = <<>>

\* flush: the shorter side is padded to whole samples of the longer.
Flush ==
  /\ run = "draining" /\ Drained
  /\ run' = "closing"
  /\ LET most == Even(Greater(Len(buf["left"]), Len(buf["right"])))
     IN WriteInterleaved([c \in Channels |->
          buf[c] \o Silence(IF Len(buf[c]) < most THEN most - Len(buf[c]) ELSE 0)], most)
  /\ UNCHANGED <<ctxDone, queue, size, accepted, sure>>

\* Close returns at the first error: of the buffer, or of the header's update.
CloseWriter ==
  /\ run = "closing"
  /\ run' = "done"
  /\ \/ broken /\ UNCHANGED <<disk, broken, size>>
     \/ ~broken /\ disk < DataBytes(written) /\ WriteFails(written) /\ UNCHANGED size
     \/ /\ ~broken /\ disk' = DataBytes(written)
        /\ \/ size' = DataBytes(written) /\ UNCHANGED broken
           \/ UNCHANGED size /\ broken' = TRUE
  /\ UNCHANGED <<ctxDone, queue, buf, written, accepted, sure>>

----------------------------------------------------------------------------
SRNext ==
  \/ \E c \in Channels : (\E n \in Chunks[c] : Push(c, n)) \/ Take(c) \/ HandleSilence(c)
  \/ Start \/ Cancel \/ Drain \/ Flush \/ CloseWriter

SRSpec == SRInit /\ [][SRNext]_srVars

----------------------------------------------------------------------------
\* The bytes that are not silence are 1..n, each once and in their order.
Holds(bytes, n) ==
  LET sound == { i \in 1..Len(bytes) : bytes[i] # Pad }
  IN /\ \A i \in sound : bytes[i] \in 1..n /\ \A j \in sound : i < j => bytes[i] < bytes[j]
     /\ \A k \in 1..n : \E i \in sound : bytes[i] = k

\* The chunks go on from n to m without a gap.
LastByte(chunk) == chunk[Len(chunk)]
GoOn(chunks, n, m) ==
  /\ \A i \in 1..Len(chunks) :
       /\ chunks[i] # <<>>
       /\ \A k \in 1..Len(chunks[i]) :
            chunks[i][k] = (IF i = 1 THEN n ELSE LastByte(chunks[i - 1])) + k
  /\ m = IF chunks = <<>> THEN n ELSE LastByte(chunks[Len(chunks)])

\* The bytes of c in the file: the two channels alternate, a sample of two bytes each.
InFile(c) ==
  2 * (disk \div 4) + (IF c = "left" THEN Lesser(disk % 4, 2) ELSE Greater(disk % 4, 2) - 2)
OnDisk(c) == SubSeq(written[c], 1, InFile(c))

\* What a side was given is handed to the file once and in its order, whatever is
\* padded in between and however the two sides interleave; the rest waits in the
\* buffer and the queue; and the channels are equally long.  When the recording is
\* finished without an error of the file, its header tells the size of what is in
\* it, and only an odd byte, and what was pushed after the end of the call, is
\* missing.  After an error the file ends somewhere and its header tells no size.
RecordingIsFaithful ==
  /\ \A c \in Channels : \E n \in 0..accepted[c] :
       Holds(written[c] \o buf[c], n) /\ GoOn(queue[c], n, accepted[c])
  /\ Len(written["left"]) = Len(written["right"])
  /\ run = "done" /\ ~broken =>
       /\ size = disk
       /\ \A c \in Channels : \A k \in 1..Even(sure[c]) :
            \E i \in 1..Len(OnDisk(c)) : OnDisk(c)[i] = k
  /\ broken => size = 0

\* The two bytes of a sample stay together in what is written, as long as chunks hold
\* whole samples.  (The agent's messages need not: an odd byte before a padding
\* displaces every byte after it.)
SamplesStayWhole ==
  \A c \in Channels : (\A n \in Chunks[c] : n % 2 = 0) =>
    /\ Len(written[c]) % 2 = 0
    /\ \A i \in 1..(Len(written[c]) \div 2) :
         LET low == written[c][2 * i - 1]
             high == written[c][2 * i]
         IN \/ low = Pad /\ high = Pad
            \/ low # Pad /\ low % 2 = 1 /\ high = low + 1
=============================================================================
