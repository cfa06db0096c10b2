----------------------------- MODULE ActiveCall -----------------------------
(***************************************************************************)
(* One SIP call (internal/call/active_call.go) and the goroutines it owns:   *)
(* RTP reader and writer, audio processor, and the two goroutines of the     *)
(* jitter buffer.  Three bodies run concurrently, each at most once:         *)
(* StartRTPHandlers (startOnce, on the ACK), EndCall (callEnded, on BYE,     *)
(* CANCEL, a WebSocket "bye" or a media timeout) and Shutdown (closeOnce).   *)
(* Each has a program counter; further callers find the body taken.          *)
(***************************************************************************)
EXTENDS Integers, Sequences

CONSTANTS OutputCap, \* capacity of the jitter buffer's output channel
          MaxEmits   \* bound: how many packets the jitter buffer releases

ASSUME ActiveCallConstants == OutputCap \in Nat \ {0} /\ MaxEmits \in Nat

VARIABLES answer,    \* handleInvite's dialog.Respond: "pending", "ok", "failed"
          starting,  \* program counter of StartRTPHandlers
          ending,    \* program counter of EndCall
          shutting,  \* program counter of Shutdown
          callEnded, \* c.callEnded
          wanted,    \* a goroutine is about to enter Shutdown
          ctxDone,   \* c.ctx is canceled
          group,     \* c.g has been assigned
          reader, writer, processor,
          stopper,   \* the jitter buffer's goroutine that waits for ctx.Done
          jbRun,     \* the jitter buffer's release loop
          emits,     \* packets the release loop has taken (bounded)
          output,    \* length of the jitter buffer's output channel
          events,    \* the call events published on Redis
          told,      \* call_ended was broadcast while the bridge was open
          late       \* history: a handler was started after the cancel

acVars == <<answer, starting, ending, shutting, callEnded, wanted, ctxDone, group, reader,
            writer, processor, stopper, jbRun, emits, output, events, told, late>>
bodies == <<starting, ending, shutting>>
flags == <<callEnded, wanted, ctxDone, group>>
media == <<reader, writer, processor, stopper, jbRun, emits, output>>
outcomes == <<answer, events, told, late>>

\* NewActiveCall has started the bridge and the jitter buffer's first goroutine,
\* and CallManager.Add has made the call visible to the other handlers.
ACInit ==
  /\ answer = "pending"
  /\ starting = "idle" /\ ending = "idle" /\ shutting = "idle"
  /\ callEnded = FALSE /\ wanted = FALSE /\ ctxDone = FALSE /\ group = FALSE
  /\ reader = "none" /\ writer = "none" /\ processor = "running"
  /\ stopper = "waiting" /\ jbRun = "none" /\ emits = 0 /\ output = 0
  /\ events = <<>> /\ told = FALSE /\ late = FALSE

----------------------------------------------------------------------------
(* The end of handleInvite                                                  *)

RespondOK ==
  /\ answer = "pending"
  /\ answer' = "ok"
  /\ UNCHANGED <<bodies, flags, media, events, told, late>>

\* The 200 OK cannot be sent: the handler calls Shutdown itself.
RespondFails ==
  /\ answer = "pending"
  /\ answer' = "failed"
  /\ wanted' = TRUE
  /\ UNCHANGED <<bodies, callEnded, ctxDone, group, media, events, told, late>>

----------------------------------------------------------------------------
(* StartRTPHandlers                                                         *)

Starts(from, to) == starting = from /\ starting' = to

\* handleAck, for the first ACK: startOnce is taken.
HandleAck ==
  /\ answer = "ok"
  /\ Starts("idle", "publish")
  /\ UNCHANGED <<ending, shutting, flags, media, outcomes>>

PublishConnected ==
  /\ Starts("publish", "group")
  /\ events' = Append(events, "connected")
  /\ UNCHANGED <<ending, shutting, flags, media, answer, told, late>>

\* c.g, gCtx = errgroup.WithContext(c.ctx), with no lock.
MakeGroup ==
  /\ Starts("group", "reader")
  /\ group' = TRUE
  /\ UNCHANGED <<ending, shutting, callEnded, wanted, ctxDone, media, outcomes>>

GoReader ==
  /\ Starts("reader", "writer")
  /\ reader' = "running"
  /\ late' = (late \/ ctxDone)
  /\ UNCHANGED <<ending, shutting, flags, writer, processor, stopper, jbRun, emits, output,
                 answer, events, told>>

GoWriter ==
  /\ Starts("writer", "done")
  /\ writer' = "running"
  /\ late' = (late \/ ctxDone)
  /\ UNCHANGED <<ending, shutting, flags, reader, processor, stopper, jbRun, emits, output,
                 answer, events, told>>

----------------------------------------------------------------------------
(* EndCall                                                                  *)

\* The section under c.mu, for the caller that finds callEnded false.
EnterEndCall ==
  /\ ~callEnded
  /\ callEnded' = TRUE
  /\ ending = "idle" /\ ending' = "publish"

\* handleBye, handleCancel, or OnBye from the WebSocket.
HangUp ==
  /\ EnterEndCall
  /\ UNCHANGED <<starting, shutting, wanted, ctxDone, group, media, outcomes>>

PublishDisconnected ==
  /\ ending = "publish" /\ ending' = "broadcast"
  /\ events' = Append(events, "disconnected")
  /\ UNCHANGED <<starting, shutting, flags, media, answer, told, late>>

\* Mutant: the shutdown is spawned and the agent told after it.
SpawnBeforeBroadcast ==
  \/ /\ ending = "broadcast" /\ ending' = "spawn"
     /\ wanted' = TRUE
     /\ UNCHANGED <<starting, shutting, callEnded, ctxDone, group, media, outcomes>>
  \/ /\ ending = "spawn" /\ ending' = "done"
     /\ told' = (processor # "exited")
     /\ UNCHANGED <<starting, shutting, flags, media, answer, events, late>>

\* BroadcastCallEnded reaches a client only while the bridge is open.  Then
\* go c.Shutdown().
BroadcastAndSpawn ==
  \/ /\ ending = "broadcast" /\ ending' = "spawn"
     /\ told' = (processor # "exited")
     /\ UNCHANGED <<starting, shutting, flags, media, answer, events, late>>
  \/ /\ ending = "spawn" /\ ending' = "done"
     /\ wanted' = TRUE
     /\ UNCHANGED <<starting, shutting, callEnded, ctxDone, group, media, outcomes>>

\* Mutant: EndCall runs Shutdown itself instead of in a goroutine of its own.
EndCallReturnsAfterShutdown == shutting = "done"

\* EndCall has returned to its caller.
EndCallReturns == ending = "done"

----------------------------------------------------------------------------
(* Shutdown                                                                 *)

Shuts(from, to) == shutting = from /\ shutting' = to

\* closeOnce is taken and the context canceled.
EnterShutdown ==
  /\ wanted
  /\ Shuts("idle", "media")
  /\ ctxDone' = TRUE
  /\ UNCHANGED <<starting, ending, callEnded, wanted, group, media, outcomes>>

Stopped(goroutine) == goroutine \in {"none", "exited"}

\* Mutant: only the reader is waited for.
MediaStoppedReaderOnly == Stopped(reader)

\* c.g.Wait(), skipped while c.g is nil.
MediaStopped == group => Stopped(reader) /\ Stopped(writer)

WaitMedia ==
  /\ MediaStopped
  /\ Shuts("media", "bridge")
  /\ UNCHANGED <<starting, ending, flags, media, outcomes>>

\* AudioBridge.Wait()
WaitBridge ==
  /\ processor = "exited"
  /\ Shuts("bridge", "jitter")
  /\ UNCHANGED <<starting, ending, flags, media, outcomes>>

\* JitterBuffer.Wait()
WaitJitterBuffer ==
  /\ stopper = "exited" /\ Stopped(jbRun)
  /\ Shuts("jitter", "release")
  /\ UNCHANGED <<starting, ending, flags, media, outcomes>>

\* Mutant: the listener is not released.
OnFinishedRemovesOnly ==
  /\ Shuts("release", "done")
  /\ UNCHANGED <<starting, ending, flags, media, outcomes>>

\* OnFinished: ReleaseListener, then Remove.
OnFinished ==
  /\ Shuts("release", "remove") \/ Shuts("remove", "done")
  /\ UNCHANGED <<starting, ending, flags, media, outcomes>>

----------------------------------------------------------------------------
(* The reader and the writer                                                *)

ReaderGoes(from, to) == reader = from /\ reader' = to

\* Mutant: the context is not looked at after the read.
ReadPacketUnchecked ==
  /\ ReaderGoes("running", "pushing")
  /\ UNCHANGED <<bodies, flags, writer, processor, stopper, jbRun, emits, output, outcomes>>

\* ReadFrom returned a packet and ctx.Err was nil.
ReadPacket ==
  /\ ~ctxDone
  /\ ReaderGoes("running", "pushing")
  /\ UNCHANGED <<bodies, flags, writer, processor, stopper, jbRun, emits, output, outcomes>>

\* JitterBuffer.Push: the first packet starts the release loop.
PushPacket ==
  /\ ReaderGoes("pushing", "running")
  /\ jbRun' = IF jbRun = "none" THEN "running" ELSE jbRun
  /\ UNCHANGED <<bodies, flags, writer, processor, stopper, emits, output, outcomes>>

\* No packet for ten seconds: OnTimeout calls EndCall from this goroutine.
MediaTimeout ==
  /\ ~ctxDone
  /\ \/ EnterEndCall /\ ReaderGoes("running", "ending")
     \/ callEnded /\ ReaderGoes("running", "exited") /\ UNCHANGED <<ending, callEnded>>
  /\ UNCHANGED <<starting, shutting, wanted, ctxDone, group, writer, processor, stopper,
                 jbRun, emits, output, outcomes>>

ReaderReturnsFromEndCall ==
  /\ EndCallReturns
  /\ ReaderGoes("ending", "exited")
  /\ UNCHANGED <<bodies, flags, writer, processor, stopper, jbRun, emits, output, outcomes>>

\* The context is done, seen at the next read or read deadline.
ReaderStops ==
  /\ ctxDone
  /\ ReaderGoes("running", "exited")
  /\ UNCHANGED <<bodies, flags, writer, processor, stopper, jbRun, emits, output, outcomes>>

\* A read error other than a timeout: the goroutine leaves, the call goes on.
ReaderFails ==
  /\ ~ctxDone
  /\ ReaderGoes("running", "exited")
  /\ UNCHANGED <<bodies, flags, writer, processor, stopper, jbRun, emits, output, outcomes>>

WriterGoes(from, to) ==
  /\ writer = from /\ writer' = to
  /\ UNCHANGED <<bodies, flags, reader, processor, stopper, jbRun, emits, output, outcomes>>

\* The select takes a digit the agent has queued, which it may do when the context
\* is done as well.  Generate makes the packets of the tone, or goes round for ever
\* on a tone whose 16-bit sum of samples wraps before it meets the total.
WriterTakesDigit == WriterGoes("running", "toning") \/ WriterGoes("running", "endless")

ToneIsMade == WriterGoes("toning", "running")

WriterStops == ctxDone /\ WriterGoes("running", "exited")

----------------------------------------------------------------------------
(* The jitter buffer and the audio processor                                *)

\* <-ctx.Done(); pjb.Stop()
StopperStops ==
  /\ stopper = "waiting" /\ ctxDone
  /\ stopper' = "exited"
  /\ UNCHANGED <<bodies, flags, reader, writer, processor, jbRun, emits, output, outcomes>>

\* A tick of the release loop takes a packet.
JitterTick ==
  /\ jbRun = "running" /\ emits < MaxEmits
  /\ jbRun' = "sending"
  /\ emits' = emits + 1
  /\ UNCHANGED <<bodies, flags, reader, writer, processor, stopper, output, outcomes>>

\* pjb.output <- packet, outside the select on pjb.stop.
JitterSend ==
  /\ jbRun = "sending" /\ output < OutputCap
  /\ jbRun' = "running"
  /\ output' = output + 1
  /\ UNCHANGED <<bodies, flags, reader, writer, processor, stopper, emits, outcomes>>

\* <-pjb.stop: the output channel is closed.
JitterStops ==
  /\ jbRun = "running" /\ stopper = "exited"
  /\ jbRun' = "exited"
  /\ UNCHANGED <<bodies, flags, reader, writer, processor, stopper, emits, output, outcomes>>

ProcessPacket ==
  /\ processor = "running" /\ output > 0
  /\ output' = output - 1
  /\ UNCHANGED <<bodies, flags, reader, writer, processor, stopper, jbRun, emits, outcomes>>

\* The context is done, or the input channel is closed and drained: the
\* deferred CloseAll closes the WebSocket.
ProcessorStops ==
  /\ processor = "running"
  /\ ctxDone \/ (jbRun = "exited" /\ output = 0)
  /\ processor' = "exited"
  /\ UNCHANGED <<bodies, flags, reader, writer, stopper, jbRun, emits, output, outcomes>>

----------------------------------------------------------------------------
StartBody == PublishConnected \/ MakeGroup \/ GoReader \/ GoWriter
EndBody == PublishDisconnected \/ BroadcastAndSpawn
ShutdownBody ==
  EnterShutdown \/ WaitMedia \/ WaitBridge \/ WaitJitterBuffer \/ OnFinished
ReaderBody ==
  ReadPacket \/ PushPacket \/ MediaTimeout \/ ReaderReturnsFromEndCall \/ ReaderStops
    \/ ReaderFails
JitterBody == JitterTick \/ JitterSend \/ JitterStops
WriterBody == WriterTakesDigit \/ ToneIsMade \/ WriterStops
ProcessorBody == ProcessPacket \/ ProcessorStops

\* What callers and networks may or may not do.
Environment == RespondOK \/ RespondFails \/ HandleAck \/ HangUp

ACNext ==
  \/ Environment \/ StartBody \/ EndBody \/ ShutdownBody \/ ReaderBody \/ WriterBody
  \/ StopperStops \/ JitterBody \/ ProcessorBody

ACSpec == ACInit /\ [][ACNext]_acVars

\* The Go scheduler runs every goroutine that can go on, and a select or a read
\* loop that keeps meeting a canceled context sees it.  The writer is back in its
\* select again and again only as long as the tones it makes come to an end: nothing
\* is assumed of a writer in an endless one.
ACFairness ==
  /\ WF_acVars(StartBody)
  /\ WF_acVars(EndBody)
  /\ WF_acVars(ShutdownBody)
  /\ WF_acVars(PushPacket)
  /\ WF_acVars(ReaderReturnsFromEndCall)
  /\ WF_acVars(ReaderStops)
  /\ WF_acVars(ToneIsMade)
  /\ SF_acVars(WriterStops)
  /\ WF_acVars(StopperStops)
  /\ WF_acVars(JitterSend)
  /\ SF_acVars(JitterStops)
  /\ SF_acVars(ProcessorStops)

ACFairSpec == ACSpec /\ ACFairness

----------------------------------------------------------------------------
Releasing == shutting \in {"release", "remove", "done"}

\* The listener is released, and the port offered to other calls, only when the
\* goroutines that use it have ended, unless they were started after the
\* context was canceled (an ACK that crosses the end of its call).
ReleasedAfterMediaStopped ==
  Releasing =>
    /\ late \/ (Stopped(reader) /\ Stopped(writer))
    /\ processor = "exited" /\ stopper = "exited" /\ Stopped(jbRun)

\* A handler that was started late finds the context done at its first look:
\* it never pushes a packet, so the jitter buffer does not come back to life
\* behind Shutdown's Wait.
LateReaderIsHarmless ==
  Releasing => reader # "pushing" /\ jbRun \notin {"running", "sending"}

\* The agent is told that the call ended before its WebSocket is closed, except
\* when the call is torn down because the 200 OK could not be sent.
ToldBeforeClosed ==
  processor = "exited" => told \/ answer = "failed"

Finished == shutting = "done" /\ Stopped(reader) /\ Stopped(writer)

\* The release loop waits to send on a full channel that nobody reads any more.
Wedged == jbRun = "sending" /\ output = OutputCap /\ processor = "exited"

\* The writer is in a tone that never ends, and c.g.Wait waits for it.
Endless == writer = "endless"

\* A call that ended is cleaned up: every goroutine stops, Shutdown reaches its
\* end and OnFinished gives the port and the registry entry back.  The reader
\* may be the goroutine that ended the call.  Nothing but a wedged release loop
\* or an endless tone can prevent it.
EndedCallsFinish == callEnded ~> Finished \/ Wedged \/ Endless

\* For its creator, the call is one of CallLifecycle's.
TheCall == "call"
Life ==
  IF shutting = "done" THEN "finished"
  ELSE IF shutting = "remove" THEN "released"
  ELSE IF callEnded \/ wanted THEN "closing"
  ELSE "open"
Abstract == INSTANCE CallLifecycle
  WITH Calls <- {TheCall}, life <- [c \in {TheCall} |-> Life]
ImplementsCallLifecycle == Abstract!LifeSpec
=============================================================================
