-------------------------- MODULE ActiveCallProofs --------------------------
(* Proofs about a call and its goroutines, for every capacity of the jitter      *)
(* buffer's output channel and any number of packets.                            *)
EXTENDS ActiveCall, TLAPS

States ==
  /\ answer \in {"pending", "ok", "failed"}
  /\ starting \in {"idle", "publish", "group", "reader", "writer", "done"}
  /\ ending \in {"idle", "publish", "broadcast", "spawn", "done"}
  /\ shutting \in {"idle", "media", "bridge", "jitter", "release", "remove", "done"}
  /\ callEnded \in BOOLEAN /\ wanted \in BOOLEAN /\ ctxDone \in BOOLEAN /\ group \in BOOLEAN
  /\ told \in BOOLEAN /\ late \in BOOLEAN
  /\ reader \in {"none", "running", "pushing", "ending", "exited"}
  /\ writer \in {"none", "running", "toning", "endless", "exited"}
  /\ processor \in {"running", "exited"}
  /\ stopper \in {"waiting", "exited"}
  /\ jbRun \in {"none", "running", "sending", "exited"}

\* StartRTPHandlers assigns the group before it starts the reader, and the reader
\* before the writer.
StartOrder ==
  /\ group <=> starting \in {"reader", "writer", "done"}
  /\ reader # "none" <=> starting \in {"writer", "done"}
  /\ writer # "none" <=> starting = "done"

\* Shutdown is entered only when somebody wants it, and cancels the context first.
ShutdownOrder ==
  /\ ctxDone <=> shutting # "idle"
  /\ ctxDone => wanted

\* The goroutines of the jitter buffer and the bridge end with the context only.
StopOrder ==
  /\ stopper = "exited" => ctxDone
  /\ jbRun = "exited" => ctxDone

PastMedia == shutting \in {"bridge", "jitter", "release", "remove", "done"}

\* What Shutdown has waited for stays as it was: beyond c.g.Wait only a reader or a
\* writer that was started late can run, and such a reader finds the context done.
MediaStaysStopped ==
  /\ PastMedia => /\ late \/ (Stopped(reader) /\ Stopped(writer))
                  /\ reader \notin {"pushing", "ending"}
  /\ PastMedia /\ shutting # "bridge" => processor = "exited"
  /\ Releasing => stopper = "exited" /\ Stopped(jbRun)

\* EndCall tells the agent before it asks for the shutdown; without EndCall, only a
\* response that failed asks for it.
TellOrder ==
  /\ callEnded <=> ending # "idle"
  /\ told => ending \in {"spawn", "done"}
  /\ ending \in {"spawn", "done"} => told \/ answer = "failed"
  /\ wanted => ending = "done" \/ answer = "failed"

CallInv ==
  /\ States
  /\ StartOrder
  /\ ShutdownOrder
  /\ StopOrder
  /\ MediaStaysStopped
  /\ TellOrder
  /\ ToldBeforeClosed

----------------------------------------------------------------------------
(* Every step keeps the invariant                                           *)

LEMMA CallInit == ACInit => CallInv
BY DEF ACInit, CallInv, States, StartOrder, ShutdownOrder, StopOrder, MediaStaysStopped,
       PastMedia, Releasing, TellOrder, ToldBeforeClosed, Stopped

LEMMA EnvironmentKeeps ==
  ASSUME CallInv, Environment
  PROVE  CallInv'
<1> USE DEF CallInv, States, StartOrder, ShutdownOrder, StopOrder, MediaStaysStopped,
            PastMedia, Releasing, TellOrder, ToldBeforeClosed, Stopped,
            bodies, flags, media, outcomes
<1>1. CASE RespondOK
  BY <1>1 DEF RespondOK
<1>2. CASE RespondFails
  BY <1>2 DEF RespondFails
<1>3. CASE HandleAck
  BY <1>3 DEF HandleAck, Starts
<1>4. CASE HangUp
  BY <1>4 DEF HangUp, EnterEndCall
<1> QED BY <1>1, <1>2, <1>3, <1>4 DEF Environment

\* A handler that starts when Shutdown is past its wait is marked late.
LEMMA StartBodyKeeps ==
  ASSUME CallInv, StartBody
  PROVE  CallInv'
<1> USE DEF CallInv, States, StartOrder, ShutdownOrder, StopOrder, MediaStaysStopped,
            PastMedia, Releasing, TellOrder, ToldBeforeClosed, Stopped,
            bodies, flags, media, outcomes, Starts
<1>1. CASE PublishConnected
  BY <1>1 DEF PublishConnected
<1>2. CASE MakeGroup
  BY <1>2 DEF MakeGroup
<1>3. CASE GoReader
  BY <1>3 DEF GoReader
<1>4. CASE GoWriter
  BY <1>4 DEF GoWriter
<1> QED BY <1>1, <1>2, <1>3, <1>4 DEF StartBody

\* The bridge is still open when EndCall tells the agent, unless the response failed.
LEMMA EndBodyKeeps ==
  ASSUME CallInv, EndBody
  PROVE  CallInv'
<1> USE DEF CallInv, States, StartOrder, ShutdownOrder, StopOrder, MediaStaysStopped,
            PastMedia, Releasing, TellOrder, ToldBeforeClosed, Stopped,
            bodies, flags, media, outcomes
<1>1. CASE PublishDisconnected
  BY <1>1 DEF PublishDisconnected
<1>2. CASE BroadcastAndSpawn
  <2>1. CASE ending = "broadcast"
    <3>1. told' = TRUE \/ (told' = FALSE /\ processor = "exited")
      BY <1>2, <2>1 DEF BroadcastAndSpawn
    <3> QED BY <1>2, <2>1, <3>1 DEF BroadcastAndSpawn
  <2>2. CASE ending = "spawn"
    BY <1>2, <2>2 DEF BroadcastAndSpawn
  <2> QED BY <1>2, <2>1, <2>2 DEF BroadcastAndSpawn
<1> QED BY <1>1, <1>2 DEF EndBody

LEMMA ShutdownBodyKeeps ==
  ASSUME CallInv, ShutdownBody
  PROVE  CallInv'
<1> USE DEF CallInv, States, StartOrder, ShutdownOrder, StopOrder, MediaStaysStopped,
            PastMedia, Releasing, TellOrder, ToldBeforeClosed, Stopped,
            bodies, flags, media, outcomes, Shuts
<1>1. CASE EnterShutdown
  BY <1>1 DEF EnterShutdown
<1>2. CASE WaitMedia
  BY <1>2 DEF WaitMedia, MediaStopped
<1>3. CASE WaitBridge
  BY <1>3 DEF WaitBridge
<1>4. CASE WaitJitterBuffer
  BY <1>4 DEF WaitJitterBuffer
<1>5. CASE OnFinished
  BY <1>5 DEF OnFinished
<1> QED BY <1>1, <1>2, <1>3, <1>4, <1>5 DEF ShutdownBody

LEMMA ReaderBodyKeeps ==
  ASSUME CallInv, ReaderBody
  PROVE  CallInv'
<1> USE DEF CallInv, States, StartOrder, ShutdownOrder, StopOrder, MediaStaysStopped,
            PastMedia, Releasing, TellOrder, ToldBeforeClosed, Stopped,
            bodies, flags, media, outcomes, ReaderGoes
<1>1. CASE ReadPacket
  BY <1>1 DEF ReadPacket
<1>2. CASE PushPacket
  BY <1>2 DEF PushPacket
<1>3. CASE MediaTimeout
  <2>1. CASE EnterEndCall /\ ReaderGoes("running", "ending")
    BY <1>3, <2>1 DEF MediaTimeout, EnterEndCall
  <2>2. CASE callEnded /\ ReaderGoes("running", "exited") /\ UNCHANGED <<ending, callEnded>>
    BY <1>3, <2>2 DEF MediaTimeout
  <2> QED BY <1>3, <2>1, <2>2 DEF MediaTimeout
<1>4. CASE ReaderReturnsFromEndCall
  BY <1>4 DEF ReaderReturnsFromEndCall
<1>5. CASE ReaderStops
  BY <1>5 DEF ReaderStops
<1>6. CASE ReaderFails
  BY <1>6 DEF ReaderFails
<1> QED BY <1>1, <1>2, <1>3, <1>4, <1>5, <1>6 DEF ReaderBody

LEMMA OtherGoroutinesKeep ==
  ASSUME CallInv, WriterBody \/ StopperStops \/ JitterBody \/ ProcessorBody
  PROVE  CallInv'
<1> USE DEF CallInv, States, StartOrder, ShutdownOrder, StopOrder, MediaStaysStopped,
            PastMedia, Releasing, TellOrder, ToldBeforeClosed, Stopped,
            bodies, flags, media, outcomes
<1>1. CASE WriterBody
  BY <1>1 DEF WriterBody, WriterTakesDigit, ToneIsMade, WriterStops, WriterGoes
<1>2. CASE StopperStops
  BY <1>2 DEF StopperStops
<1>3. CASE JitterTick
  BY <1>3 DEF JitterTick
<1>4. CASE JitterSend
  BY <1>4 DEF JitterSend
<1>5. CASE JitterStops
  BY <1>5 DEF JitterStops
<1>6. CASE ProcessPacket
  BY <1>6 DEF ProcessPacket
<1>7. CASE ProcessorStops
  BY <1>7 DEF ProcessorStops
<1> QED BY <1>1, <1>2, <1>3, <1>4, <1>5, <1>6, <1>7 DEF JitterBody, ProcessorBody

LEMMA CallNext == CallInv /\ [ACNext]_acVars => CallInv'
<1> SUFFICES ASSUME CallInv, [ACNext]_acVars PROVE CallInv'
  OBVIOUS
<1>1. CASE ACNext
  BY <1>1, EnvironmentKeeps, StartBodyKeeps, EndBodyKeeps, ShutdownBodyKeeps, ReaderBodyKeeps,
     OtherGoroutinesKeep DEF ACNext
<1>2. CASE UNCHANGED acVars
  BY <1>2 DEF acVars, CallInv, States, StartOrder, ShutdownOrder, StopOrder,
              MediaStaysStopped, PastMedia, Releasing, TellOrder, ToldBeforeClosed, Stopped
<1> QED BY <1>1, <1>2

LEMMA CallInvHolds == ACSpec => []CallInv
BY CallInit, CallNext, PTL DEF ACSpec

\* Shutdown gives the port back only when the reader and the writer have ended, or
\* were started by an ACK that came after the cancel, and the bridge and the jitter
\* buffer have ended in any case.
THEOREM PortReleasedAfterMedia == ACSpec => []ReleasedAfterMediaStopped
<1>1. CallInv => ReleasedAfterMediaStopped
  BY DEF CallInv, States, MediaStaysStopped, PastMedia, Releasing, ReleasedAfterMediaStopped
<1> QED BY <1>1, CallInvHolds, PTL

\* A reader started by a late ACK pushes no packet once Shutdown has waited for the
\* jitter buffer, which does not start again.
THEOREM LateAckIsHarmless == ACSpec => []LateReaderIsHarmless
<1>1. CallInv => LateReaderIsHarmless
  BY DEF CallInv, States, MediaStaysStopped, PastMedia, Releasing, Stopped,
         LateReaderIsHarmless
<1> QED BY <1>1, CallInvHolds, PTL

\* EndCall's call_ended reaches the bridge before anything closes it, unless the
\* 200 OK could not be sent.
THEOREM AgentToldBeforeClose == ACSpec => []ToldBeforeClosed
<1>1. CallInv => ToldBeforeClosed
  BY DEF CallInv
<1> QED BY <1>1, CallInvHolds, PTL

----------------------------------------------------------------------------
(* The call implements its life cycle                                       *)

\* EndCall and Shutdown only ever set their flags, and Shutdown takes its steps in
\* one order.
LEMMA HowShutdownMoves ==
  ASSUME CallInv, [ACNext]_acVars
  PROVE  /\ callEnded => callEnded'
         /\ wanted => wanted'
         /\ shutting' # shutting =>
               \/ shutting \in {"idle", "media", "bridge", "jitter"}
                    /\ shutting' \in {"media", "bridge", "jitter", "release"}
               \/ shutting = "release" /\ shutting' = "remove" /\ UNCHANGED <<callEnded, wanted>>
               \/ shutting = "remove" /\ shutting' = "done" /\ UNCHANGED <<callEnded, wanted>>
<1> USE DEF bodies, flags
<1>1. CASE Environment
  BY <1>1 DEF Environment, RespondOK, RespondFails, HandleAck, HangUp, EnterEndCall
<1>2. CASE StartBody
  BY <1>2 DEF StartBody, PublishConnected, MakeGroup, GoReader, GoWriter
<1>3. CASE EndBody
  BY <1>3 DEF EndBody, PublishDisconnected, BroadcastAndSpawn
<1>4. CASE ShutdownBody
  BY <1>4 DEF ShutdownBody, EnterShutdown, WaitMedia, WaitBridge, WaitJitterBuffer,
              OnFinished, Shuts
<1>5. CASE ReaderBody
  BY <1>5 DEF ReaderBody, ReadPacket, PushPacket, MediaTimeout, EnterEndCall,
              ReaderReturnsFromEndCall, ReaderStops, ReaderFails
<1>6. CASE WriterBody \/ StopperStops \/ JitterBody \/ ProcessorBody
  BY <1>6 DEF WriterBody, WriterTakesDigit, ToneIsMade, WriterStops, WriterGoes,
              StopperStops, JitterBody, JitterTick, JitterSend, JitterStops,
              ProcessorBody, ProcessPacket, ProcessorStops
<1>7. CASE UNCHANGED acVars
  BY <1>7 DEF acVars
<1> QED BY <1>1, <1>2, <1>3, <1>4, <1>5, <1>6, <1>7 DEF ACNext

LEMMA StepsAreLifeSteps ==
  CallInv /\ [ACNext]_acVars => [Abstract!LifeNext]_[c \in {TheCall} |-> Life]
<1> SUFFICES ASSUME CallInv, [ACNext]_acVars
             PROVE  \/ Abstract!LifeNext
                    \/ UNCHANGED [c \in {TheCall} |-> Life]
  OBVIOUS
<1> DEFINE Goes(from, to) == Life = from /\ Life' = to
<1>1. \/ Life' = Life
      \/ Goes("open", "closing") \/ Goes("closing", "released") \/ Goes("released", "finished")
  BY HowShutdownMoves DEF CallInv, States, ShutdownOrder, Life
<1>2. ASSUME NEW from, NEW to, Goes(from, to)
      PROVE  Abstract!Moves(TheCall, from, to)
  BY <1>2 DEF Abstract!Moves
<1>3. CASE Life' = Life
  BY <1>3
<1>4. CASE ~(Life' = Life)
  BY <1>1, <1>2, <1>4 DEF Abstract!LifeNext, Abstract!Close, Abstract!Release, Abstract!Finish
<1> QED BY <1>3, <1>4

\* The promise SIPService builds on: a call closes once, then releases its listener
\* once, then leaves the registry once, in this order.
THEOREM CallHasALifecycle == ACSpec => ImplementsCallLifecycle
<1>1. ACInit => Abstract!LifeInit
  BY DEF ACInit, Abstract!LifeInit, Life
<1> QED BY <1>1, CallInvHolds, StepsAreLifeSteps, PTL
        DEF ACSpec, ImplementsCallLifecycle, Abstract!LifeSpec
=============================================================================
