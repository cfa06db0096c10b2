------------------------------- MODULE WebRTC -------------------------------
(***************************************************************************)
(* One WebRTC call (internal/webrtc/manager.go and HandleWebRTCConnect in    *)
(* internal/api/http_handler.go).  Four parties can end it: the caller, by   *)
(* closing its signaling WebSocket, which ends the handler's goroutine; the  *)
(* peer connection, by failing; the agent, with "bye"; and StopAll when the  *)
(* application stops.  They meet in the registry, the AudioBridge and the    *)
(* peer connection, whose callbacks are set one after the other while the    *)
(* call can already be found.                                                *)
(*                                                                         *)
(* The call has no dialog, no RTP handlers and no jitter buffer, so Shutdown *)
(* only waits for the audio processor.                                       *)
(***************************************************************************)
EXTENDS Integers

CONSTANTS InputCap \* capacity of audioInput (50)

ASSUME WebRTCConstants == InputCap \in Nat \ {0}

VARIABLES handler,    \* program counter of HandleWebRTCConnect and ProcessSignaling
          reqDone,    \* the request's context is done: the handler has returned
          registered, \* the registry has an entry for the call
          onFinished, \* activeCall.OnFinished is set
          hook,       \* pc.OnConnectionStateChange has a handler
          pc,         \* "none", "new", "connected", "failed", "closed"
          pending,    \* states whose callback is still to run
          hang,       \* hang[h]: HangupCall by the handler and by StopAll
          agent,      \* HandleUpgrade: "away", "found" the call, "attached"
          bye,        \* EndCall and Shutdown: "no", "ended", "waiting", "finished"
          ctxDone,    \* the call's own context is canceled
          processor,  \* "none", "running", "exited"
          outbound,   \* HandleOutboundAudio: "none", "running", "exited"
          track,      \* HandleWebRTCTrack: "none", "reading", "pushing", "exited"
          input,      \* packets in audioInput
          lateHook    \* history: Shutdown came to its end before the callbacks were set

Hangers == {"handler", "stopAll"}
hooks == <<onFinished, hook>>
peer == <<pc, pending>>
media == <<processor, outbound, track, input>>
wrVars == <<handler, reqDone, registered, hooks, peer, hang, agent, bye, ctxDone, media, lateHook>>

WRInit ==
  /\ handler = "publish" /\ reqDone = FALSE /\ registered = FALSE
  /\ onFinished = FALSE /\ hook = FALSE
  /\ pc = "none" /\ pending = {}
  /\ hang = [h \in Hangers |-> "idle"]
  /\ agent = "away" /\ bye = "no" /\ ctxDone = FALSE
  /\ processor = "none" /\ outbound = "none" /\ track = "none" /\ input = 0
  /\ lateHook = FALSE

----------------------------------------------------------------------------
(* The handler                                                              *)

Goes(from, to) == handler = from /\ handler' = to

\* An error return, before the deferred HangupCall: the request's context ends.
Fails(from) == Goes(from, "error") /\ reqDone' = TRUE

PublishEvent ==
  /\ \/ Goes("publish", "add") /\ UNCHANGED reqDone
     \/ Fails("publish")
  /\ UNCHANGED <<registered, hooks, peer, hang, agent, bye, ctxDone, media, lateHook>>

\* NewActiveCall starts the audio processor; Add.
AddCall ==
  /\ Goes("add", "pc")
  /\ processor' = "running" /\ registered' = TRUE
  /\ UNCHANGED <<reqDone, hooks, peer, hang, agent, bye, ctxDone, outbound, track, input, lateHook>>

NewPeerConnection ==
  /\ \/ Goes("pc", "onFinished") /\ pc' = "new" /\ UNCHANGED reqDone
     \/ Fails("pc") /\ UNCHANGED pc
  /\ UNCHANGED <<registered, hooks, pending, hang, agent, bye, ctxDone, media, lateHook>>

\* activeCall.OnFinished = ..., without the call's mutex.
SetOnFinished ==
  /\ Goes("onFinished", "hook")
  /\ onFinished' = TRUE
  /\ UNCHANGED <<reqDone, registered, hook, peer, hang, agent, bye, ctxDone, media, lateHook>>

SetHook ==
  /\ Goes("hook", "tracks")
  /\ hook' = TRUE
  /\ UNCHANGED <<reqDone, registered, onFinished, peer, hang, agent, bye, ctxDone, media, lateHook>>

\* The local track (an error when the connection is closed), the outbound goroutine.
AddTrack ==
  /\ \/ Goes("tracks", "describe") /\ pc # "closed" /\ outbound' = "running" /\ UNCHANGED reqDone
     \/ Fails("tracks") /\ UNCHANGED outbound
  /\ UNCHANGED <<registered, hooks, peer, hang, agent, bye, ctxDone, processor, track, input, lateHook>>

\* The remote description, the answer and the local description.
Describe ==
  /\ \/ Goes("describe", "gather") /\ pc # "closed" /\ UNCHANGED reqDone
     \/ Fails("describe")
  /\ UNCHANGED <<registered, hooks, peer, hang, agent, bye, ctxDone, media, lateHook>>

\* <-gatherComplete
Gathered ==
  /\ Goes("gather", "answer")
  /\ UNCHANGED <<reqDone, registered, hooks, peer, hang, agent, bye, ctxDone, media, lateHook>>

Signaled == handler \in {"answer", "reading", "hangup", "returned"}

\* The answer is written, or cannot be.
WriteAnswer ==
  /\ Goes("answer", "reading") \/ Goes("answer", "hangup")
  /\ UNCHANGED <<reqDone, registered, hooks, peer, hang, agent, bye, ctxDone, media, lateHook>>

\* The signaling client disconnects.
ClientLeaves ==
  /\ Goes("reading", "hangup")
  /\ UNCHANGED <<reqDone, registered, hooks, peer, hang, agent, bye, ctxDone, media, lateHook>>

\* The deferred HangupCall has returned, and so does the handler.
HandlerReturns ==
  /\ Goes("hangup", "returned")
  /\ hang["handler"] = "done"
  /\ reqDone' = TRUE
  /\ UNCHANGED <<registered, hooks, peer, hang, agent, bye, ctxDone, media, lateHook>>

----------------------------------------------------------------------------
(* HangupCall                                                               *)

MayHangUp(h) ==
  hang[h] = "idle" /\ IF h = "handler" THEN handler = "hangup" ELSE registered

\* Get; a call that is gone needs nothing.  CloseAll: the agent is let go, the
\* processor runs on.
HangupCloses(h) ==
  /\ MayHangUp(h)
  /\ hang' = [hang EXCEPT ![h] = IF registered THEN "remove" ELSE "done"]
  /\ UNCHANGED <<handler, reqDone, registered, hooks, peer, agent, bye, ctxDone, media, lateHook>>

HangupRemoves(h) ==
  /\ hang[h] = "remove"
  /\ hang' = [hang EXCEPT ![h] = "done"]
  /\ registered' = FALSE
  /\ UNCHANGED <<handler, reqDone, hooks, peer, agent, bye, ctxDone, media, lateHook>>

----------------------------------------------------------------------------
(* The peer connection                                                      *)

\* A new state; its callback, if there is one, runs in a goroutine of its own.
State(s) ==
  /\ pc' = s
  /\ pending' = IF hook THEN pending \cup {s} ELSE pending

\* With the local description the transports start, while candidates are gathered.
Described == handler = "gather" \/ Signaled

PeerConnects ==
  /\ pc = "new" /\ Described
  /\ State("connected")
  /\ track' = "reading"
  /\ UNCHANGED <<handler, reqDone, registered, hooks, hang, agent, bye, ctxDone, processor, outbound,
                 input, lateHook>>

PeerFails ==
  /\ pc \in {"new", "connected"} /\ Described
  /\ State("failed")
  /\ UNCHANGED <<handler, reqDone, registered, hooks, hang, agent, bye, ctxDone, media, lateHook>>

\* pc.Close(), again without effect.
ClosePC == IF pc = "closed" THEN UNCHANGED <<pc, pending>> ELSE State("closed")

\* Mutant: the connection that was closed from this side is not looked at.
EndsCallOnFailedOnly(s) == s = "failed"

EndsCall(s) == s \in {"failed", "closed"}

StateCallback(s) ==
  /\ s \in pending
  /\ IF EndsCall(s)
     THEN /\ registered' = FALSE
          /\ pc' = "closed"
          /\ pending' = (pending \ {s}) \cup IF pc = "closed" THEN {} ELSE {"closed"}
     ELSE pending' = pending \ {s} /\ UNCHANGED <<registered, pc>>
  /\ UNCHANGED <<handler, reqDone, hooks, hang, agent, bye, ctxDone, media, lateHook>>

----------------------------------------------------------------------------
(* The agent and its bye                                                    *)

AgentGoes(from, to) ==
  /\ agent = from /\ agent' = to
  /\ UNCHANGED <<handler, reqDone, registered, hooks, peer, hang, bye, ctxDone, media, lateHook>>

\* GetByInternalID finds a call that is registered; the call may be gone when the
\* agent is attached, which AddClient refuses only when the context is done.
AgentFinds == registered /\ AgentGoes("away", "found")
AgentAttaches == AgentGoes("found", IF ctxDone THEN "away" ELSE "attached")

\* The agent leaves, or its connection is closed behind a CloseAll.
AgentLeaves == AgentGoes("attached", "away")

\* An agent that is attached says bye: EndCall, go Shutdown.  Nobody looks whether
\* the call is still registered, and ReadPump reads on until its connection is
\* closed, which is after CloseAll.
AgentBye ==
  /\ bye = "no" /\ agent = "attached"
  /\ bye' = "ended"
  /\ UNCHANGED <<handler, reqDone, registered, hooks, peer, hang, agent, ctxDone, media, lateHook>>

ShutdownCancels ==
  /\ bye = "ended"
  /\ bye' = "waiting" /\ ctxDone' = TRUE
  /\ UNCHANGED <<handler, reqDone, registered, hooks, peer, hang, agent, media, lateHook>>

\* Mutant: the peer connection is left to the caller.
FinishedDoesNothing == UNCHANGED <<pc, pending>>

\* onFinished(), if it was there.
Finished == IF onFinished THEN ClosePC ELSE UNCHANGED <<pc, pending>>

ShutdownFinishes ==
  /\ bye = "waiting" /\ processor = "exited"
  /\ bye' = "finished"
  /\ Finished
  /\ lateHook' = ~hook
  /\ UNCHANGED <<handler, reqDone, registered, hooks, hang, agent, ctxDone, media>>

----------------------------------------------------------------------------
(* The media goroutines                                                     *)

ProcessorTakes ==
  /\ processor = "running" /\ input > 0
  /\ input' = input - 1
  /\ UNCHANGED <<handler, reqDone, registered, hooks, peer, hang, agent, bye, ctxDone, processor,
                 outbound, track, lateHook>>

\* Nobody closes audioInput: the call's context is the only way out.
ProcessorStops ==
  /\ processor = "running" /\ ctxDone
  /\ processor' = "exited"
  /\ UNCHANGED <<handler, reqDone, registered, hooks, peer, hang, agent, bye, ctxDone, outbound, track,
                 input, lateHook>>

TrackGoes(from, to) ==
  /\ track = from /\ track' = to
  /\ UNCHANGED <<handler, reqDone, registered, hooks, peer, hang, agent, bye, ctxDone, processor,
                 outbound, lateHook>>

TrackReads == pc = "connected" /\ TrackGoes("reading", "pushing") /\ UNCHANGED input
TrackPushes == input < InputCap /\ TrackGoes("pushing", "reading") /\ input' = input + 1

\* ReadRTP fails on a closed connection; or the request is over.
TrackStops ==
  /\ \/ pc = "closed" /\ TrackGoes("reading", "exited")
     \/ reqDone /\ TrackGoes("pushing", "exited")
     \/ reqDone /\ pc = "connected" /\ TrackGoes("reading", "exited")
  /\ UNCHANGED input

OutboundStops ==
  /\ outbound = "running"
  /\ reqDone
  /\ outbound' = "exited"
  /\ UNCHANGED <<handler, reqDone, registered, hooks, peer, hang, agent, bye, ctxDone, processor, track,
                 input, lateHook>>

----------------------------------------------------------------------------
HandlerSteps ==
  PublishEvent \/ AddCall \/ NewPeerConnection \/ SetOnFinished \/ SetHook \/ AddTrack \/ Describe
    \/ WriteAnswer \/ HandlerReturns
HangupSteps == \E h \in Hangers : hang[h] = "remove" /\ HangupRemoves(h)
ShutdownSteps == ShutdownCancels \/ ShutdownFinishes

WRNext ==
  \/ HandlerSteps \/ ClientLeaves
  \/ \E h \in Hangers : HangupCloses(h) \/ HangupRemoves(h)
  \/ PeerConnects \/ PeerFails \/ \E s \in pending : StateCallback(s)
  \/ Gathered \/ AgentFinds \/ AgentAttaches \/ AgentLeaves \/ AgentBye \/ ShutdownSteps
  \/ ProcessorTakes \/ ProcessorStops \/ TrackReads \/ TrackPushes \/ TrackStops \/ OutboundStops

\* Every goroutine that can go on does; a select or a loop that keeps meeting a
\* context that is done sees it.  Caller, agent, peer and application may stay for ever,
\* and nothing is assumed of the gathering of candidates.
WRFairness ==
  /\ WF_wrVars(HandlerSteps)
  /\ WF_wrVars(HangupCloses("handler"))
  /\ WF_wrVars(HangupSteps)
  /\ WF_wrVars(\E s \in pending : StateCallback(s))
  /\ WF_wrVars(ShutdownSteps)
  /\ SF_wrVars(ProcessorStops)
  /\ SF_wrVars(TrackStops)
  /\ WF_wrVars(OutboundStops)

WRFairSpec == WRInit /\ [][WRNext]_wrVars /\ WRFairness

----------------------------------------------------------------------------
\* However a call that was answered ends, by its caller, its peer connection, its
\* agent or the application, it leaves the registry, so that it is not counted, not
\* waited for and not found any more.  Except: an agent's bye whose Shutdown ended
\* before ProcessSignaling had set the callbacks.
AnsweredCallsLeaveTheRegistry ==
  Signaled /\ (handler = "returned" \/ pc = "failed" \/ bye # "no" \/ hang["stopAll"] # "idle")
    ~> ~registered \/ lateHook

\* The agent's bye, also one that comes when another party has ended the call and it
\* is registered no more, stops the audio processor and closes the peer connection,
\* and the goroutine that reads from it ends unless it waits to push (it then ends
\* with the request).  Same exception.
ByeStopsTheMedia ==
  bye # "no" ~> lateHook \/ (/\ processor = "exited"
                             /\ pc = "closed"
                             /\ track \in {"none", "exited", "pushing"})
=============================================================================
