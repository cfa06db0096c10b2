----------------------------- MODULE AudioBridge -----------------------------
(***************************************************************************)
(* The WebSocket side of a call (internal/call/audio_bridge.go) with the     *)
(* HTTP handler that attaches agents to it (HandleUpgrade in                 *)
(* internal/api/http_handler.go): one slot, which an upgrade reserves and a  *)
(* client then fills; a bounded send channel per client, drained by a write  *)
(* pump; and CloseAll, which ends it all.  Sections under b.mu are atomic.   *)
(***************************************************************************)
EXTENDS Integers, Sequences, FiniteSets

CONSTANTS Conns,    \* WebSocket connections, one per upgrade request
          NoConn,   \* the nil *Client
          SendCap,  \* capacity of a client's send channel
          MaxAudio, \* bound: audio and DTMF messages broadcast
          WebRTC    \* a WebRTC call, which HangupCall ends with CloseAll

ASSUME AudioBridgeConstants ==
  /\ NoConn \notin Conns
  /\ IsFiniteSet(Conns)
  /\ SendCap \in Nat \ {0}
  /\ MaxAudio \in Nat
  /\ WebRTC \in BOOLEAN

VARIABLES ctxDone,   \* the call's context is canceled
          ended,     \* EndCall has broadcast call_ended
          processor, \* "running", "closing" (deferred CloseAll), "exited"
          closeOnce, \* CloseAll: "unused", "taken" (client captured), "done"
          evicted,   \* CloseAll's local variable client
          client,    \* b.client
          reserved,  \* b.reserved
          req,       \* req[k]: program counter of the upgrade handler
          sock,      \* sock[k]: "none", "open", "broken" (the peer left), "closed"
          send,      \* send[k]: "none", "open", "closed"
          queue,     \* queue[k]: the messages in the send channel
          pump,      \* pump[k]: the write pump
          got,       \* got[k]: the kinds of message the agent received
          wsConns,   \* the metric of connected agents
          audio,     \* audio and DTMF messages broadcast so far
          atEnd,     \* history: the client when call_ended was broadcast
          queued,    \* history: it found room, and the client's ReadPump in its loop
          dropped    \* history: connections the peer or the network dropped

slot == <<client, reserved>>
ends == <<ctxDone, ended, processor, closeOnce, evicted>>
chans == <<send, queue, wsConns>>
history == <<audio, atEnd, queued, dropped>>
abVars == <<ctxDone, ended, processor, closeOnce, evicted, client, reserved, req, sock, send,
            queue, pump, got, wsConns, audio, atEnd, queued, dropped>>

ABInit ==
  /\ ctxDone = FALSE /\ ended = FALSE
  /\ processor = "running" /\ closeOnce = "unused" /\ evicted = NoConn
  /\ client = NoConn /\ reserved = FALSE
  /\ req = [k \in Conns |-> "idle"]
  /\ sock = [k \in Conns |-> "none"]
  /\ send = [k \in Conns |-> "none"]
  /\ queue = [k \in Conns |-> <<>>]
  /\ pump = [k \in Conns |-> "none"]
  /\ got = [k \in Conns |-> {}]
  /\ wsConns = 0
  /\ audio = 0 /\ atEnd = NoConn /\ queued = FALSE /\ dropped = {}

ReqGoes(k, from, to) ==
  /\ req[k] = from
  /\ req' = [req EXCEPT ![k] = to]

\* close(client.send), under client.disconnect
CloseSend(k) ==
  /\ send' = [send EXCEPT ![k] = "closed"]
  /\ wsConns' = wsConns - 1

----------------------------------------------------------------------------
(* HandleUpgrade                                                            *)

\* Mutant: an upgrade in progress does not count.
SlotTakenByClientOnly == client # NoConn

SlotTaken == client # NoConn \/ reserved

\* 409: the call has a listener already.
Conflict(k) ==
  /\ SlotTaken
  /\ ReqGoes(k, "idle", "conflict")
  /\ UNCHANGED <<ends, slot, sock, chans, pump, got, history>>

TryLock(k) ==
  /\ ~SlotTaken
  /\ ReqGoes(k, "idle", "upgrading")
  /\ reserved' = TRUE
  /\ UNCHANGED <<ends, client, sock, chans, pump, got, history>>

\* Upgrade fails: Unlock.
UpgradeFails(k) ==
  /\ ReqGoes(k, "upgrading", "done")
  /\ reserved' = FALSE
  /\ UNCHANGED <<ends, client, sock, chans, pump, got, history>>

UpgradeOK(k) ==
  /\ ReqGoes(k, "upgrading", "headers")
  /\ sock' = [sock EXCEPT ![k] = "open"]
  /\ UNCHANGED <<ends, slot, chans, pump, got, history>>

HeadersOK(k) ==
  /\ sock[k] = "open"
  /\ ReqGoes(k, "headers", "adding")
  /\ UNCHANGED <<ends, slot, sock, chans, pump, got, history>>

\* WriteJSON fails: the handler returns, closing the socket and nothing else.
HeadersFail(k) ==
  /\ sock[k] = "broken"
  /\ ReqGoes(k, "headers", "done")
  /\ sock' = [sock EXCEPT ![k] = "closed"]
  /\ UNCHANGED <<ends, slot, chans, pump, got, history>>

\* Mutant: AddClient does not look at the context.
RefusedByClientOnly(k) == client # NoConn

\* AddClient's early returns.
Refused(k) == ctxDone \/ client # NoConn

AddClientRefused(k) ==
  /\ Refused(k)
  /\ ReqGoes(k, "adding", "reading")
  /\ sock' = [sock EXCEPT ![k] = "closed"]
  /\ UNCHANGED <<ends, slot, chans, pump, got, history>>

\* The client fills the slot, the metadata message is queued, the pump starts.
AddClient(k) ==
  /\ ~Refused(k)
  /\ ReqGoes(k, "adding", "reading")
  /\ client' = k
  /\ reserved' = FALSE
  /\ send' = [send EXCEPT ![k] = "open"]
  /\ queue' = [queue EXCEPT ![k] = <<"metadata">>]
  /\ pump' = [pump EXCEPT ![k] = "running"]
  /\ wsConns' = wsConns + 1
  /\ UNCHANGED <<ends, sock, got, history>>

----------------------------------------------------------------------------
(* ReadPump and RemoveClient                                                *)

\* Mutant: the client is removed without looking whose it is.
IsClientAnyone(k) == client # NoConn

IsClient(k) == client = k

RemoveClient(k) ==
  IF IsClient(k)
  THEN /\ client' = NoConn
       /\ reserved' = FALSE
       /\ CloseSend(k)
       /\ UNCHANGED queue
  ELSE UNCHANGED <<slot, chans>>

\* c := b.client; another client, or none: return at once.
ReadStart(k) ==
  /\ ReqGoes(k, "reading", IF client = k THEN "loop" ELSE "leaving")
  /\ UNCHANGED <<ends, slot, sock, chans, pump, got, history>>

\* NextReader fails: the peer left, or the pump closed the socket.  What the agent
\* sends before that goes to the RTP writer and to the call's callbacks.
ReadFails(k) ==
  /\ sock[k] # "open"
  /\ ReqGoes(k, "loop", "leaving")
  /\ UNCHANGED <<ends, slot, sock, chans, pump, got, history>>

\* The deferred RemoveClient, then the handler's deferred ws.Close.
Leave(k) ==
  /\ ReqGoes(k, "leaving", "done")
  /\ RemoveClient(k)
  /\ sock' = [sock EXCEPT ![k] = "closed"]
  /\ UNCHANGED <<ends, pump, got, history>>

\* The agent or the network closes the connection.
PeerDrops(k) ==
  /\ sock[k] = "open"
  /\ sock' = [sock EXCEPT ![k] = "broken"]
  /\ dropped' = dropped \cup {k}
  /\ UNCHANGED <<ends, slot, req, chans, pump, got, audio, atEnd, queued>>

----------------------------------------------------------------------------
(* writePump                                                                *)

PumpGoes(k, from, to) ==
  /\ pump[k] = from
  /\ pump' = [pump EXCEPT ![k] = to]

PumpWrite(k) ==
  /\ pump[k] = "running" /\ queue[k] # <<>> /\ sock[k] = "open"
  /\ got' = [got EXCEPT ![k] = @ \cup {Head(queue[k])}]
  /\ queue' = [queue EXCEPT ![k] = Tail(@)]
  /\ UNCHANGED <<ends, slot, req, sock, send, wsConns, pump, history>>

\* A message or a ping cannot be written.
PumpFails(k) ==
  /\ sock[k] # "open"
  /\ PumpGoes(k, "running", "draining")
  /\ sock' = [sock EXCEPT ![k] = "closed"]
  /\ UNCHANGED <<ends, slot, req, chans, got, history>>

\* Mutant: the pump leaves as soon as the channel is closed.
NothingLeftToSendClosed(k) == send[k] = "closed"

\* A receive reports the close only after the buffered messages.
NothingLeftToSend(k) == send[k] = "closed" /\ queue[k] = <<>>

PumpCloses(k) ==
  /\ NothingLeftToSend(k)
  /\ PumpGoes(k, "running", "draining")
  /\ sock' = [sock EXCEPT ![k] = "closed"]
  /\ UNCHANGED <<ends, slot, req, chans, got, history>>

\* The deferred loop empties the channel ...
PumpDrains(k) ==
  /\ PumpGoes(k, "draining", "removing")
  /\ queue' = [queue EXCEPT ![k] = <<>>]
  /\ UNCHANGED <<ends, slot, req, sock, send, wsConns, got, history>>

\* ... and then calls remove(); a broadcast may come between the two.
PumpRemoves(k) ==
  /\ PumpGoes(k, "removing", "exited")
  /\ RemoveClient(k)
  /\ UNCHANGED <<ends, req, sock, got, history>>

----------------------------------------------------------------------------
(* broadcast                                                                *)

HasRoom == Len(queue[client]) < SendCap

\* Under b.mu.RLock: a send that does not block, or the message is dropped.
Broadcast(msg) ==
  IF client # NoConn /\ HasRoom
  THEN queue' = [queue EXCEPT ![client] = Append(@, msg)]
  ELSE UNCHANGED queue

BroadcastAudio ==
  /\ processor = "running" /\ audio < MaxAudio
  /\ audio' = audio + 1
  /\ Broadcast("audio")
  /\ UNCHANGED <<ends, slot, req, sock, send, wsConns, pump, got, atEnd, queued, dropped>>

\* The RTP reader has received a digit, or is still at it when the call ends.
BroadcastDTMF ==
  /\ audio < MaxAudio
  /\ audio' = audio + 1
  /\ Broadcast("dtmf")
  /\ UNCHANGED <<ends, slot, req, sock, send, wsConns, pump, got, atEnd, queued, dropped>>

\* EndCall's BroadcastCallEnded.
BroadcastCallEnded ==
  /\ ~ended
  /\ ended' = TRUE
  /\ Broadcast("call_ended")
  /\ atEnd' = client
  /\ queued' = (client # NoConn /\ HasRoom /\ req[client] = "loop")
  /\ UNCHANGED <<ctxDone, processor, closeOnce, evicted, slot, req, sock, send, wsConns, pump,
                 got, audio, dropped>>

----------------------------------------------------------------------------
(* The end of the call                                                      *)

\* Shutdown cancels the context.
Cancel ==
  /\ ended /\ ~ctxDone
  /\ ctxDone' = TRUE
  /\ UNCHANGED <<ended, processor, closeOnce, evicted, slot, req, sock, chans, pump, got, history>>

\* runAudioProcessor sees the context and runs its deferred CloseAll.
ProcessorLeaves ==
  /\ processor = "running" /\ ctxDone
  /\ processor' = "closing"
  /\ UNCHANGED <<ctxDone, ended, closeOnce, evicted, slot, req, sock, chans, pump, got, history>>

\* Mutant: the client stays in the slot until its channel is closed.
ClientAfterTake == client

\* b.client = nil
ClientTaken == NoConn

\* The section of CloseAll under b.mu, by the processor or by HangupCall.
CloseAllTakes ==
  /\ closeOnce = "unused"
  /\ processor = "closing" \/ WebRTC
  /\ closeOnce' = "taken"
  /\ evicted' = client
  /\ client' = ClientTaken
  /\ reserved' = FALSE
  /\ UNCHANGED <<ctxDone, ended, processor, req, sock, chans, pump, got, history>>

\* After the unlock: close(client.send), and the recorder is closed.
CloseAllCloses ==
  /\ closeOnce = "taken"
  /\ closeOnce' = "done"
  /\ IF evicted = NoConn THEN UNCHANGED <<send, wsConns>> ELSE CloseSend(evicted)
  /\ UNCHANGED <<ctxDone, ended, processor, evicted, slot, req, sock, queue, pump, got, history>>

\* closeOnce.Do returns to the processor.
ProcessorExits ==
  /\ processor = "closing" /\ closeOnce = "done"
  /\ processor' = "exited"
  /\ UNCHANGED <<ctxDone, ended, closeOnce, evicted, slot, req, sock, chans, pump, got, history>>

----------------------------------------------------------------------------
Handler(k) ==
  \/ UpgradeFails(k) \/ UpgradeOK(k) \/ HeadersOK(k) \/ HeadersFail(k)
  \/ AddClientRefused(k) \/ AddClient(k)
  \/ ReadStart(k) \/ ReadFails(k) \/ Leave(k)
Pump(k) == PumpWrite(k) \/ PumpFails(k) \/ PumpCloses(k) \/ PumpDrains(k) \/ PumpRemoves(k)
Closing == ProcessorLeaves \/ CloseAllCloses \/ ProcessorExits

ABNext ==
  \/ \E k \in Conns : Conflict(k) \/ TryLock(k) \/ Handler(k) \/ Pump(k) \/ PeerDrops(k)
  \/ BroadcastAudio \/ BroadcastDTMF \/ BroadcastCallEnded \/ Cancel
  \/ Closing \/ CloseAllTakes

ABSpec == ABInit /\ [][ABNext]_abVars

\* Handlers and pumps that can go on do so; EndCall is followed by Shutdown; the
\* processor sees a canceled context.  Agents, callers and HangupCall need not act.
ABFairness ==
  /\ \A k \in Conns : WF_abVars(Handler(k)) /\ WF_abVars(Pump(k))
  /\ WF_abVars(Cancel)
  /\ WF_abVars(Closing)
  /\ WF_abVars(processor = "closing" /\ CloseAllTakes)

ABFairSpec == ABSpec /\ ABFairness

----------------------------------------------------------------------------
\* A broadcast never meets a closed channel (a send on one panics), and a channel
\* is open only while its client is attached or CloseAll is about to close it:
\* no agent is left behind with a channel nobody will close.
OpenChannelsAreOwned ==
  /\ client # NoConn => send[client] = "open"
  /\ closeOnce = "taken" /\ evicted # NoConn => send[evicted] = "open" /\ evicted # client
  /\ \A k \in Conns : send[k] = "open" => k = client \/ (closeOnce = "taken" /\ k = evicted)

\* The metric counts each agent up once and down once, though a read error, a
\* write error and CloseAll may all report the same end.
GaugeCountsOpenChannels == wsConns = Cardinality({ k \in Conns : send[k] = "open" })

\* Until CloseAll resets the slot, one agent at a time is past TryLock: two upgrades
\* never race to AddClient, and none is under way while a client is attached.
UpgradesExclusive ==
  closeOnce = "unused" =>
    \A k \in Conns : req[k] \in {"upgrading", "headers", "adding"} =>
      /\ client = NoConn /\ reserved
      /\ \A j \in Conns \ {k} : req[j] \notin {"upgrading", "headers", "adding"}

\* What broadcast queued for the agent when the call ended reaches it before the
\* socket is closed, unless the agent was gone.  (The agent's ReadPump must have
\* begun: one that starts after CloseAll finds no client, and its handler closes
\* the socket under the write pump.)
QueuedNoticeIsDelivered ==
  queued /\ pump[atEnd] = "exited" /\ atEnd \notin dropped =>
    "call_ended" \in got[atEnd]

\* When the call's context is canceled, every agent is let go, one that is in the
\* middle of an upgrade too: no handler, pump or channel outlives the call.
EveryAgentLetGo ==
  ctxDone ~>
    /\ client = NoConn /\ processor = "exited"
    /\ \A k \in Conns : /\ req[k] \in {"idle", "conflict", "done"}
                        /\ send[k] # "open"
                        /\ pump[k] \in {"none", "exited"}

----------------------------------------------------------------------------
(* What the docs say, and the code does not do.                             *)

\* docs/websocket-api-spec.md:174 "Reconnect immediately using the same URL": on a
\* live call without a client or an upgrade under way, the slot is free.
SlotIsReusable ==
  /\ ~ctxDone /\ client = NoConn
  /\ \A k \in Conns : req[k] \notin {"upgrading", "headers", "adding"}
  => ~reserved
=============================================================================
