-------------------------- MODULE AudioBridgeProofs --------------------------
(* Proofs about the audio bridge, for any number of connections, any capacity   *)
(* of the send channel, and for SIP calls and WebRTC calls alike.               *)
EXTENDS AudioBridge, FiniteSetTheorems, TLAPS

\* The part of the state the slot and the channels consist of.
owned == <<client, reserved, req, send, wsConns, closeOnce, evicted>>

Upgrading == {"upgrading", "headers", "adding"}
Attached == {"reading", "loop", "leaving", "done"}
ReqStates == {"idle", "conflict"} \cup Upgrading \cup Attached
SendStates == {"none", "open", "closed"}

OwnedTypes ==
  /\ client \in Conns \cup {NoConn}
  /\ evicted \in Conns \cup {NoConn}
  /\ req \in [Conns -> ReqStates]
  /\ send \in [Conns -> SendStates]
  /\ wsConns \in Int

\* A connection that is the client, or that CloseAll took, is past AddClient: it
\* never comes to AddClient again.
ClientsArePastAdd ==
  /\ client # NoConn => req[client] \in Attached
  /\ evicted # NoConn => req[evicted] \in Attached

OpenChannels == { k \in Conns : send[k] = "open" }

BridgeInv ==
  /\ OwnedTypes
  /\ ClientsArePastAdd
  /\ OpenChannelsAreOwned
  /\ GaugeCountsOpenChannels
  /\ UpgradesExclusive

LEMMA BridgeInitInv == ABInit => BridgeInv
<1> SUFFICES ASSUME ABInit PROVE BridgeInv
  OBVIOUS
<1>1. OwnedTypes
  BY DEF ABInit, OwnedTypes, ReqStates, SendStates
<1>2. ClientsArePastAdd /\ OpenChannelsAreOwned /\ UpgradesExclusive
  BY DEF ABInit, ClientsArePastAdd, OpenChannelsAreOwned, UpgradesExclusive
<1>3. GaugeCountsOpenChannels
  <2>1. { k \in Conns : send[k] = "open" } = {}
    BY DEF ABInit
  <2>2. Cardinality({}) = 0
    BY FS_EmptySet
  <2> QED BY <2>1, <2>2 DEF ABInit, GaugeCountsOpenChannels
<1> QED BY <1>1, <1>2, <1>3 DEF BridgeInv

LEMMA OpenChannelsFinite == IsFiniteSet(OpenChannels) /\ Cardinality(OpenChannels) \in Nat
BY AudioBridgeConstants, FS_Subset, FS_CardinalityType DEF OpenChannels

\* A step that touches neither the slot nor a channel.
LEMMA FrameInv ==
  ASSUME BridgeInv, UNCHANGED owned
  PROVE  BridgeInv'
BY DEF BridgeInv, owned, OwnedTypes, ClientsArePastAdd, OpenChannelsAreOwned,
       GaugeCountsOpenChannels, UpgradesExclusive

\* A handler that goes on without the slot: it may not enter an upgrade, nor come
\* back from its ReadPump.
LEMMA ReqInv ==
  ASSUME BridgeInv, NEW k \in Conns, NEW to \in ReqStates,
         req' = [req EXCEPT ![k] = to],
         to \in Upgrading => req[k] \in Upgrading,
         req[k] \in Attached => to \in Attached,
         UNCHANGED <<client, reserved, send, wsConns, closeOnce, evicted>>
  PROVE  BridgeInv'
<1> USE DEF BridgeInv
<1>1. OwnedTypes'
  BY DEF OwnedTypes
<1>2. ClientsArePastAdd'
  BY DEF OwnedTypes, ClientsArePastAdd
<1>3. OpenChannelsAreOwned' /\ GaugeCountsOpenChannels'
  BY DEF OpenChannelsAreOwned, GaugeCountsOpenChannels
<1>4. UpgradesExclusive'
  BY DEF OwnedTypes, UpgradesExclusive, Upgrading
<1> QED BY <1>1, <1>2, <1>3, <1>4

LEMMA TryLockInv ==
  ASSUME BridgeInv, NEW k \in Conns, TryLock(k)
  PROVE  BridgeInv'
<1> USE DEF BridgeInv
<1>1. /\ req[k] = "idle" /\ req' = [req EXCEPT ![k] = "upgrading"]
      /\ client = NoConn /\ ~reserved /\ reserved'
      /\ UNCHANGED <<client, send, wsConns, closeOnce, evicted>>
  BY DEF TryLock, ReqGoes, SlotTaken, ends, chans
<1>2. OwnedTypes'
  BY <1>1 DEF OwnedTypes, ReqStates, Upgrading
<1>3. ClientsArePastAdd'
  BY <1>1 DEF OwnedTypes, ClientsArePastAdd, Attached
<1>4. OpenChannelsAreOwned' /\ GaugeCountsOpenChannels'
  BY <1>1 DEF OpenChannelsAreOwned, GaugeCountsOpenChannels
<1>5. UpgradesExclusive'
  BY <1>1 DEF OwnedTypes, UpgradesExclusive
<1> QED BY <1>2, <1>3, <1>4, <1>5

LEMMA UpgradeFailsInv ==
  ASSUME BridgeInv, NEW k \in Conns, UpgradeFails(k)
  PROVE  BridgeInv'
<1> USE DEF BridgeInv
<1>1. /\ req[k] = "upgrading" /\ req' = [req EXCEPT ![k] = "done"]
      /\ UNCHANGED <<client, send, wsConns, closeOnce, evicted>>
  BY DEF UpgradeFails, ReqGoes, ends, chans
<1>2. OwnedTypes'
  BY <1>1 DEF OwnedTypes, ReqStates, Attached
<1>3. ClientsArePastAdd'
  BY <1>1 DEF OwnedTypes, ClientsArePastAdd, Attached
<1>4. OpenChannelsAreOwned' /\ GaugeCountsOpenChannels'
  BY <1>1 DEF OpenChannelsAreOwned, GaugeCountsOpenChannels
<1>5. UpgradesExclusive'
  BY <1>1 DEF OwnedTypes, UpgradesExclusive
<1> QED BY <1>2, <1>3, <1>4, <1>5

LEMMA AddClientInv ==
  ASSUME BridgeInv, NEW k \in Conns, AddClient(k)
  PROVE  BridgeInv'
<1> USE DEF BridgeInv
<1>1. /\ req[k] = "adding" /\ req' = [req EXCEPT ![k] = "reading"]
      /\ client = NoConn /\ client' = k
      /\ send' = [send EXCEPT ![k] = "open"]
      /\ wsConns' = wsConns + 1
      /\ UNCHANGED <<closeOnce, evicted>>
  BY DEF AddClient, Refused, ReqGoes, ends
<1>2. k # NoConn /\ k # evicted
  BY <1>1, AudioBridgeConstants DEF ClientsArePastAdd, Attached
<1>3. OwnedTypes'
  BY <1>1 DEF OwnedTypes, ReqStates, Attached, SendStates
<1>4. ClientsArePastAdd'
  BY <1>1, <1>2 DEF OwnedTypes, ClientsArePastAdd, Attached
<1>5. OpenChannelsAreOwned'
  <2>1. send'[k] = "open" /\ client' = k
    BY <1>1 DEF OwnedTypes
  <2>2. closeOnce = "taken" /\ evicted # NoConn => send'[evicted] = "open" /\ evicted # client'
    BY <1>1, <1>2 DEF OwnedTypes, OpenChannelsAreOwned
  <2>3. ASSUME NEW j \in Conns, send'[j] = "open"
        PROVE  j = client' \/ (closeOnce = "taken" /\ j = evicted)
    <3>1. CASE j = k
      BY <1>1, <3>1
    <3>2. CASE j # k
      <4>1. send[j] = "open"
        BY <1>1, <2>3, <3>2 DEF OwnedTypes
      <4>2. j # client
        BY <1>1, AudioBridgeConstants
      <4> QED BY <4>1, <4>2 DEF OpenChannelsAreOwned
    <3> QED BY <3>1, <3>2
  <2> QED BY <1>1, <2>1, <2>2, <2>3 DEF OpenChannelsAreOwned
<1>6. GaugeCountsOpenChannels'
  <2>1. k \notin OpenChannels
    BY <1>1, <1>2 DEF OpenChannels, OpenChannelsAreOwned
  <2>2. OpenChannels' = OpenChannels \cup {k}
    BY <1>1 DEF OpenChannels, OwnedTypes
  <2>3. Cardinality(OpenChannels \cup {k}) = Cardinality(OpenChannels) + 1
    BY <2>1, OpenChannelsFinite, FS_AddElement
  <2> QED BY <1>1, <2>2, <2>3, OpenChannelsFinite DEF GaugeCountsOpenChannels, OpenChannels
<1>7. UpgradesExclusive'
  BY <1>1 DEF OwnedTypes, UpgradesExclusive
<1> QED BY <1>3, <1>4, <1>5, <1>6, <1>7

\* Closing a channel that is open takes one from the gauge.
LEMMA CloseSendCounts ==
  ASSUME BridgeInv, NEW k \in Conns, send[k] = "open", CloseSend(k)
  PROVE  GaugeCountsOpenChannels'
<1> USE DEF BridgeInv
<1>1. k \in OpenChannels /\ OpenChannels' = OpenChannels \ {k}
  BY DEF CloseSend, OpenChannels, OwnedTypes
<1>2. Cardinality(OpenChannels \ {k}) = Cardinality(OpenChannels) - 1
  BY <1>1, OpenChannelsFinite, FS_RemoveElement
<1> QED BY <1>1, <1>2, OpenChannelsFinite
      DEF CloseSend, GaugeCountsOpenChannels, OpenChannels

LEMMA RemoveClientInv ==
  ASSUME BridgeInv, NEW k \in Conns, RemoveClient(k),
         UNCHANGED req \/ (req[k] = "leaving" /\ req' = [req EXCEPT ![k] = "done"]),
         UNCHANGED <<closeOnce, evicted>>
  PROVE  BridgeInv'
<1> USE DEF BridgeInv
<1>1. CASE client # k
  <2>1. UNCHANGED <<client, reserved, send, wsConns>>
    BY <1>1 DEF RemoveClient, IsClient, slot, chans
  <2>2. CASE UNCHANGED req
    BY <2>1, <2>2, FrameInv DEF owned
  <2>3. CASE req[k] = "leaving" /\ req' = [req EXCEPT ![k] = "done"]
    BY <2>1, <2>3, ReqInv DEF ReqStates, Attached, Upgrading
  <2> QED BY <2>2, <2>3
<1>2. CASE client = k
  <2>1. /\ client' = NoConn
        /\ send' = [send EXCEPT ![k] = "closed"]
        /\ wsConns' = wsConns - 1
        /\ CloseSend(k)
    BY <1>2 DEF RemoveClient, IsClient, CloseSend
  <2>2. k # NoConn /\ send[k] = "open"
    BY <1>2, AudioBridgeConstants DEF OpenChannelsAreOwned
  <2>3. OwnedTypes'
    BY <2>1 DEF OwnedTypes, ReqStates, Attached, SendStates
  <2>4. ClientsArePastAdd'
    BY <2>1 DEF OwnedTypes, ClientsArePastAdd, Attached
  <2>5. OpenChannelsAreOwned'
    BY <1>2, <2>1, <2>2 DEF OwnedTypes, OpenChannelsAreOwned
  <2>6. GaugeCountsOpenChannels'
    BY <2>1, <2>2, CloseSendCounts
  <2>7. UpgradesExclusive'
    BY <1>2, <2>2 DEF OwnedTypes, UpgradesExclusive
  <2> QED BY <2>3, <2>4, <2>5, <2>6, <2>7
<1> QED BY <1>1, <1>2

LEMMA CloseAllTakesInv ==
  ASSUME BridgeInv, CloseAllTakes
  PROVE  BridgeInv'
<1> USE DEF BridgeInv
<1>1. /\ closeOnce = "unused" /\ closeOnce' = "taken"
      /\ evicted' = client /\ client' = NoConn
      /\ UNCHANGED <<req, send, wsConns>>
  BY DEF CloseAllTakes, ClientTaken, chans
<1>2. OwnedTypes' /\ ClientsArePastAdd'
  BY <1>1 DEF OwnedTypes, ClientsArePastAdd
<1>3. OpenChannelsAreOwned'
  BY <1>1 DEF OpenChannelsAreOwned
<1>4. GaugeCountsOpenChannels' /\ UpgradesExclusive'
  BY <1>1 DEF GaugeCountsOpenChannels, UpgradesExclusive
<1> QED BY <1>2, <1>3, <1>4

LEMMA CloseAllClosesInv ==
  ASSUME BridgeInv, CloseAllCloses
  PROVE  BridgeInv'
<1> USE DEF BridgeInv
<1>1. /\ closeOnce = "taken" /\ closeOnce' = "done"
      /\ UNCHANGED <<client, req, evicted>>
  BY DEF CloseAllCloses, slot
<1>2. CASE evicted = NoConn
  <2>1. UNCHANGED <<send, wsConns>>
    BY <1>2 DEF CloseAllCloses
  <2>2. OwnedTypes' /\ ClientsArePastAdd' /\ GaugeCountsOpenChannels' /\ UpgradesExclusive'
    BY <1>1, <2>1 DEF OwnedTypes, ClientsArePastAdd, GaugeCountsOpenChannels, UpgradesExclusive
  <2>3. OpenChannelsAreOwned'
    BY <1>1, <1>2, <2>1, AudioBridgeConstants DEF OpenChannelsAreOwned
  <2> QED BY <2>2, <2>3
<1>3. CASE evicted # NoConn
  <2>1. evicted \in Conns /\ send[evicted] = "open" /\ evicted # client
    BY <1>1, <1>3 DEF OwnedTypes, OpenChannelsAreOwned
  <2>2. CloseSend(evicted)
    BY <1>3 DEF CloseAllCloses
  <2>3. OwnedTypes' /\ ClientsArePastAdd' /\ UpgradesExclusive'
    BY <1>1, <2>1, <2>2 DEF CloseSend, OwnedTypes, ClientsArePastAdd, UpgradesExclusive, SendStates
  <2>4. OpenChannelsAreOwned'
    BY <1>1, <2>1, <2>2 DEF CloseSend, OwnedTypes, OpenChannelsAreOwned
  <2>5. GaugeCountsOpenChannels'
    BY <2>1, <2>2, CloseSendCounts
  <2> QED BY <2>3, <2>4, <2>5
<1> QED BY <1>2, <1>3

LEMMA BridgeStepInv == BridgeInv /\ [ABNext]_abVars => BridgeInv'
<1> SUFFICES ASSUME BridgeInv, [ABNext]_abVars PROVE BridgeInv'
  OBVIOUS
<1>1. CASE UNCHANGED abVars
  BY <1>1, FrameInv DEF abVars, owned
<1>2. CASE \E k \in Conns : Conflict(k) \/ TryLock(k) \/ Handler(k) \/ Pump(k) \/ PeerDrops(k)
  <2> PICK k \in Conns : Conflict(k) \/ TryLock(k) \/ Handler(k) \/ Pump(k) \/ PeerDrops(k)
    BY <1>2
  <2>1. CASE Conflict(k) \/ UpgradeOK(k) \/ HeadersOK(k) \/ HeadersFail(k)
               \/ AddClientRefused(k) \/ ReadFails(k)
    <3>1. PICK to \in ReqStates :
            /\ req' = [req EXCEPT ![k] = to]
            /\ to \in Upgrading => req[k] \in Upgrading
            /\ req[k] \in Attached => to \in Attached
      BY <2>1 DEF Conflict, UpgradeOK, HeadersOK, HeadersFail, AddClientRefused, ReadFails,
                  ReqGoes, ReqStates, Upgrading, Attached
    <3>2. UNCHANGED <<client, reserved, send, wsConns, closeOnce, evicted>>
      BY <2>1 DEF Conflict, UpgradeOK, HeadersOK, HeadersFail, AddClientRefused, ReadFails,
                  ends, slot, chans
    <3> QED BY <3>1, <3>2, ReqInv
  <2>2. CASE ReadStart(k)
    <3>1. PICK to \in Attached : req' = [req EXCEPT ![k] = to]
      BY <2>2 DEF ReadStart, ReqGoes, Attached
    <3>2. UNCHANGED <<client, reserved, send, wsConns, closeOnce, evicted>>
      BY <2>2 DEF ReadStart, ends, slot, chans
    <3>3. to \in ReqStates /\ to \notin Upgrading
      BY <3>1 DEF ReqStates, Attached, Upgrading
    <3> QED BY <3>1, <3>2, <3>3, ReqInv
  <2>3. CASE TryLock(k)
    BY <2>3, TryLockInv
  <2>4. CASE UpgradeFails(k)
    BY <2>4, UpgradeFailsInv
  <2>5. CASE AddClient(k)
    BY <2>5, AddClientInv
  <2>6. CASE Leave(k) \/ PumpRemoves(k)
    BY <2>6, RemoveClientInv DEF Leave, PumpRemoves, ReqGoes, ends
  <2>7. CASE PumpWrite(k) \/ PumpFails(k) \/ PumpCloses(k) \/ PumpDrains(k) \/ PeerDrops(k)
    BY <2>7, FrameInv DEF PumpWrite, PumpFails, PumpCloses, PumpDrains, PeerDrops, ends, slot,
                          chans, owned
  <2> QED BY <2>1, <2>2, <2>3, <2>4, <2>5, <2>6, <2>7 DEF Handler, Pump
<1>3. CASE BroadcastAudio \/ BroadcastDTMF \/ BroadcastCallEnded \/ Cancel \/ ProcessorLeaves
           \/ ProcessorExits
  BY <1>3, FrameInv DEF BroadcastAudio, BroadcastDTMF, BroadcastCallEnded, Cancel,
                        ProcessorLeaves, ProcessorExits, ends, slot, chans, owned
<1>4. CASE CloseAllTakes
  BY <1>4, CloseAllTakesInv
<1>5. CASE CloseAllCloses
  BY <1>5, CloseAllClosesInv
<1> QED BY <1>1, <1>2, <1>3, <1>4, <1>5 DEF ABNext, Closing

LEMMA BridgeInvHolds == ABSpec => []BridgeInv
BY BridgeInitInv, BridgeStepInv, PTL DEF ABSpec

\* No broadcast of audio_bridge.go sends on a closed channel and no agent is left with
\* a channel that neither RemoveClient nor CloseAll will close.
THEOREM ChannelsAreOwned == ABSpec => []OpenChannelsAreOwned
<1>1. BridgeInv => OpenChannelsAreOwned
  BY DEF BridgeInv
<1> QED BY <1>1, BridgeInvHolds, PTL

\* The gauge of connected agents, which RemoveClient and CloseAll both decrement,
\* is exact: no close is counted twice or not at all.
THEOREM AgentGaugeIsExact == ABSpec => []GaugeCountsOpenChannels
<1>1. BridgeInv => GaugeCountsOpenChannels
  BY DEF BridgeInv
<1> QED BY <1>1, BridgeInvHolds, PTL

\* TryLock's reservation keeps a second upgrade out from the check until AddClient,
\* as long as the call is not being closed.
THEOREM OneUpgradeAtATime == ABSpec => []UpgradesExclusive
<1>1. BridgeInv => UpgradesExclusive
  BY DEF BridgeInv
<1> QED BY <1>1, BridgeInvHolds, PTL
----------------------------------------------------------------------------
(* The notice of the end                                                    *)

Kinds == {"metadata", "audio", "dtmf", "call_ended"}

DeliveryTypes ==
  /\ sock \in [Conns -> {"none", "open", "broken", "closed"}]
  /\ queue \in [Conns -> Seq(Kinds)]
  /\ pump \in [Conns -> {"none", "running", "draining", "removing", "exited"}]
  /\ got \in [Conns -> SUBSET Kinds]
  /\ ended \in BOOLEAN /\ queued \in BOOLEAN

\* As long as a peer does not drop the connection, its socket stays open from the
\* upgrade until it is no longer the client, and the client's pump, started by
\* AddClient, runs.
SocketsStayOpen ==
  \A k \in Conns \ dropped :
    /\ req[k] \notin Attached => pump[k] = "none"
    /\ req[k] \in {"headers", "adding"} => sock[k] = "open"
    /\ client = k => sock[k] = "open" /\ pump[k] = "running" /\ req[k] \in {"reading", "loop"}

NoticeIn(q) == \E i \in 1..Len(q) : q[i] = "call_ended"

\* The notice is in the channel or has arrived, and while it is in the channel the
\* pump writes to an open socket.
NoticeTravels ==
  queued =>
    /\ ended /\ atEnd \in Conns /\ req[atEnd] \in Attached
    /\ atEnd \notin dropped /\ "call_ended" \notin got[atEnd] =>
         /\ pump[atEnd] = "running" /\ sock[atEnd] = "open" /\ req[atEnd] = "loop"
         /\ NoticeIn(queue[atEnd])

DeliveryInv ==
  /\ DeliveryTypes
  /\ SocketsStayOpen
  /\ NoticeTravels

delivery == <<sock, queue, pump, got, ended, queued, atEnd, dropped>>

LEMMA DeliveryInit == ABInit => DeliveryInv
<1> SUFFICES ASSUME ABInit PROVE DeliveryInv
  OBVIOUS
<1>1. DeliveryTypes
  <2>1. <<>> \in Seq(Kinds) /\ {} \in SUBSET Kinds
    OBVIOUS
  <2> QED BY <2>1 DEF ABInit, DeliveryTypes
<1>2. SocketsStayOpen /\ NoticeTravels
  BY AudioBridgeConstants DEF ABInit, SocketsStayOpen, NoticeTravels
<1> QED BY <1>1, <1>2 DEF DeliveryInv

LEMMA DeliveryFrame ==
  ASSUME DeliveryInv, UNCHANGED <<delivery, client, req>>
  PROVE  DeliveryInv'
BY DEF DeliveryInv, delivery, DeliveryTypes, SocketsStayOpen, NoticeTravels, NoticeIn

\* A handler goes on, without touching its socket: only a broken or closed socket, or
\* a slot that is not its own, takes it out of its loop.
LEMMA HandlerDelivery ==
  ASSUME BridgeInv, DeliveryInv, NEW k \in Conns,
         Conflict(k) \/ TryLock(k) \/ UpgradeFails(k) \/ HeadersOK(k) \/ ReadStart(k)
           \/ ReadFails(k)
  PROVE  DeliveryInv'
<1> USE DEF BridgeInv, DeliveryInv
<1>1. UNCHANGED <<delivery, client>>
  BY DEF Conflict, TryLock, UpgradeFails, HeadersOK, ReadStart, ReadFails, ends, slot, chans,
         history, delivery
<1>2. PICK to : /\ req' = [req EXCEPT ![k] = to]
                /\ to \in {"headers", "adding"} => req[k] = "headers"
                /\ req[k] \in Attached => to \in Attached
                /\ req[k] \in {"reading", "loop"} =>
                     (sock[k] # "open" /\ req[k] = "loop") \/ client # k \/ to = "loop"
  BY DEF Conflict, TryLock, UpgradeFails, HeadersOK, ReadStart, ReadFails, ReqGoes, Attached
<1>3. DeliveryTypes'
  BY <1>1 DEF DeliveryTypes, delivery
<1>4. SocketsStayOpen'
  BY <1>1, <1>2 DEF SocketsStayOpen, OwnedTypes, delivery, Attached
<1>5. NoticeTravels'
  <2>1. SUFFICES ASSUME queued
                 PROVE  /\ ended /\ atEnd \in Conns /\ req'[atEnd] \in Attached
                        /\ atEnd \notin dropped /\ "call_ended" \notin got[atEnd] =>
                             /\ pump[atEnd] = "running" /\ sock[atEnd] = "open"
                             /\ req'[atEnd] = "loop"
                             /\ NoticeIn(queue[atEnd])
    BY <1>1 DEF NoticeTravels, NoticeIn, delivery
  <2>2. CASE atEnd # k
    BY <1>2, <2>1, <2>2 DEF NoticeTravels, OwnedTypes
  <2>3. CASE atEnd = k
    <3>1. ended /\ atEnd \in Conns /\ req'[atEnd] \in Attached
      BY <1>2, <2>1, <2>3 DEF NoticeTravels, OwnedTypes
    <3>2. ASSUME atEnd \notin dropped, "call_ended" \notin got[atEnd]
          PROVE  req'[atEnd] = "loop"
      <4>1. req[k] = "loop" /\ sock[k] = "open"
        BY <2>1, <2>3, <3>2 DEF NoticeTravels
      <4>2. FALSE
        BY <4>1 DEF Conflict, TryLock, UpgradeFails, HeadersOK, ReadStart, ReadFails, ReqGoes
      <4> QED BY <4>2
    <3> QED BY <2>1, <3>1, <3>2 DEF NoticeTravels
  <2> QED BY <2>2, <2>3
<1> QED BY <1>3, <1>4, <1>5

\* UpgradeOK opens the socket, HeadersFail and AddClientRefused close it: in no case
\* is it the client's, nor that of the agent the notice goes to.
LEMMA SocketDelivery ==
  ASSUME BridgeInv, DeliveryInv, NEW k \in Conns,
         UpgradeOK(k) \/ HeadersFail(k) \/ AddClientRefused(k)
  PROVE  DeliveryInv'
<1> USE DEF BridgeInv, DeliveryInv
<1>1. UNCHANGED <<client, queue, pump, got, ended, queued, atEnd, dropped>>
  BY DEF UpgradeOK, HeadersFail, AddClientRefused, ends, slot, chans, history
<1>2. PICK to \in ReqStates, s \in {"open", "closed"} :
        /\ req' = [req EXCEPT ![k] = to]
        /\ sock' = [sock EXCEPT ![k] = s]
        /\ req[k] \in Upgrading
        /\ to \in {"headers", "adding"} => s = "open"
  BY DEF UpgradeOK, HeadersFail, AddClientRefused, ReqGoes, ReqStates, Upgrading, Attached
<1>3. k # client /\ (queued => k # atEnd)
  BY <1>2, AudioBridgeConstants DEF ClientsArePastAdd, NoticeTravels, Attached, Upgrading
<1>4. DeliveryTypes'
  BY <1>1, <1>2 DEF DeliveryTypes
<1>5. SocketsStayOpen'
  BY <1>1, <1>2, <1>3 DEF SocketsStayOpen, Attached, Upgrading, OwnedTypes, DeliveryTypes
<1>6. NoticeTravels'
  BY <1>1, <1>2, <1>3 DEF NoticeTravels, OwnedTypes, DeliveryTypes, NoticeIn
<1> QED BY <1>4, <1>5, <1>6

LEMMA AddClientDelivery ==
  ASSUME BridgeInv, DeliveryInv, NEW k \in Conns, AddClient(k)
  PROVE  DeliveryInv'
<1> USE DEF BridgeInv, DeliveryInv
<1>1. /\ req[k] = "adding" /\ req' = [req EXCEPT ![k] = "reading"]
      /\ client' = k
      /\ queue' = [queue EXCEPT ![k] = <<"metadata">>]
      /\ pump' = [pump EXCEPT ![k] = "running"]
      /\ UNCHANGED <<sock, got, ended, queued, atEnd, dropped>>
  BY DEF AddClient, ReqGoes, ends, history
<1>2. queued => k # atEnd
  BY <1>1 DEF NoticeTravels, Attached
<1>3. DeliveryTypes'
  <2>1. <<"metadata">> \in Seq(Kinds)
    BY DEF Kinds
  <2> QED BY <1>1, <2>1 DEF DeliveryTypes
<1>4. SocketsStayOpen'
  BY <1>1 DEF SocketsStayOpen, Attached, OwnedTypes, DeliveryTypes
<1>5. NoticeTravels'
  BY <1>1, <1>2 DEF NoticeTravels, OwnedTypes, DeliveryTypes, NoticeIn
<1> QED BY <1>3, <1>4, <1>5

\* Leave closes the socket of a handler that left its loop, so not of one whose
\* notice is still on the way.
LEMMA LeaveDelivery ==
  ASSUME BridgeInv, DeliveryInv, NEW k \in Conns, Leave(k)
  PROVE  DeliveryInv'
<1> USE DEF BridgeInv, DeliveryInv
<1>1. /\ req[k] = "leaving" /\ req' = [req EXCEPT ![k] = "done"]
      /\ sock' = [sock EXCEPT ![k] = "closed"]
      /\ client' = client \/ client' = NoConn
      /\ UNCHANGED <<queue, pump, got, ended, queued, atEnd, dropped>>
  BY DEF Leave, ReqGoes, RemoveClient, CloseSend, slot, chans, ends, history
<1>2. DeliveryTypes'
  BY <1>1 DEF DeliveryTypes
<1>3. SocketsStayOpen'
  BY <1>1, AudioBridgeConstants DEF SocketsStayOpen, Attached, OwnedTypes,
     DeliveryTypes
<1>4. NoticeTravels'
  BY <1>1 DEF NoticeTravels, OwnedTypes, DeliveryTypes, NoticeIn, Attached
<1> QED BY <1>2, <1>3, <1>4

LEMMA PeerDropsDelivery ==
  ASSUME BridgeInv, DeliveryInv, NEW k \in Conns, PeerDrops(k)
  PROVE  DeliveryInv'
<1> USE DEF BridgeInv, DeliveryInv
<1>1. /\ sock' = [sock EXCEPT ![k] = "broken"]
      /\ dropped' = dropped \cup {k}
      /\ UNCHANGED <<client, req, queue, pump, got, ended, queued, atEnd>>
  BY DEF PeerDrops, ends, slot, chans
<1>2. DeliveryTypes'
  BY <1>1 DEF DeliveryTypes
<1>3. SocketsStayOpen'
  BY <1>1 DEF SocketsStayOpen, DeliveryTypes
<1>4. NoticeTravels'
  BY <1>1 DEF NoticeTravels, DeliveryTypes, NoticeIn
<1> QED BY <1>2, <1>3, <1>4

----------------------------------------------------------------------------
(* The pump and the broadcasts                                              *)

\* Taking the first message leaves the notice in the channel, or was the notice.
LEMMA NoticeAfterTail ==
  ASSUME NEW q \in Seq(Kinds), q # <<>>, NoticeIn(q), Head(q) # "call_ended"
  PROVE  NoticeIn(Tail(q))
<1>1. PICK i \in 1..Len(q) : q[i] = "call_ended"
  BY DEF NoticeIn
<1>2. i # 1
  BY <1>1
<1>3. i - 1 \in 1..Len(Tail(q)) /\ Tail(q)[i - 1] = q[i]
  BY <1>2
<1> QED BY <1>1, <1>3 DEF NoticeIn

LEMMA NoticeAfterAppend ==
  ASSUME NEW q \in Seq(Kinds), NEW m \in Kinds, NoticeIn(q) \/ m = "call_ended"
  PROVE  NoticeIn(Append(q, m))
<1>1. CASE NoticeIn(q)
  <2>1. PICK i \in 1..Len(q) : q[i] = "call_ended"
    BY <1>1 DEF NoticeIn
  <2>2. i \in 1..Len(Append(q, m)) /\ Append(q, m)[i] = q[i]
    BY <2>1
  <2> QED BY <2>1, <2>2 DEF NoticeIn
<1>2. CASE m = "call_ended"
  <2>1. Len(q) + 1 \in 1..Len(Append(q, m)) /\ Append(q, m)[Len(q) + 1] = m
    OBVIOUS
  <2> QED BY <1>2, <2>1 DEF NoticeIn
<1> QED BY <1>1, <1>2

LEMMA PumpWriteDelivery ==
  ASSUME BridgeInv, DeliveryInv, NEW k \in Conns, PumpWrite(k)
  PROVE  DeliveryInv'
<1> USE DEF BridgeInv, DeliveryInv
<1>1. /\ queue[k] # <<>>
      /\ got' = [got EXCEPT ![k] = @ \cup {Head(queue[k])}]
      /\ queue' = [queue EXCEPT ![k] = Tail(@)]
      /\ UNCHANGED <<client, req, sock, pump, ended, queued, atEnd, dropped>>
  BY DEF PumpWrite, ends, slot, history
<1>2. queue[k] \in Seq(Kinds) /\ Head(queue[k]) \in Kinds /\ Tail(queue[k]) \in Seq(Kinds)
  BY <1>1 DEF DeliveryTypes
<1>3. DeliveryTypes'
  <2>1. got[k] \cup {Head(queue[k])} \in SUBSET Kinds
    BY <1>2 DEF DeliveryTypes
  <2> QED BY <1>1, <1>2, <2>1 DEF DeliveryTypes
<1>4. SocketsStayOpen'
  BY <1>1 DEF SocketsStayOpen
<1>5. NoticeTravels'
  <2>1. CASE atEnd # k
    BY <1>1, <2>1 DEF NoticeTravels, DeliveryTypes, NoticeIn
  <2>2. CASE atEnd = k
    <3>1. got'[k] = got[k] \cup {Head(queue[k])} /\ queue'[k] = Tail(queue[k])
      BY <1>1 DEF DeliveryTypes
    <3>2. NoticeIn(queue[k]) /\ Head(queue[k]) # "call_ended" => NoticeIn(Tail(queue[k]))
      BY <1>1, <1>2, NoticeAfterTail
    <3>3. NoticeIn(queue[k])' <=> NoticeIn(Tail(queue[k]))
      BY <3>1 DEF NoticeIn
    <3> QED BY <1>1, <2>2, <3>1, <3>2, <3>3 DEF NoticeTravels
  <2> QED BY <2>1, <2>2
<1> QED BY <1>3, <1>4, <1>5

\* The pump leaves its loop only on a socket that is not open, or when the channel is
\* closed and empty: not with a notice on the way.
LEMMA PumpLeavesDelivery ==
  ASSUME BridgeInv, DeliveryInv, NEW k \in Conns, PumpFails(k) \/ PumpCloses(k)
  PROVE  DeliveryInv'
<1> USE DEF BridgeInv, DeliveryInv
<1>1. /\ pump[k] = "running" /\ pump' = [pump EXCEPT ![k] = "draining"]
      /\ sock' = [sock EXCEPT ![k] = "closed"]
      /\ UNCHANGED <<client, req, queue, got, ended, queued, atEnd, dropped>>
      /\ sock[k] # "open" \/ (send[k] = "closed" /\ queue[k] = <<>>)
  BY DEF PumpFails, PumpCloses, PumpGoes, NothingLeftToSend, ends, slot, chans, history
<1>2. DeliveryTypes'
  BY <1>1 DEF DeliveryTypes
<1>3. SocketsStayOpen'
  <2>1. k \notin dropped => req[k] \in Attached /\ client # k
    BY <1>1, AudioBridgeConstants DEF SocketsStayOpen, OpenChannelsAreOwned
  <2> QED BY <1>1, <2>1 DEF SocketsStayOpen, DeliveryTypes, Attached
<1>4. NoticeTravels'
  BY <1>1 DEF NoticeTravels, DeliveryTypes, NoticeIn
<1> QED BY <1>2, <1>3, <1>4

LEMMA PumpDrainsDelivery ==
  ASSUME BridgeInv, DeliveryInv, NEW k \in Conns, PumpDrains(k)
  PROVE  DeliveryInv'
<1> USE DEF BridgeInv, DeliveryInv
<1>1. /\ pump[k] = "draining" /\ pump' = [pump EXCEPT ![k] = "removing"]
      /\ queue' = [queue EXCEPT ![k] = <<>>]
      /\ UNCHANGED <<client, req, sock, got, ended, queued, atEnd, dropped>>
  BY DEF PumpDrains, PumpGoes, ends, slot, history
<1>2. DeliveryTypes'
  BY <1>1 DEF DeliveryTypes
<1>3. SocketsStayOpen'
  BY <1>1 DEF SocketsStayOpen, DeliveryTypes
<1>4. NoticeTravels'
  BY <1>1 DEF NoticeTravels, DeliveryTypes, NoticeIn
<1> QED BY <1>2, <1>3, <1>4

LEMMA PumpRemovesDelivery ==
  ASSUME BridgeInv, DeliveryInv, NEW k \in Conns, PumpRemoves(k)
  PROVE  DeliveryInv'
<1> USE DEF BridgeInv, DeliveryInv
<1>1. /\ pump[k] = "removing" /\ pump' = [pump EXCEPT ![k] = "exited"]
      /\ client' = client \/ client' = NoConn
      /\ UNCHANGED <<req, sock, queue, got, ended, queued, atEnd, dropped>>
  BY DEF PumpRemoves, PumpGoes, RemoveClient, CloseSend, slot, chans, ends, history
<1>2. DeliveryTypes'
  BY <1>1 DEF DeliveryTypes
<1>3. SocketsStayOpen'
  BY <1>1, AudioBridgeConstants DEF SocketsStayOpen, DeliveryTypes
<1>4. NoticeTravels'
  BY <1>1 DEF NoticeTravels, DeliveryTypes, NoticeIn
<1> QED BY <1>2, <1>3, <1>4

\* A broadcast appends to a channel, or drops its message: no notice is lost.
LEMMA BroadcastKeepsNotice ==
  ASSUME BridgeInv, DeliveryInv, NEW m \in Kinds, Broadcast(m)
  PROVE  /\ queue' \in [Conns -> Seq(Kinds)]
         /\ \A k \in Conns : NoticeIn(queue[k]) => NoticeIn(queue'[k])
<1>1. CASE client # NoConn /\ HasRoom
  <2>1. client \in Conns /\ queue \in [Conns -> Seq(Kinds)]
    BY <1>1 DEF BridgeInv, OwnedTypes, DeliveryInv, DeliveryTypes
  <2>2. queue' = [queue EXCEPT ![client] = Append(queue[client], m)]
    BY <1>1 DEF Broadcast
  <2>3. Append(queue[client], m) \in Seq(Kinds)
    BY <2>1
  <2>4. NoticeIn(queue[client]) => NoticeIn(Append(queue[client], m))
    BY <2>1, NoticeAfterAppend
  <2> QED BY <2>1, <2>2, <2>3, <2>4
<1>2. CASE ~(client # NoConn /\ HasRoom)
  BY <1>2 DEF Broadcast, DeliveryInv, DeliveryTypes
<1> QED BY <1>1, <1>2

LEMMA BroadcastDelivery ==
  ASSUME BridgeInv, DeliveryInv, BroadcastAudio \/ BroadcastDTMF
  PROVE  DeliveryInv'
<1> USE DEF DeliveryInv
<1>1. PICK m \in Kinds : Broadcast(m)
  BY DEF BroadcastAudio, BroadcastDTMF, Kinds
<1>2. UNCHANGED <<client, req, sock, pump, got, ended, queued, atEnd, dropped>>
  BY DEF BroadcastAudio, BroadcastDTMF, ends, slot
<1>3. DeliveryTypes'
  BY <1>1, <1>2, BroadcastKeepsNotice DEF DeliveryTypes
<1>4. SocketsStayOpen'
  BY <1>2 DEF SocketsStayOpen
<1>5. NoticeTravels'
  BY <1>1, <1>2, BroadcastKeepsNotice DEF NoticeTravels, NoticeIn
<1> QED BY <1>3, <1>4, <1>5

\* The notice starts its way: it is queued for the client, whose pump runs if the peer
\* has not dropped the connection.
LEMMA CallEndedDelivery ==
  ASSUME BridgeInv, DeliveryInv, BroadcastCallEnded
  PROVE  DeliveryInv'
<1> USE DEF BridgeInv, DeliveryInv
<1>1. /\ Broadcast("call_ended") /\ ended' /\ atEnd' = client
      /\ queued' = (client # NoConn /\ HasRoom /\ req[client] = "loop")
      /\ UNCHANGED <<client, req, sock, pump, got, dropped>>
  BY DEF BroadcastCallEnded, slot
<1>2. DeliveryTypes'
  <2>1. queue' \in [Conns -> Seq(Kinds)]
    BY <1>1, BroadcastKeepsNotice DEF Kinds
  <2>2. ended' \in BOOLEAN /\ queued' \in BOOLEAN
    BY <1>1 DEF BroadcastCallEnded
  <2> QED BY <1>1, <2>1, <2>2 DEF DeliveryTypes
<1>3. SocketsStayOpen'
  BY <1>1 DEF SocketsStayOpen
<1>4. NoticeTravels'
  <2> SUFFICES ASSUME queued'
               PROVE  /\ client \in Conns /\ req[client] \in Attached
                      /\ client \notin dropped =>
                           /\ pump[client] = "running" /\ sock[client] = "open"
                           /\ req[client] = "loop"
                           /\ NoticeIn(queue'[client])
    BY <1>1 DEF NoticeTravels, NoticeIn
  <2>1. client \in Conns /\ HasRoom /\ req[client] = "loop"
    BY <1>1 DEF OwnedTypes
  <2>2. queue' = [queue EXCEPT ![client] = Append(queue[client], "call_ended")]
    BY <1>1, <2>1 DEF Broadcast
  <2>3. NoticeIn(Append(queue[client], "call_ended"))
    BY <2>1, NoticeAfterAppend DEF DeliveryTypes, Kinds
  <2>4. queue'[client] = Append(queue[client], "call_ended")
    BY <2>1, <2>2 DEF DeliveryTypes
  <2> QED BY <2>1, <2>3, <2>4 DEF SocketsStayOpen, Attached
<1> QED BY <1>2, <1>3, <1>4

LEMMA CloseDelivery ==
  ASSUME BridgeInv, DeliveryInv, CloseAllTakes
  PROVE  DeliveryInv'
<1> USE DEF DeliveryInv
<1>1. client' = NoConn /\ UNCHANGED <<req, delivery>>
  BY DEF CloseAllTakes, ClientTaken, chans, history, delivery
<1>2. DeliveryTypes' /\ NoticeTravels'
  BY <1>1 DEF delivery, DeliveryTypes, NoticeTravels, NoticeIn
<1>3. SocketsStayOpen'
  BY <1>1, AudioBridgeConstants DEF delivery, SocketsStayOpen
<1> QED BY <1>2, <1>3

LEMMA DeliveryNext == BridgeInv /\ DeliveryInv /\ [ABNext]_abVars => DeliveryInv'
<1> SUFFICES ASSUME BridgeInv, DeliveryInv, [ABNext]_abVars PROVE DeliveryInv'
  OBVIOUS
<1>1. CASE UNCHANGED abVars
  BY <1>1, DeliveryFrame DEF abVars, delivery
<1>2. ASSUME NEW k \in Conns,
             Conflict(k) \/ TryLock(k) \/ Handler(k) \/ Pump(k) \/ PeerDrops(k)
      PROVE  DeliveryInv'
  BY <1>2, HandlerDelivery, SocketDelivery, AddClientDelivery, LeaveDelivery, PeerDropsDelivery,
     PumpWriteDelivery, PumpLeavesDelivery, PumpDrainsDelivery, PumpRemovesDelivery
     DEF Handler, Pump
<1>3. CASE BroadcastAudio \/ BroadcastDTMF \/ BroadcastCallEnded \/ CloseAllTakes
  BY <1>3, BroadcastDelivery, CallEndedDelivery, CloseDelivery
<1>4. CASE Cancel \/ Closing
  BY <1>4, DeliveryFrame DEF Cancel, Closing, ProcessorLeaves, CloseAllCloses, ProcessorExits,
                             slot, chans, history, delivery
<1> QED BY <1>1, <1>2, <1>3, <1>4 DEF ABNext

\* What BroadcastCallEnded put into the client's channel is written to its socket
\* before the write pump closes it, whatever CloseAll, RemoveClient and the handler do
\* meanwhile, unless the peer dropped the connection.
THEOREM NoticeIsDelivered == ABSpec => []QueuedNoticeIsDelivered
<1>1. DeliveryInv => QueuedNoticeIsDelivered
  BY DEF DeliveryInv, NoticeTravels, QueuedNoticeIsDelivered
<1>2. ABSpec => []DeliveryInv
  BY DeliveryInit, DeliveryNext, BridgeInvHolds, PTL DEF ABSpec
<1> QED BY <1>1, <1>2, PTL
=============================================================================
