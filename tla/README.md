# TelePortal in TLA+

TelePortal answers SIP calls, turns their RTP audio into WebSocket messages for
an agent, and sends the agent's audio back. This directory holds TLA+
specifications of the parts of it that run concurrently, TLC configurations that
check them on small instances, and TLAPS proofs of the safety properties that
matter most. `PROJECT.json` maps every definition to the source lines it models
and lists the runs, the hazards and the theorems.

    tlc -config CallManager.cfg MCCallManager      # one run
    tlapm SharedStateProofs.tla                    # one proof module

## 1. The system

| component | source | state it keeps | operations | who calls it |
|---|---|---|---|---|
| RTP port allocator | `internal/rtp/rtp_manager.go` | ports in use, round-robin cursor, open UDP sockets | `CreateListener`, `ReleaseListener` | `handleInvite`, `OnFinished` |
| Call registry | `internal/call/call_manager.go` | two maps, atomic counts, a gauge, waiting channels | `Add`, `Remove`, `Get`, `WaitEmpty`, `ListActiveCalls`, `HangupCall`, `StopAll` | SIP handlers, HTTP handlers, `OnFinished`, drain |
| Call | `internal/call/active_call.go` | context, error group, `callEnded`, two once-guards | `StartRTPHandlers`, `EndCall`, `Shutdown` | ACK, BYE, CANCEL, media timeout, the agent |
| Audio bridge | `internal/call/audio_bridge.go` | one client slot, a reservation, the client's send channel | `TryLock`, `AddClient`, `ReadPump`, `RemoveClient`, broadcasts, `CloseAll` | HTTP handler, RTP reader, `EndCall`, `HangupCall` |
| HTTP API | `internal/api/http_handler.go` | - | `HandleUpgrade`, WebRTC signaling (which ends with `HangupCall`), read-only endpoints | agents |
| SIP handlers | `internal/sip/sip_handler.go` | - | INVITE, ACK, BYE, CANCEL, OPTIONS | sipgo, one goroutine per request |
| Application | `internal/app/app.go`, `cmd/teleportal/main.go` | readiness, the reloadable limit | `Run`, `Reload`, `Drain`, `Shutdown` | signals |
| RTP reader, writer | `internal/rtp/rtp_handler.go` | ring of outgoing audio, pending digit, sequence number and timestamp; the last digit's timestamp | `StartReader`, `StartWriter` | the call's error group |
| Jitter buffer | `internal/audio/pion_jitter_buffer.go` | pion's buffer, ring of raw buffers, output channel | `Push`, `Stop`, `run` | reader, audio processor, context |
| DTMF | `internal/rtp/dtmf.go`, `dtmf_generator.go` | - | generate, parse, deduplicate | reader, writer |
| Recorder | `internal/audio/recorder.go`, `wav_fast.go`, `ogg_writer.go` | two queues of samples, two buffers, the file | `PushLeft`, `PushRight`, `run`, `Close` | audio processor, agent's audio |
| WebRTC manager | `internal/webrtc/manager.go` | peer connections | `ProcessSignaling`, callbacks, two media goroutines | HTTP handler, pion |
| SDP and codec negotiation | `internal/sip/sip_handler.go`, `internal/sdp/sdp.go`, `internal/audio/codec.go` | - | `negotiateStream`, `getRemoteRTPAddr`, `GenerateAnswer` | `handleInvite` |
| Buffer pool | `pkg/audio/pool.go` | pools by size | `GetBuffer`, `PutBuffer` | every media path |
| Go client | `pkg/client/client.go` | two channels, three pumps, a connection | `NewClient`, `Write`, `Read`, `SendDTMF`, `Hangup`, `Close` | agents written in Go |
| Codec tables, configuration, logging, metrics, Redis, load test | see `PROJECT.json` | | | |

How they interact: `handleInvite` passes a readiness gate, a capacity check
against the registry and a duplicate check, negotiates, takes a port from the
allocator, creates the call, registers it and answers. The ACK starts the reader
and the writer. Anyone may end the call; `EndCall` tells the agent and spawns
`Shutdown`, which cancels the context, waits for the call's goroutines and then
runs `OnFinished`, giving back first the port and then the registry entry. On
SIGTERM, main closes the readiness gate, waits in `WaitEmpty` for the registry to
become empty, up to a deadline, hangs up what is left, and exits.

What is hard about it: nearly every one of those steps runs in a goroutine of its
own. Checks and the updates they guard are far apart (capacity, Call-ID,
WebSocket slot); counts are kept beside the maps they count; five parties may end
one call; an ACK may cross a BYE; channels are closed by one goroutine and written
by another; error returns must undo what came before them. Correct means: ports
and registry entries follow the calls exactly and come back in the end; no
channel is closed twice or written after its close; an agent that is attached
learns that the call ended; a drain waits for the calls and ends by its deadline;
nothing outlives its call. The media paths are hard for another reason: rings that
wrap, numbers of 16 and 32 bits, and pooled buffers that cross several goroutines.
There correct means that no byte and no digit is lost, repeated or mixed up with
another's, and that a buffer goes back to the pool once and not while it is used.
`PROJECT.json` lists the hazards line by line, and says of each what its properties leave
out.

## 2. The modules

    CallLifecycle (what a call promises)      AudioQueue (what the ring promises)
       ^ implemented by   ^ relied on by         ^ implemented by
    ActiveCall         SIPService             RTPWriter
                        |-- CallManager          ^ extended by
                        |-- RTPManager        MediaSession
                                                 |-- Negotiation
    AudioBridge   JitterBuffer   Client   WebRTC   StereoRecorder

Each of `SIPService`, `ActiveCall`, `AudioBridge`, `MediaSession`, `JitterBuffer`,
`StereoRecorder` and `Client` has a module of proofs, named after it. `MediaSessionProofs`
covers `RTPWriter` and `Negotiation` too. `SharedStateProofs` is about `CallManager` and
`RTPManager`, the state that all goroutines share; `SIPServiceProofs` instantiates it and
uses what it proves.

**RTPManager.** `CreateListener` and `ReleaseListener` run under `m.mu`, so each is
an action. `ports` and `nextPort` are the fields of those names; `conn` and
`foreign` are the sockets of this and of other processes, since a bind can fail on
a port that is not marked. A socket that was closed keeps its address (`closed`), so that
`ReleaseListener` can be called on it again and then takes the mark off the port's next
owner, as in the code; `twice` remembers it. The loop is its turns `0..NumEvenPorts-1` and
`FoundAt(i)`, the first usable one. The branch that reports a range with no even
port is dead (`RangeFacts` proves it) and is left out.

**CallManager.** The actions are the critical sections of the code. `Add` is three
of them (`AddMaps`, `AddCount`, `AddGauge`) because the count and the gauge are
updated after the unlock; `Remove` is its critical section and then `CloseTaken`;
`WaitEmpty` checks, checks again under the mutex and blocks. Any goroutine may
call `Remove` with any Call-ID. `overtaken` remembers that a `Remove` came between
the two halves of an `Add`.

**CallLifecycle** and **ActiveCall.** `ActiveCall` has a program counter for each
of the three bodies that run at most once (`starting`, `ending`, `shutting`) and a
state for each goroutine the call owns: reader, writer, audio processor, the jitter
buffer's stopper and its release loop. A tick of the release loop takes a packet
and then sends it on the bounded output channel, which is a step of its own
because the send may block. The writer makes a digit's packets outside its select
(`toning`); when their sum in 16 bits misses the end of the tone it never comes back
(`endless`, section 6). `CallLifecycle` is the abstract view: open, closing,
released, finished, each once and in that order. `ImplementsCallLifecycle` checks
the refinement, with `Life` as its mapping.

**AudioBridge.** The slot (`client`, `reserved`), one program counter per upgrade
handler, the socket, the send channel with its queue, and the write pump. A section
under `b.mu` is one action. `CloseAll` is two, since it closes the channel after the
unlock. The pump empties the channel and then removes the client, with a gap into
which a broadcast can fall. `WebRTC = TRUE` also lets `HangupCall` close the bridge at
any time, which it does for calls that have no SIP dialog; the proofs cover both. The
runs have `WebRTC = FALSE`: `EveryAgentLetGo` rests on a context that is canceled, which
`HangupCall` does not do.

**SIPService.** `handleInvite` step by step over the real registry and allocator,
with handlers that hold a call they looked up earlier, the ends of calls (through
`CallLifecycle`), reload, drain and shutdown. The steps between which no other
goroutine can see a difference are merged: parsing, codec negotiation and the
dialog are one choice between going on and rejecting; the answer, `NewActiveCall`
and the first half of `Add` are one step, since nobody can reach the call before it
is in the maps. `CheckLimit` and `CompareLimit` are two because the limit is read
twice. `GetsStuck` is a call whose `Shutdown` waits for one of the two goroutines that may
never end, as `ActiveCall` shows. After `Exit` no goroutine moves.

**Negotiation** has no state: what `handleInvite` makes of an offer, as operators. The
codec is `Pick`, and the three ways the code can turn an offer away are those of
`NegotiateStream` and `Status`. `CodecError` is the variable `err`, which keeps the
failure of an L16 codec when a later codec has been found. An offer is the part of
an SDP body that the code reads: media kinds, ports, payload types, rtpmaps, addresses.

**RTPWriter**, **AudioQueue.** `StartWriter`'s `select` has four cases, and each is an
action: a digit is asked for, audio comes, a tick, the end of the context (in
`MediaSession`). `ringBuf`, `head`, `tail` and `count` are the variables of the loop;
the copies in and out of the ring are made in two parts as in the code. Bytes are
numbered in the order the ring accepts them, so that the ring's contents say which
bytes they are. `Generate` is one step per packet it makes, with durations modulo
`U16`, since whether its loop ends is in question; while it runs the writer's loop does
nothing else (`gen = Idle` in every other guard). The branch for a failed encoding
(rtp_handler.go:291-296) is left out: the one error that can occur is an odd number of
bytes, and `bytesPerTick` is a number of two-byte samples where anything is encoded.
`elapsed` counts the samples that
`timestamp` counts modulo `U32`. `AudioQueue` is the abstract view, a
bounded FIFO; `ImplementsAudioQueue` checks the refinement and `WriterIsAQueue` proves it.

**MediaSession** composes the two: the offer decides whether the writer may send digits,
the ACK starts it, the agent sends audio and digits, and a network that loses, repeats
and reorders carries the end packets to the reader of the other end (the same code),
which reports a digit if its timestamp differs from the last one. `crossed` remembers
that an end packet came after one of a later digit.

**JitterBuffer.** The path of pooled buffers: the reader's look at the context, `Push` in
its two halves (the ring of raw buffers under the mutex, then pion's buffer; either may
come after `Stop`), the release loop in its three (`Pop`, the
section under the mutex with the sweep, the send), `Stop` in its two, and the audio
processor that returns what it received. Buffers are numbered as they are taken, and
`puts` counts how often each was returned. pion's buffer is a set of packets which may
release any of them and then forgets those that are not later. `spread` remembers that
packets a whole ring apart were waiting together, `raced` which buffers `Stop` returned
under a packet still to come.

**StereoRecorder.** Two producers, the goroutine `run` in its states, and the bytes of the
two channels, as they are handed to `FastWavWriter` (`written`) and as far as they are on
the disk (`disk`): `bufio.Writer` keeps up to `BufSize` bytes back. Any write to the file
may fail; then nothing more gets there (`broken`), `WriteInterleaved` goes on dropping
what it could not write, and `Close` returns before it sets the size in the header. The
code keeps that size in 32 bits; the model does not wrap it (4 GB, 37 hours at 8 kHz).
Each side's bytes are numbered, so that one sees what is
missing, repeated or displaced: `Holds` says that a sequence is `1..n`, each once and in
order, with silence anywhere between, and `GoOn` that the chunks in a queue go on from
there. A refused chunk is not a step: it changes nothing.

**WebRTC.** `ProcessSignaling` has one step per call it makes that can fail or can be
seen by others; `HangupCall` is two, around its `Remove`. The peer connection delivers
its states to callbacks in goroutines of their own, once the callback has been set; it
may connect or fail from `SetLocalDescription` on, while candidates are gathered. An agent
finds the call while it is registered, and its `bye` can come as long as it is attached,
also when another party has removed the call. The
two media goroutines follow the request's context, the audio processor the call's.
`lateHook` remembers that the agent's `bye` was through before the callbacks were set.

**Client.** Three pumps, a caller of the application and the application's DTMF callback
(which runs in `readPump`), two channels, and `Close` with a step for each of its calls.
`crashed` is a panic: a send on a closed channel, or a close message that meets a write
of `writePump`. A message whose buffer is dropped at once is not a step.

MC modules only add symmetry sets, Call-ID assignments, offers and the view described
below. An operator whose comment begins with "Mutant" is a changed version of the
definition that follows it. `PROJECT.json` says which property each must break.

## 3. The runs

| run | configuration | what it shows |
|---|---|---|
| `rtp_ports` | 4 even ports in a range with odd ends, 3 owners, any ports taken by others | only open sockets are marked, and all of them unless one was released twice; exhaustion is never reported while a port is free; a port is handed out again only after every other that was free all the while |
| `call_manager` | 3 calls, 2 removers, 2 waiters | count and maps agree at every moment; what `Get` returns is registered; no channel closed twice; waiters are woken unless a `Remove` overtook an `Add` |
| `active_call` | one call, output channel of 2, 4 packets | the port is released after the media stopped; an ACK that crosses the end is harmless; the agent is told before its socket closes; a call that ended finishes unless its release loop is wedged or its writer is in an endless tone; it implements `CallLifecycle` |
| `audio_bridge` | 2 connections, channels of 2, 1 audio or DTMF message | no send on a closed channel and none left open; the gauge is exact; upgrades exclude each other; a notice that was queued arrives; every agent is let go once the context is canceled |
| `sip_service` | 2 INVITEs, 2 ports, 1 handler, limits 0 and 1 | ports follow calls on every path; calls are registered until they finish; the limit holds for INVITEs one at a time; a successful drain waited for the calls |
| `sip_service_live` | 2 INVITEs that take turns, 2 ports, no limit | a closing call, or one whose 200 OK failed, gives all back unless it is stuck; a signal leads to exit, with stuck calls too |
| `media_session` | 476 pairs of an offer and a configured codec, 2 digits of 6 kinds, messages of 1 and 3 bytes, a ring of 2 packets of 2 bytes | a caller with a codec in common gets the best one, which the writer can encode for, at the right address; the ring holds exactly what was not sent; tones grow to their length; timestamps tell digits apart across the wrap; each digit that arrives is reported once, as what was asked for |
| `jitter_buffer` | 4 buffers, sequence numbers 13 14 15 0 2 6 modulo 16, a ring of 4 | a buffer goes back once, and not while in use, unless packets a ring apart wait together or `Stop` meets the release loop |
| `recorder` | 7 bytes a side, queues of 2, a write buffer of 4, whole samples on the left, any bytes on the right, any write may fail | what was pushed is handed to the file once and in order; channels equally long; a file that was finished without an error has all of it but an odd byte, and its size says so; after an error the size stays 0; samples stay whole |
| `webrtc` | one call, an input channel of 1 | a call that was answered leaves the registry however it ends; the agent's `bye` stops its media |
| `client` | listen-only, channels of 1, 4 buffers | pumps never meet a closed channel; each buffer is returned once; `Close` returns |

A further run, `slot_leak`, ends in a violation; it states a sentence of the
documentation that the code does not keep (section 6).

**Bounds.** Two INVITEs are enough for every race in `SIPService`, since the races
are between the two halves of a check and an update, or between one call's end and
another's start; with two ports and a foreign process on the lower one, allocation
succeeds, moves on and fails. `CallManager` has three calls so that the count can be wrong by
one in either direction while calls remain, and two removers and two waiters so that
channels can be taken twice. Two connections are one that holds the slot and one that
wants it; a channel of two holds the metadata message and one more, so that it is
full and has room (200 in the code). The output channel of the jitter buffer holds 2
instead of 100, and `MaxEmits = 4` fills it and leaves the release loop waiting. What
is proved (section 5) holds without these bounds.

The media modules keep the widths of numbers as constants. `U16 = 16` and `U32 = 64`,
with streams that start just below both wraps, make sequence numbers, timestamps and
durations wrap within a few packets. A ring of two packets of two bytes, fed with one
or three bytes, is full, empty, half a packet full, and wraps in the middle of a packet.
Two digits are one cut short by the next, one right after another and the same digit
twice; the lengths asked for are less than a packet time, between two multiples of it,
zero, and too long for 16 bits in three ways. The offers have one audio line with every
set of the payload types that matter and seven kinds of rtpmaps, and the shapes of media
that the address search distinguishes. `WinSize = 4` of `SeqMod = 16` keeps the ratio
that matters to the ring (it divides the sequence numbers, and lateness is half of
them); the arrivals include neighbours, a gap, a wrap, a repetition, and one (`2` and
`6`) that collides. In `recorder` a lag of more than 2 bytes is filled, which seven
bytes reach several times; with a write buffer of 4 some bytes are on the disk and some
are not when a write fails. With `ListenOnly` all three pumps of the client run, and
channels of one are full and empty.

The bounds on counters are `MaxAudio` (messages broadcast), `MaxEmits` (packets the
release loop takes), `Requests` (digits), `MaxPayloads` (packets of one tone, to stop
tones that the code would never end), `MaxBytes` (audio accepted by the ring, bytes
pushed to the recorder) and `MaxBuffers` (buffers taken from the pool). `media_session`
follows a call until the first end packet that comes late (`crossed`). Symmetry is used
only for safety. `sip_service` also has a view that leaves out `newCount`, `gauge` and
`totalCalls`, which no action there reads into other variables and no property reads,
and the constraint that other processes hold at most the lower port. `sip_service_live`
restricts steps that no fairness is about: the INVITEs come one after the other, requests
come for calls that were answered, and other processes leave the range alone. Deadlock is
checked for the allocator and the registry, which always offer a step; a call, a
bridge, a client and a process come to an end, so their runs switch it off.

## 4. Fairness

- `CallManager`: a goroutine inside `Add`, `Remove` or `WaitEmpty` goes on (mutex and
  scheduler); registered calls are in the end removed (callers hang up, or the media
  timeout fires). Contexts need not be canceled. If no call ever ended, no waiter
  would have to be woken.
- `ActiveCall`: weak fairness for each body and goroutine that can go on, a tone that is
  not endless included. Strong fairness only for three selects that meet the canceled
  context or the stop channel again and again between packets or digits: Go chooses among
  ready cases at random. None for ACK, BYE, packets, digits and responses.
- `AudioBridge`: handlers and pumps that can go on do so (network writes have a deadline and
  pings find a dead peer), `EndCall` is followed by `Shutdown`, the processor sees its
  context. Agents need not act, and neither need `HangupCall`.
- `SIPService`: the goroutine that shuts a call down unless the call is stuck, and main,
  whose drain has a deadline and whose BYEs sipgo gives up by its timers. Nothing of
  INVITEs, callers, agents, signals and reloads, and nothing keeps a call from getting
  stuck. That the goroutine of any other call goes on is what `EndedCallsFinish` shows of
  `ActiveCall`, whose two exceptions are what `stuck` stands for.
- `WebRTC`: the handler goes on but for two waits, for the candidates and for its client;
  callbacks and hang-ups that
  have begun run, and so do `Shutdown` and the outbound goroutine. Strong fairness for the
  audio processor and the track reader, which meet their context again and again between
  packets. Callers, agents, the peer and the application may stay for ever.
- `Client`: `Close` once it has begun, a reader whose connection is closed, a writer that
  has something to do or whose write has a deadline, and calls whose context is done.
  Strong fairness for the DTMF callback: it returns, however many calls it makes before.
  No message need come.
- `MediaSession`, `JitterBuffer`, `StereoRecorder`, `RTPManager`: safety only.

## 5. What is proved

Every theorem is proved from the assumptions on constants that the modules state, and
for every value of the constants that satisfies them:

- `PortRange`: what `NewRTPManager` validates. `CallManagerConstants`: finitely many calls,
  a Call-ID each, nil is not one of them. `ServiceConstants`: both of these.
- `AudioBridgeConstants`, `ActiveCallConstants`, `ClientConstants`: finitely many connections,
  nil is not one of them, positive capacities, any number of messages.
- `RTPWriterConstants`: a positive packet size and capacity, messages of any size; any
  sample rate and packet time, and tones of any length, negative ones too; any widths of
  sequence numbers and timestamps, and any values they start from.
- `MediaSessionConstants`: the configured codec is one of the four, and an offer is one that
  an SDP body can make (`FitsRTP`: finite lists of media and rtpmaps, payload types of eight
  bits). Any set of such offers, any number of digits of any lengths.
- `DigitsAreNear`: the packets of one tone and the digits of a session, a packet time each,
  stay within half of the timestamps' circle. At 8 kHz a tone has at most 2^16 packets of
  160 samples, and that leaves room for millions of digits.
- `StereoRecorderConstants`: a positive capacity and size of the write buffer, any threshold,
  and any sizes of chunks but
  0, which `PushLeft` and `PushRight` return on.
- `JitterBufferConstants`: the ring's size divides the number of sequence numbers and is at
  most a quarter of it (1024 and 2^16 in the code). Without the first, a number and its
  successor after the wrap could share a slot; the second keeps two windows within the
  half circle in which pion orders packets.

- **SharedStateProofs**, the allocator. `RTPTypeCorrect`, `MarksMatchSockets`,
  `ExhaustionIsNeverFalse`, for every range the service accepts. The first two are inductive
  with `SocketsExclusive`, which is the operating system's doing: a first release needs it to
  know that the mark it clears belongs to no other socket. Exhaustion is arithmetic: every
  even port has an index
  (`EvenPortsHaveAnIndex`), and the search, wherever it starts, visits every index,
  because `i |-> (start + i) % n` maps `0..n-1` onto itself.
- **SharedStateProofs**, the registry. `CMTypeCorrect`, `CountIsExact`, `EntriesAreRegistered`,
  `RegisteredCallsAreReachable`, `BlockedWaitersHaveACall`, `ChannelsCloseOnce`, for any
  number of calls and goroutines and with shared Call-IDs. The inductive invariant
  `CMInv` adds three facts: only goroutines past the second check have a channel in
  any list (else a channel could be registered twice); only calls whose `Add` began are
  in the maps (else `AddMaps` could add a call that is there, and the cardinality
  would not grow); and, unless a `Remove` overtook an `Add`, a half-way `Add` still
  has its call in the maps (else the count could be zero while a waiter is listed).
- **SIPServiceProofs.** Three refinements first: every step of the service is a step of the
  registry (`ServiceUsesRegistry`), of the allocator (`ServiceUsesAllocator`) and of the
  calls' abstract life cycle (`ServiceUsesLifecycle`), or leaves them alone. Hence the
  invariants of those modules hold in the service (`RegistryHolds`, `AllocatorHolds`) and
  are not proved again. `PortsFollowTheirCalls` and `CallsStayRegistered` are then
  inductive together with `InviteOrder`: a call exists, and its `Add` has begun, exactly
  when its INVITE has come so far. `LimitIsKept` needs that of the INVITEs past the
  check at most one is not yet counted and there is room for it, and that the count
  they compare is the number of registered calls (`CountIsCurrent`).
  `DrainWaitsForItsCalls` needs that once the drain's channel is taken, none of the calls
  it waits for is left, and for that a lemma on the registry: unless a `Remove` overtook
  an `Add`, a count of zero hides no call that was counted (`ZeroHidesNoCall`).
- **ActiveCallProofs.** `PortReleasedAfterMedia`, `LateAckIsHarmless`, `AgentToldBeforeClose` and
  the refinement `CallHasALifecycle`. `CallInv` ties the goroutines to the program
  counters of the bodies that start, end and shut down the call. Its heart is
  `MediaStaysStopped`: what `Shutdown` has waited for does not start again, since an ACK
  that comes later finds the context done. `TellOrder` follows the notice from `EndCall`
  to the request for a shutdown.
- **AudioBridgeProofs.** `ChannelsAreOwned`, `AgentGaugeIsExact`, `OneUpgradeAtATime`, for any
  number of agents and any capacity. `BridgeInv` adds that a connection which is the client,
  or which `CloseAll` took, is past `AddClient` and never comes to it again; without
  that a channel could be opened a second time under `CloseAll`'s hands.
  `NoticeIsDelivered` is inductive with `SocketsStayOpen` (as long as the peer stays, nobody
  closes the client's socket but its own pump) and `NoticeTravels` (the notice is in the
  channel, whose pump runs, or it has arrived).
- **MediaSessionProofs**, the writer. `RingIsExact` and `WriterIsAQueue`, for every packet size, every
  capacity and every size of message. The ring's contents are the inductive invariant
  themselves, with types: slot `(head + i) % Capacity` holds byte `consumed + i`. Writing
  preserves it because the two parts that are copied are together the slots
  `(tail + i) % Capacity` (`CopiesAppend`), none of which is among those in use; reading
  gives the oldest bytes for the same reason (`FrameIsOldest`). The refinement follows from the
  invariant: each action of the writer is `Accept`, `Send`, `Discard` or a stutter.
  `TonesAreExact` adds that a tone keeps the length and the step computed at its start;
  the rest is that the sum stays below `U16` for lengths that fit. `SessionIsExact` and
  `SessionIsAQueue` say the same of the whole session, whose steps are the writer's or
  leave the writer alone.
- **MediaSessionProofs**, negotiation. `BestCodecIsAgreed`, for any set of offers. There is
  nothing inductive about it: `HandleOffer` computes the answer in one step
  (`OfferInv`), and the proof is about `NegotiateStream`. `Pick` takes the first of the
  server's preferences that the offer lists; for L16 the first rtpmap of that name decides,
  which is usable because the offer has no stray one; and `CodecError` stays empty.
- **MediaSessionProofs**, digits. `TimestampsAreApart` and `DigitsArriveOnce`. `OneDigitInv` and
  `SourceInv` say that the writer has one digit at a time and takes them in order.
  `TimingInv` places the clock, the current digit's timestamp and the last packet's on the
  circle: the digit is behind the clock by its packets at most, and the last packet by a
  tone and one packet time for each digit taken since. With `DigitsAreNear` this is less
  than half of the circle, where differences modulo `U32` can be added (`Difference`,
  `DifferenceGrows`). For the reader, timestamps are compared by how far they are from the
  start: as long as `elapsed < U32`, the end packets of a later digit are later (`EndsInOrder`).
  So the last timestamp the reader keeps is that of the latest digit it has got
  (`ReaderInv`), a new digit differs from it and a repeated packet does not.
- **StereoRecorderProofs.** `RecordingIsComplete` and `SamplesAreWhole`, for any chunk sizes,
  capacity and threshold and any interleaving. `StreamInv` follows one number per side, up
  to where its bytes are in the file and the buffer; every pass of `process` keeps file and
  buffer together as they are (`Written`), taking a chunk moves the number on by its length
  (`FirstChunk`, `NumbersAreHeld`) and silence leaves it (`SilenceHoldsNothing`). That the
  number does not pass what was accepted cannot be had from the chunks without an induction
  along the queue; `QueueInv` (no byte in a queue is beyond it) makes it a fact about one
  chunk. For the end, silence comes in whole samples until `flush`, so what is left over is
  one byte, the last of an odd number (`OnlyAnOddByteIsLeft`). `HeaderInv` is about the disk:
  the size in the header is 0 until `Close` is through without an error, and then all that
  was handed over is on the disk and counted (`AllOnDisk`). `WholeInv` adds that all
  lengths are even and all pairs are samples, when chunks are.
- **ClientProofs.** `ChannelsClosedAfterPumps`, from the order of `Close`: the listen-only
  pump is started, or never will be, before `Close` can begin, so that the group it waits
  for is complete. `ClientBuffersAreExact` follows each buffer (`Followed`): it is in at most
  one of seven places, and once taken it is in one of them unless the client crashed.
- **JitterBufferProofs.** `BuffersAreReturnedOnce`, for every window and width of sequence
  numbers. Without `spread`, all packets that may still be released lie in one window
  (`OneWindow`), in which a slot determines its number (`SlotIsUnique`); the packets under
  way share no buffer (`ItemsAreDisjoint`). The delicate case is `Push` between its two
  halves: its buffer may be swept or handed out before pion has the packet. Then the
  packet is not later than the last one released, and pion refuses it (`TooLate`), which
  must be kept while others are released (`NearStaysNear`).

Only model-checked:

- the liveness properties (`WaitersAreWoken`, `EndedCallsFinish`, `EveryAgentLetGo`,
  `ClosingCallsLeave`, `SignalLeadsToExit`, both properties of `webrtc`, `CloseReturns`): they
  need fairness, which is outside what the prover handles;
- `ReusedLast`, which needs a history variable of `MCRTPManager`.

Every invariant and every other action property of a passing run is proved, and so are
both refinements, `ImplementsCallLifecycle` and `ImplementsAudioQueue`. `WebRTC` has liveness
properties only, and so no proofs.

## 6. What the models show beside the properties

Where the code does not keep a sentence of the documentation, a run shows it:

1. `slot_leak`: docs/websocket-api-spec.md:174 tells agents to reconnect. When the headers
   message cannot be written (http_handler.go:317), the handler returns without giving
   the reservation back, and every later upgrade of that call is refused.

Elsewhere a property states what does hold, and names its exception:

- The capacity limit (`LimitHoldsOneAtATime`). docs/sip-documentation.md:59 calls it "the
  absolute maximum"; the check at sip_handler.go:122 and the `Add` at line 287 are not
  atomic, and two INVITEs at once both pass.
- The drain (`DrainWaitsForCalls`). docs/devops-documentation.md:67: it "waits for all
  currently active calls". `Add` counts a call after it made it visible
  (call_manager.go:77); if the call is removed in between, the count is one too low for a
  moment, and with one other call active it is zero.
- The end of a call (`EndedCallsFinish`). The release loop sends outside its select
  (pion_jitter_buffer.go:275). If the output channel is full when the audio processor
  leaves, the send blocks for good, and `Shutdown` with it. It takes a backlog of 100
  packets. And a tone that never ends (below) keeps the writer from its select. Both keep
  the port and the registry entry; `ClosingCallsLeave` excepts such a call as `stuck`.
- Listeners (`MarksAreOpenSockets`). A second `ReleaseListener` of one socket would take the
  mark off the port's next owner (rtp_manager.go:147); the bind then fails all the same, and
  `PortsFollowCalls` shows that calls release once.
- WebRTC calls (`AnsweredCallsLeaveTheRegistry`, `ByeStopsTheMedia`). The error returns of
  `ProcessSignaling` after `Add` leave the call registered. `HangupCall` and the
  connection's callback forget the call without canceling its context: its audio
  processor runs on, and only the agent's `bye` stops it. A `bye` that is through before
  the callbacks are set (manager.go:155-160) closes nothing.
- Negotiation (`CommonCodecIsAgreed`). A first L16 line, listed, with a rate or channel count that is
  not supported turns the offer away though PCMU or PCMA is there (`err` at
  sip_handler.go:369 is still set at line 459). The first of several L16 or
  telephone-event lines decides. The answer gives telephone-event the rate of the codec
  and one channel, whatever the offer says. With an audio line first that is disabled or
  has no address, codec and address come from different lines.
- Tones (`TonesGrowToTheirLength`). Durations are 16 bits wide: a tone of more than about
  8 s at 8 kHz is cut to its length modulo 2^16. When what is left lies above the last
  multiple of the packet time that fits in 16 bits, the sum wraps around and the loop
  never ends.
- Digits (`EachDigitOnce`). One last timestamp is kept, so an end packet that comes after
  one of a later digit is reported again; and a digit whose timestamp is 0 is not, if it
  is the first. After 2^32 samples (six days at 8 kHz) a digit may have the timestamp of the
  one before it.
- Raw buffers (`RawBuffersReturnedOnce`). Two packets that wait 1024 numbers apart share a
  slot, and the first loses its buffer while its payload is still needed. `Stop` empties
  the ring while the release loop may take one more packet, whose payload is then in a
  buffer of the pool. A packet pushed after that stays in the ring: its buffer does not go
  back to the pool, which costs no more than a new one.
- The client (`CloseReturns`, `PumpsNeverMeetClosedChannels`). `Close` from the DTMF
  callback waits for itself. `SendDTMF` and `Hangup` do not look at `closed` and can panic
  on the closed channel, and so can a `Write` that was in its select; the close message
  (client.go:346) can meet a write of `writePump`, which the library forbids.
- The recording (`RecordingIsFaithful`, `SamplesStayWhole`). A failed write is logged
  (recorder.go:291) and the bytes are dropped; the file then ends where the disk failed, and
  its header says 0 bytes. An agent's message with an odd number of bytes,
  followed by padding, displaces that side by a byte.

Also seen: `connected` and `disconnected` are published by different goroutines and may
arrive in either order; a call whose ACK never comes, or whose reader met a read error,
has no media timeout.

## 7. Not modelled

Samples: the G.711 tables and the arithmetic of the encoders have no state and are
unit-tested; `Packetizer` repeats the writer's ring for an earlier interface and has no
caller but its test. The Ogg writer is a file format. The size classes of the buffer
pool. Logging, metrics, Redis, configuration parsing, address lookup, authentication and
the read-only HTTP endpoints: I/O and formatting. pion, sipgo and gorilla/websocket
except for how this code uses them. The load test tool, which drives the service from
outside and is no part of it.

## 8. Plan

What is left, in order of importance:

1. A WebRTC call's bridge and processor composed from `AudioBridge` with
   `WebRTC = TRUE` and `WebRTC`, and the registry of `CallManager` under both.
2. An abstract specification of a recording that `StereoRecorder` implements, if a second
   format is written with silence and interleaving of its own.
3. The Ogg writer's pages, as far as their order and the end of the stream go.
