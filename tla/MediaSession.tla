---------------------------- MODULE MediaSession ----------------------------
(***************************************************************************)
(* A call's media from the offer to the digits: handleInvite negotiates a    *)
(* stream (Negotiation), the ACK starts the writer (RTPWriter), the agent    *)
(* sends audio and DTMF requests, the network loses, repeats and reorders    *)
(* packets, and StartReader of the other end reports the digits.             *)
(***************************************************************************)
EXTENDS Negotiation, RTPWriter, FiniteSets

CONSTANTS Inputs,     \* pairs <<WebSocketCodec, offer>>
          Asked,      \* pairs <<digit, duration>> that the agent asks for
          SourceCap,  \* capacity of the channel of DTMF requests (10)
          MaxBytes    \* bound: audio bytes the ring accepts

\* The payload types of rtpmap lines fit in the eight bits that the code keeps of
\* them (in RTP they have seven).
MapLine == [name : STRING, pt : 0..(U8 - 1), rate : Int, ch : Int]
FitsRTP(offer) ==
  /\ offer.media \in Seq({ offer.media[i] : i \in DOMAIN offer.media })
  /\ \A i \in DOMAIN offer.media :
       offer.media[i].port \in Int /\ offer.media[i].maps \in Seq(MapLine)

\* The codecs that may be configured; requests are numbered from 1.
ASSUME MediaSessionConstants ==
  /\ \A in \in Inputs : in[1] \in {"PASS", "L16", "PCMU", "PCMA"} /\ FitsRTP(in[2])
  /\ IsFiniteSet(Requests) /\ Requests = 1..Cardinality(Requests)
  /\ \A a \in Asked : a[2] \in Durations

\* A tone, and all the digits of a session asked for at once behind it, take less than
\* half of the 32 bits.  (A tone has at most 2^16 packets, so there may be a hundred
\* thousand digits at any rate the service supports.)
ASSUME DigitsAreNear ==
  (Cardinality(Requests) + MaxPayloads + 4) * TsIncrement < U32 \div 2

VARIABLES phase,      \* "offer", "answered", "media", "stopped"
          input,      \* the codec configured and the offer
          answer,     \* what handleInvite found
          dtmfOK,     \* cfg.Info.DTMFPayloadType is not 0
          asked,      \* the requests so far: [digit, ms]
          dtmfSource, \* the channel of requests: numbers of asked
          link,       \* end packets in the network: [req, ts, event]
          lastDTMFTimestamp,
          reports,    \* reports[r]: what the reader reported for request r
          delivered,  \* history: end packets the reader has got
          crossed     \* history: an end packet came after one of a later digit

sdpVars == <<input, answer, dtmfOK>>
readerVars == <<lastDTMFTimestamp, reports, delivered, crossed>>
msVars == <<phase, sdpVars, asked, dtmfSource, link, readerVars, rwVars>>

Forgotten == <<>>

MSInit ==
  /\ phase = "offer"
  /\ input \in Inputs
  /\ answer = Forgotten /\ dtmfOK = FALSE
  /\ asked = <<>> /\ dtmfSource = <<>> /\ link = {}
  /\ lastDTMFTimestamp = 0
  /\ reports = [r \in Requests |-> <<>>]
  /\ delivered = {} /\ crossed = FALSE
  /\ RWInit

----------------------------------------------------------------------------
(* The offer and the ACK                                                    *)

HandleOffer ==
  /\ phase = "offer"
  /\ phase' = "answered"
  /\ answer' = [status |-> Status(input[1], input[2]),
                stream |-> NegotiateStream(input[1], input[2]),
                addr |-> RemoteAddr(input[2])]
  /\ UNCHANGED <<input, dtmfOK, asked, dtmfSource, link, readerVars, rwVars>>

\* What the writer needs of the stream: whether it may send digits.
StartMedia ==
  /\ phase = "answered" /\ answer.status = 200
  /\ phase' = "media"
  /\ dtmfOK' = (answer.stream.dtmf # 0)
  /\ input' = Forgotten /\ answer' = Forgotten
  /\ UNCHANGED <<asked, dtmfSource, link, readerVars, rwVars>>

----------------------------------------------------------------------------
(* The agent and the writer                                                 *)

\* SetOnDTMF's callback: a send that does not block.
AgentDTMF(a) ==
  /\ phase = "media" /\ Len(asked) < Cardinality(Requests)
  /\ asked' = Append(asked, [digit |-> a[1], ms |-> a[2]])
  /\ dtmfSource' = IF Len(dtmfSource) < SourceCap
                   THEN Append(dtmfSource, Len(asked) + 1) ELSE dtmfSource
  /\ UNCHANGED <<phase, sdpVars, link, readerVars, rwVars>>

TakeDTMF ==
  /\ phase = "media" /\ dtmfSource # <<>>
  /\ dtmfSource' = Tail(dtmfSource)
  /\ \/ dtmfOK /\ DTMFRequest(Head(dtmfSource), asked[Head(dtmfSource)].ms)
     \/ ~dtmfOK /\ gen = Idle /\ UNCHANGED rwVars
  /\ UNCHANGED <<phase, sdpVars, asked, link, readerVars>>

AgentAudio ==
  /\ phase = "media" /\ accepted < MaxBytes
  /\ \E n \in Chunks : AudioData(n)
  /\ UNCHANGED <<phase, sdpVars, asked, dtmfSource, link, readerVars>>

WriterGenerates ==
  /\ phase = "media"
  /\ Generate
  /\ UNCHANGED <<phase, sdpVars, asked, dtmfSource, link, readerVars>>

\* eventToDigit
EventDigits == <<"0", "1", "2", "3", "4", "5", "6", "7", "8", "9", "*", "#", "A", "B", "C", "D">>

\* strings.ToUpper, on the digits that have a case.
Upper(d) == CASE d = "a" -> "A" [] d = "b" -> "B" [] d = "c" -> "C" [] d = "d" -> "D" [] OTHER -> d

\* digitToEvent: anything else becomes event 0.
DigitToEvent(d) ==
  IF \E i \in 1..16 : EventDigits[i] = Upper(d)
  THEN (CHOOSE i \in 1..16 : EventDigits[i] = Upper(d)) - 1
  ELSE 0

\* An end packet goes to the network; the reader only acts on those.
WriterTicks ==
  /\ phase = "media"
  /\ Tick
  /\ link' = IF sent'.end /\ sent' # sent
             THEN link \cup {[req |-> sent'.req, ts |-> sent'.ts,
                              event |-> DigitToEvent(asked[sent'.req].digit)]}
             ELSE link
  /\ UNCHANGED <<phase, sdpVars, asked, dtmfSource, readerVars>>

\* The context is done: what is pending goes back to the pool.
WriterStops ==
  /\ phase = "media" /\ gen = Idle
  /\ phase' = "stopped"
  /\ pending' = <<>>
  /\ UNCHANGED <<sdpVars, asked, dtmfSource, link, readerVars, ringVars, gen, dtmfTs,
                 clock, seqNum, sent, frame>>

----------------------------------------------------------------------------
(* The network and the reader of the other end                              *)

\* All three copies of an end packet are lost.
Lose(p) ==
  /\ link' = link \ {p}
  /\ UNCHANGED <<phase, sdpVars, asked, dtmfSource, readerVars, rwVars>>

\* Mutant: the timestamp is compared and not kept.
DedupeForgets(p) == lastDTMFTimestamp

\* lastDTMFTimestamp = packet.Raw.Timestamp
DedupeKeeps(p) == p.ts

\* ParseDTMFPayload: the digit of an event.
ParsedDigit(p) == EventDigits[p.event + 1]

\* A copy arrives: the test for a digit reported already.
Deliver(p) ==
  /\ IF p.ts # lastDTMFTimestamp
     THEN /\ lastDTMFTimestamp' = DedupeKeeps(p)
          /\ reports' = [reports EXCEPT ![p.req] = Append(@, ParsedDigit(p))]
     ELSE UNCHANGED <<lastDTMFTimestamp, reports>>
  /\ delivered' = delivered \cup {p}
  /\ crossed' = (crossed \/ \E q \in delivered : q.req > p.req)
  /\ UNCHANGED <<phase, sdpVars, asked, dtmfSource, link, rwVars>>

----------------------------------------------------------------------------
MSNext ==
  \/ HandleOffer \/ StartMedia
  \/ \E a \in Asked : AgentDTMF(a)
  \/ TakeDTMF \/ AgentAudio \/ WriterGenerates \/ WriterTicks \/ WriterStops
  \/ \E p \in link : Lose(p) \/ (~crossed /\ Deliver(p))

MSSpec == MSInit /\ [][MSNext]_msVars

----------------------------------------------------------------------------
ValidDigit(d) == \E i \in 1..16 : EventDigits[i] = Upper(d)

\* A digit of which any end packet arrives is reported exactly once, as the digit
\* that was asked for, though three copies are sent and the network repeats, loses
\* and reorders them, and though the same digit may be sent twice in a row; unless
\* an end packet comes after one of a later digit, or the digit has the timestamp
\* that lastDTMFTimestamp starts from, or the stream is so long (2^32 samples, six
\* days at 8 kHz) that timestamps come again.
EachDigitOnce ==
  \A p \in delivered :
    \/ crossed \/ p.ts = 0 \/ elapsed >= U32
    \/ /\ Len(reports[p.req]) = 1
       /\ ValidDigit(asked[p.req].digit) =>
            reports[p.req] = <<Upper(asked[p.req].digit)>>

\* The codecs both sides could use, best first, by the configured codec.
Preferences(ws) ==
  CASE ws \in {"PASS", "L16"} -> <<"L16", "PCMU", "PCMA">>
    [] ws \in {"PCMU", "PCMA"} -> <<ws>>
Offers(m, name) ==
  CASE name = "PCMU" -> PCMU \in m.fmts
    [] name = "PCMA" -> PCMA \in m.fmts
    [] name = "L16" -> \E i \in 1..Len(m.maps) :
         m.maps[i].name = "L16" /\ m.maps[i].pt \in m.fmts /\ ValidL16(m.maps[i])

\* A first L16 line that leads the search astray: its payload type is listed with a
\* rate or channels that are not supported, or it stands before a usable one.
StrayL16(m) == ~L16Usable(m) /\ (L16Listed(m) \/ Offers(m, "L16"))

\* What handleInvite finds, from the offer and the configured codec.
Agreed(ws, offer, found) ==
  LET a == FirstOf(offer.media, IsAudio)
      m == offer.media[a]
      prefs == Preferences(ws)
      common == { i \in 1..Len(prefs) : Offers(m, prefs[i]) }
      stream == found.stream
  IN a # 0 /\ found.addr.ok /\ (StrayL16(m) => ws \notin {"PASS", "L16"}) =>
       /\ (found.status = 200) = (common # {})
       /\ stream.ok =>
            /\ \E i \in common : stream.codec.name = prefs[i] /\ \A j \in common : i <= j
            /\ Encoding(ws, stream.codec) # "error"
            /\ Answer(stream).fmts \subseteq m.fmts
            /\ \A map \in { Answer(stream).maps[i] : i \in 1..Len(Answer(stream).maps) } :
                 \/ map.pt \in {PCMU, PCMA}
                 \/ \E i \in 1..Len(m.maps) : m.maps[i] = map
                 \/ map.name = "telephone-event"
                      /\ LET tel == DynamicPT(m, "telephone-event")
                         IN tel.rate # stream.codec.rate \/ tel.ch # 1
       /\ m.port > 0 /\ MediaIP(offer, a) # NoAddr => found.addr.media = a

\* A caller with a codec in common is not turned away, and gets the best one, under
\* the payload type and parameters it offered; the writer can encode for it; and
\* the media address belongs to the media that was negotiated.  Except: a stray
\* L16 line, a telephone-event that is not at the codec's rate with one channel, and
\* an audio line with port 0 or without an address before the live one.
CommonCodecIsAgreed == phase = "answered" => Agreed(input[1], input[2], answer)
=============================================================================
