----------------------------- MODULE Negotiation -----------------------------
(***************************************************************************)
(* What handleInvite makes of an SDP offer: negotiateStream and              *)
(* getRemoteRTPAddr (internal/sip/sip_handler.go), the codec constructors    *)
(* (internal/audio/codec.go) and GenerateAnswer (internal/sdp/sdp.go), with  *)
(* encodeOutboundPayload (internal/rtp/rtp_handler.go), which the agreed     *)
(* stream has to be within the reach of.                                     *)
(*                                                                         *)
(* An offer is [ip, media], media a sequence of                              *)
(*   [kind, ip, port, fmts, maps, ptime]                                     *)
(* with fmts the payload types of the m= line, maps the rtpmap lines as      *)
(* [name, pt, rate, ch], and ptime the attribute's value, 0 for none or for  *)
(* one that is not a positive number.                                        *)
(***************************************************************************)
EXTENDS Integers, Sequences

CONSTANTS NoAddr  \* no IP address

PCMU == 0
PCMA == 8
U8 == 256

\* The first element that satisfies a test, by its index; 0 for none.
FirstOf(seq, Test(_)) ==
  LET hits == { i \in 1..Len(seq) : Test(seq[i]) }
  IN IF hits = {} THEN 0 ELSE CHOOSE i \in hits : \A j \in hits : i <= j

IsAudio(m) == m.kind = "audio"

\* getDynamicPT: the first rtpmap with this name decides; the payload type is cut
\* to eight bits.
DynamicPT(m, name) ==
  LET IsNamed(map) == map.name = name
      i == FirstOf(m.maps, IsNamed)
  IN IF i = 0 THEN [ok |-> FALSE]
     ELSE [ok |-> TRUE, pt |-> m.maps[i].pt % U8, rate |-> m.maps[i].rate, ch |-> m.maps[i].ch]

Listed(m, pt) == pt \in m.fmts

\* NewCodecL16's two checks.
ValidL16(map) ==
  /\ map.rate \in {8000, 16000, 24000, 32000, 44100, 48000}
  /\ map.ch \in {1, 2}

\* The first L16 of the offer, when its payload type is listed.
L16Listed(m) == LET l16 == DynamicPT(m, "L16") IN l16.ok /\ Listed(m, l16.pt)
L16Usable(m) == L16Listed(m) /\ ValidL16(DynamicPT(m, "L16"))

CodecL16(m) ==
  LET l16 == DynamicPT(m, "L16")
  IN [name |-> "L16", pt |-> l16.pt, rate |-> l16.rate, ch |-> l16.ch, big |-> TRUE]
CodecG711(name, pt) == [name |-> name, pt |-> pt, rate |-> 8000, ch |-> 1, big |-> FALSE]
NoCodec == [name |-> "none"]

\* Mutant: A-law is looked for before mu-law.
PickPCMAFirst(ws, m) ==
  IF ws \in {"PASS", "L16"} /\ L16Usable(m) THEN CodecL16(m)
  ELSE IF ws \in {"PASS", "L16", "PCMA"} /\ Listed(m, PCMA) THEN CodecG711("PCMA", PCMA)
  ELSE IF ws \in {"PASS", "L16", "PCMU"} /\ Listed(m, PCMU) THEN CodecG711("PCMU", PCMU)
  ELSE NoCodec

\* The codec that the preference order L16, PCMU, PCMA finds (found in the code),
\* for pass-through and for L16 to the agent; a G.711 codec is looked for alone.
Pick(ws, m) ==
  IF ws \in {"PASS", "L16"} /\ L16Usable(m) THEN CodecL16(m)
  ELSE IF ws \in {"PASS", "L16", "PCMU"} /\ Listed(m, PCMU) THEN CodecG711("PCMU", PCMU)
  ELSE IF ws \in {"PASS", "L16", "PCMA"} /\ Listed(m, PCMA) THEN CodecG711("PCMA", PCMA)
  ELSE NoCodec

\* err keeps NewCodecL16's error when a later codec has been found.
CodecError(ws, m) == ws \in {"PASS", "L16"} /\ L16Listed(m) /\ ~L16Usable(m)

\* The telephone-event payload type, 0 for none.
DTMFPayloadType(m) ==
  LET tel == DynamicPT(m, "telephone-event")
  IN IF tel.ok /\ Listed(m, tel.pt) THEN tel.pt ELSE 0

Rejected == [ok |-> FALSE]

NegotiateStream(ws, offer) ==
  LET a == FirstOf(offer.media, IsAudio)
      m == offer.media[a]
  IN IF a = 0 THEN Rejected
     ELSE IF Pick(ws, m) = NoCodec \/ CodecError(ws, m) THEN Rejected
     ELSE [ok |-> TRUE, codec |-> Pick(ws, m), dtmf |-> DTMFPayloadType(m),
           ptime |-> IF m.ptime > 0 THEN m.ptime ELSE 20]

\* The address of the i-th media: its own connection line, or that of the nearest
\* audio media before it that has one, or the session's.
MediaIP(offer, i) ==
  LET own == { j \in 1..i : IsAudio(offer.media[j]) /\ offer.media[j].ip # NoAddr }
  IN IF own = {} THEN offer.ip ELSE offer.media[CHOOSE j \in own : \A k \in own : k <= j].ip

\* getRemoteRTPAddr: the first audio media that has an address and a port.
RemoteAddr(offer) ==
  LET usable == { i \in 1..Len(offer.media) :
                    /\ IsAudio(offer.media[i])
                    /\ MediaIP(offer, i) # NoAddr
                    /\ offer.media[i].port > 0 }
      i == CHOOSE j \in usable : \A k \in usable : j <= k
  IN IF usable = {} THEN Rejected
     ELSE [ok |-> TRUE, ip |-> MediaIP(offer, i), port |-> offer.media[i].port, media |-> i]

\* The status of the response, as far as the offer decides it.
Status(ws, offer) ==
  IF ~NegotiateStream(ws, offer).ok THEN 488
  ELSE IF ~RemoteAddr(offer).ok THEN 400
  ELSE 200

\* GenerateAnswer: the formats and the rtpmaps of the 200 OK.
Answer(stream) ==
  [fmts |-> {stream.codec.pt} \cup IF stream.dtmf = 0 THEN {} ELSE {stream.dtmf},
   maps |-> <<[name |-> stream.codec.name, pt |-> stream.codec.pt,
               rate |-> stream.codec.rate, ch |-> stream.codec.ch]>>
            \o IF stream.dtmf = 0 THEN <<>>
               ELSE <<[name |-> "telephone-event", pt |-> stream.dtmf,
                       rate |-> stream.codec.rate, ch |-> 1]>>,
   ptime |-> stream.ptime]

\* encodeOutboundPayload: what becomes of the agent's audio on its way out.
WsFormat(ws, codec) == IF ws = "PASS" THEN codec.name ELSE ws
Encoding(ws, codec) ==
  IF WsFormat(ws, codec) = codec.name
  THEN IF codec.name = "L16" /\ ws # "PASS" /\ codec.big THEN "swap" ELSE "copy"
  ELSE CASE codec.name = "PCMU" -> "mulaw"
         [] codec.name = "PCMA" -> "alaw"
         [] codec.name = "L16" -> IF codec.big THEN "swap" ELSE "copy"
         [] OTHER -> "error"
=============================================================================
