------------------------------- MODULE Client -------------------------------
(***************************************************************************)
(* The Go client of a call's WebSocket (pkg/client/client.go): NewClient,    *)
(* the goroutines readPump, writePump and listenOnlyPump, the two channels   *)
(* between them and the application, and Close.  Close runs once, for        *)
(* NewClient when the handshake fails, for the application, or for the       *)
(* application's DTMF callback.                                              *)
(*                                                                         *)
(* Buffers of the pool are numbered as they are taken, so that every one can *)
(* be followed; a message of the send channel is its buffer's number, or     *)
(* Text for JSON, which is not pooled.                                       *)
(***************************************************************************)
EXTENDS Integers, Sequences, FiniteSets

CONSTANTS Cap,        \* capacity of the send and receive channels (100)
          ListenOnly, \* cfg.ListenOnly
          MaxBuffers  \* bound: buffers taken from the pool

ASSUME ClientConstants == Cap \in Nat \ {0} /\ ListenOnly \in BOOLEAN /\ MaxBuffers \in Nat

Buffers == 1..MaxBuffers
Text == 0
Nothing == -1

\* The goroutines that call Write, SendDTMF and Hangup: one of the application's,
\* and readPump when it is in the DTMF callback.
Callers == {"app", "callback"}

VARIABLES new,       \* NewClient: "dial", "wait", "ok", "close", "failed"
          metaWait,  \* the channel metaWait is closed
          ctxDone,   \* c.ctx is done
          connOpen,  \* reads and writes can succeed
          reader,    \* "none", "next", "callback", "done"
          writer,    \* "none", "select", "writing", "done"
          writing,   \* the message writePump is writing
          listener,  \* "none", "tick", "done"
          send, sendClosed, receive, receiveClosed,
          call,      \* call[p]: the message p waits to send, or Nothing
          closing,   \* Close: "open", "cancel", "message", "conn", "wait", "send",
                     \*        "receive", "done"
          closer,    \* who called it
          taken,     \* how many buffers were taken
          puts,      \* how often each went back to the pool
          handed,    \* buffers that Read gave to the application
          crashed    \* a send on a closed channel, or two writers at once

pumps == <<reader, writer, writing, listener>>
channels == <<send, sendClosed, receive, receiveClosed>>
pool == <<taken, puts, handed>>
clVars == <<new, metaWait, ctxDone, connOpen, pumps, channels, call, closing, closer, pool,
            crashed>>

CLInit ==
  /\ new = "dial" /\ metaWait = FALSE /\ ctxDone = FALSE /\ connOpen = FALSE
  /\ reader = "none" /\ writer = "none" /\ writing = Nothing /\ listener = "none"
  /\ send = <<>> /\ sendClosed = FALSE
  /\ receive = <<>> /\ receiveClosed = FALSE
  /\ call = [p \in Callers |-> Nothing]
  /\ closing = "open" /\ closer = "none"
  /\ taken = 0 /\ puts = [b \in Buffers |-> 0] /\ handed = {}
  /\ crashed = FALSE

Put(bufs) == puts' = [b \in Buffers |-> IF b \in bufs THEN puts[b] + 1 ELSE puts[b]]
InQueue(q) == { q[i] : i \in 1..Len(q) }
Binary(msgs) == msgs \ {Text}

----------------------------------------------------------------------------
(* NewClient and the contexts                                               *)

\* No token, or no connection.
DialFails ==
  /\ new = "dial"
  /\ new' = "failed" /\ ctxDone' = TRUE
  /\ UNCHANGED <<metaWait, connOpen, pumps, channels, call, closing, closer, pool, crashed>>

DialSucceeds ==
  /\ new = "dial"
  /\ new' = "wait" /\ connOpen' = TRUE
  /\ reader' = "next" /\ writer' = "select"
  /\ UNCHANGED <<metaWait, ctxDone, writing, listener, channels, call, closing, closer, pool,
                 crashed>>

Metadata ==
  /\ new = "wait" /\ metaWait
  /\ new' = "ok"
  /\ listener' = IF ListenOnly THEN "tick" ELSE "none"
  /\ UNCHANGED <<metaWait, ctxDone, connOpen, reader, writer, writing, channels, call, closing,
                 closer, pool, crashed>>

\* The context is done before the metadata, or ten seconds have passed.
HandshakeFails ==
  /\ new = "wait"
  /\ new' = "close"
  /\ closing' = "cancel" /\ closer' = "new"
  /\ UNCHANGED <<metaWait, ctxDone, connOpen, pumps, channels, call, pool, crashed>>

\* The context NewClient was given is canceled.
ParentCanceled ==
  /\ new # "dial" /\ ~ctxDone
  /\ ctxDone' = TRUE
  /\ UNCHANGED <<new, metaWait, connOpen, pumps, channels, call, closing, closer, pool, crashed>>

----------------------------------------------------------------------------
(* readPump                                                                 *)

\* A binary message: with room it goes to the application, without room, or when
\* muted or unreadable, its buffer goes straight back.
ReadBinary ==
  /\ reader = "next" /\ connOpen
  /\ taken < MaxBuffers /\ Len(receive) < Cap
  /\ taken' = taken + 1
  /\ receive' = Append(receive, taken + 1)
  /\ crashed' = receiveClosed
  /\ UNCHANGED <<new, metaWait, ctxDone, connOpen, pumps, send, sendClosed, receiveClosed, call,
                 closing, closer, puts, handed>>

ReadMetadata ==
  /\ reader = "next" /\ connOpen /\ ~metaWait
  /\ metaWait' = TRUE
  /\ UNCHANGED <<new, ctxDone, connOpen, pumps, channels, call, closing, closer, pool, crashed>>

\* A digit, when a callback is registered.
ReadDTMF ==
  /\ reader = "next" /\ connOpen /\ new = "ok"
  /\ reader' = "callback"
  /\ UNCHANGED <<new, metaWait, ctxDone, connOpen, writer, writing, listener, channels, call,
                 closing, closer, pool, crashed>>

CallbackReturns ==
  /\ reader = "callback"
  /\ call["callback"] = Nothing /\ ~(closer = "callback" /\ closing # "done")
  /\ reader' = "next"
  /\ UNCHANGED <<new, metaWait, ctxDone, connOpen, writer, writing, listener, channels, call,
                 closing, closer, pool, crashed>>

\* call_ended, and the deferred cancel.
ReadEnds ==
  /\ reader = "next"
  /\ reader' = "done" /\ ctxDone' = TRUE
  /\ UNCHANGED <<new, metaWait, connOpen, writer, writing, listener, channels, call, closing,
                 closer, pool, crashed>>

\* NextReader fails when the connection is closed.
ReadFails == ~connOpen /\ ReadEnds
ReadCallEnded == connOpen /\ ReadEnds

\* The peer is gone, or no pong came in time.
PeerGone ==
  /\ connOpen
  /\ connOpen' = FALSE
  /\ UNCHANGED <<new, metaWait, ctxDone, pumps, channels, call, closing, closer, pool, crashed>>

----------------------------------------------------------------------------
(* writePump and listenOnlyPump                                             *)

WriterTakes ==
  /\ writer = "select" /\ send # <<>>
  /\ writer' = "writing"
  /\ writing' = Head(send)
  /\ send' = Tail(send)
  /\ UNCHANGED <<new, metaWait, ctxDone, connOpen, reader, listener, sendClosed, receive,
                 receiveClosed, call, closing, closer, pool, crashed>>

Written(next) ==
  /\ writer = "writing"
  /\ writer' = next /\ writing' = Nothing
  /\ Put(Binary({writing}))
  /\ UNCHANGED <<new, metaWait, connOpen, reader, listener, channels, call, closing, closer,
                 taken, handed, crashed>>

WriteSucceeds == connOpen /\ Written("select") /\ UNCHANGED ctxDone
WriteFails == Written("done") /\ ctxDone' = TRUE

\* The context is done, the channel is closed, or a ping fails.
WriterEnds ==
  /\ writer = "select"
  /\ ctxDone \/ sendClosed \/ ~connOpen
  /\ writer' = "done" /\ ctxDone' = TRUE
  /\ UNCHANGED <<new, metaWait, connOpen, reader, writing, listener, channels, call, closing,
                 closer, pool, crashed>>

\* Silence at each tick, if there is room for it.
ListenerTicks ==
  /\ listener = "tick" /\ taken < MaxBuffers /\ Len(send) < Cap
  /\ taken' = taken + 1
  /\ send' = Append(send, taken + 1)
  /\ crashed' = sendClosed
  /\ UNCHANGED <<new, metaWait, ctxDone, connOpen, pumps, sendClosed, receive, receiveClosed,
                 call, closing, closer, puts, handed>>

ListenerEnds ==
  /\ listener = "tick" /\ ctxDone
  /\ listener' = "done"
  /\ UNCHANGED <<new, metaWait, ctxDone, connOpen, reader, writer, writing, channels, call,
                 closing, closer, pool, crashed>>

----------------------------------------------------------------------------
(* Write, SendDTMF, Hangup and Read                                         *)

MayCall(p) ==
  /\ new = "ok" /\ call[p] = Nothing
  /\ p = "callback" => reader = "callback" /\ (closer = "callback" => closing = "done")

\* Write up to its select: refused once Close has begun.
Write(p) ==
  /\ MayCall(p) /\ closing = "open" /\ taken < MaxBuffers
  /\ taken' = taken + 1
  /\ call' = [call EXCEPT ![p] = taken + 1]
  /\ UNCHANGED <<new, metaWait, ctxDone, connOpen, pumps, channels, closing, closer, puts, handed,
                 crashed>>

\* SendDTMF and Hangup do not look at closed.
SendText(p) ==
  /\ MayCall(p)
  /\ call' = [call EXCEPT ![p] = Text]
  /\ UNCHANGED <<new, metaWait, ctxDone, connOpen, pumps, channels, closing, closer, pool, crashed>>

\* select: the send, which panics on a closed channel...
CallSends(p) ==
  /\ call[p] # Nothing /\ (sendClosed \/ Len(send) < Cap)
  /\ call' = [call EXCEPT ![p] = Nothing]
  /\ send' = IF sendClosed THEN send ELSE Append(send, call[p])
  /\ crashed' = sendClosed
  /\ UNCHANGED <<new, metaWait, ctxDone, connOpen, pumps, sendClosed, receive, receiveClosed,
                 closing, closer, pool>>

\* Mutant: what was to be sent is forgotten.
GivenUpForgets(msg) == {}

\* What goes back to the pool when a call gives up.
GivenUp(msg) == Binary({msg})

\* ... or one of the contexts, the caller's own or the client's.
CallGivesUp(p) ==
  /\ call[p] # Nothing
  /\ call' = [call EXCEPT ![p] = Nothing]
  /\ Put(GivenUp(call[p]))
  /\ UNCHANGED <<new, metaWait, ctxDone, connOpen, pumps, channels, closing, closer, taken, handed,
                 crashed>>

Read ==
  /\ new = "ok" /\ receive # <<>>
  /\ handed' = handed \cup {Head(receive)}
  /\ receive' = Tail(receive)
  /\ UNCHANGED <<new, metaWait, ctxDone, connOpen, pumps, send, sendClosed, receiveClosed, call,
                 closing, closer, taken, puts, crashed>>

----------------------------------------------------------------------------
(* Close                                                                    *)

\* The CompareAndSwap: a second caller returns at once.
CloseBegins(p) ==
  /\ MayCall(p) /\ closing = "open"
  /\ closing' = "cancel" /\ closer' = p
  /\ UNCHANGED <<new, metaWait, ctxDone, connOpen, pumps, channels, call, pool, crashed>>

Closes(from, to) == closing = from /\ closing' = to /\ UNCHANGED <<closer, metaWait, call, taken,
                                                                   handed, pumps>>

CloseCancels ==
  /\ Closes("cancel", "message")
  /\ ctxDone' = TRUE
  /\ UNCHANGED <<new, connOpen, channels, puts, crashed>>

\* The close message: the library panics when it sees two writers at once.
CloseWrites ==
  /\ Closes("message", "conn")
  /\ crashed' \in {FALSE, writer = "writing"}
  /\ UNCHANGED <<new, ctxDone, connOpen, channels, puts>>

\* Mutant: the connection is left for the peer to close.
ConnAfterCloseOpen == connOpen
ConnAfterClose == FALSE

CloseClosesConn ==
  /\ Closes("conn", "wait")
  /\ connOpen' = ConnAfterClose
  /\ UNCHANGED <<new, ctxDone, channels, puts, crashed>>

\* Mutant: the listen-only pump is not one of the group.
GroupDonePumpsOnly == reader = "done" /\ writer = "done"

\* eg.Wait
GroupDone == reader = "done" /\ writer = "done" /\ listener # "tick"

CloseWaits ==
  /\ Closes("wait", "send")
  /\ GroupDone
  /\ UNCHANGED <<new, ctxDone, connOpen, channels, puts, crashed>>

\* close(c.send), and what is in it goes back to the pool.
CloseDrainsSend ==
  /\ Closes("send", "receive")
  /\ sendClosed' = TRUE /\ send' = <<>>
  /\ Put(Binary(InQueue(send)))
  /\ UNCHANGED <<new, ctxDone, connOpen, receive, receiveClosed, crashed>>

CloseDrainsReceive ==
  /\ Closes("receive", "done")
  /\ receiveClosed' = TRUE /\ receive' = <<>>
  /\ Put(InQueue(receive))
  /\ new' = IF closer = "new" THEN "failed" ELSE new
  /\ UNCHANGED <<ctxDone, connOpen, send, sendClosed, crashed>>

----------------------------------------------------------------------------
CloseSteps == CloseCancels \/ CloseWrites \/ CloseClosesConn \/ CloseWaits \/ CloseDrainsSend
              \/ CloseDrainsReceive
ReaderSteps == ReadBinary \/ ReadMetadata \/ ReadDTMF \/ CallbackReturns \/ ReadFails
               \/ ReadCallEnded
WriterSteps == WriterTakes \/ WriteSucceeds \/ WriteFails \/ WriterEnds
CallSteps(p) == CallSends(p) \/ CallGivesUp(p)

\* A panic ends the program.
CLNext ==
  /\ ~crashed
  /\ \/ DialFails \/ DialSucceeds \/ Metadata \/ HandshakeFails \/ ParentCanceled
     \/ ReaderSteps \/ PeerGone \/ WriterSteps \/ ListenerTicks \/ ListenerEnds \/ Read
     \/ \E p \in Callers : Write(p) \/ SendText(p) \/ CallSteps(p) \/ CloseBegins(p)
     \/ CloseSteps

CLSpec == CLInit /\ [][CLNext]_clVars

\* Runnable goroutines run.  No message need ever come, and nobody need call, but a
\* call whose context is done gives up, and a callback returns, however many calls
\* it makes before.
CLFairSpec ==
  /\ CLSpec
  /\ WF_clVars(~crashed /\ CloseSteps)
  /\ WF_clVars(~crashed /\ ReadFails)
  /\ SF_clVars(~crashed /\ CallbackReturns)
  /\ WF_clVars(~crashed /\ WriterSteps)
  /\ WF_clVars(~crashed /\ ListenerEnds)
  /\ \A p \in Callers : WF_clVars(~crashed /\ ctxDone /\ CallSteps(p))

----------------------------------------------------------------------------
\* Close closes a channel only when nobody but the application can use it: a pump
\* that sent on a closed one would end the program, and one that received from it
\* would take its end for that of the client.  The listen-only pump is in the group
\* that Close waits for though it starts after the others may have ended.
PumpsNeverMeetClosedChannels ==
  /\ sendClosed => writer \in {"none", "done"} /\ listener # "tick"
  /\ receiveClosed => reader \in {"none", "done"}

\* A buffer is in one place: in a channel, with writePump, with a call, with the
\* application, or back in the pool, where it goes once.  After Close all that the
\* client took are back, but for those that Read handed out and those of calls that
\* are still in their select.
BuffersReturnedOnce ==
  LET places == << InQueue(send), {writing}, {call["app"]}, {call["callback"]}, InQueue(receive),
                   handed, { b \in Buffers : puts[b] > 0 } >>
      At(i) == places[i] \ {Text, Nothing}
      calls == { call[p] : p \in Callers }
  IN /\ \A i, j \in 1..Len(places) : i < j => At(i) \cap At(j) = {}
     /\ \A b \in Buffers : puts[b] <= 1
     /\ closing = "done" /\ ~crashed =>
          \A b \in 1..taken : puts[b] = 1 \/ b \in handed \/ b \in calls

\* Close comes to its end, whatever the pumps and the calls are blocked on and
\* whatever the peer does; except when the DTMF callback calls it: readPump is then
\* waiting for Close and Close for readPump.
CloseReturns ==
  closing = "cancel" /\ closer # "callback" ~> closing = "done" \/ crashed
=============================================================================
