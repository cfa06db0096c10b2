----------------------------- MODULE SIPService -----------------------------
(***************************************************************************)
(* The service as a whole: the SIP handlers (internal/sip/sip_handler.go)    *)
(* and the application's life (internal/app/app.go, cmd/teleportal/main.go)  *)
(* over the call registry (CallManager), the port allocator (RTPManager)     *)
(* and the calls themselves (CallLifecycle, which ActiveCall implements).    *)
(*                                                                         *)
(* sipgo runs each request in a goroutine of its own, so the steps of one    *)
(* handleInvite interleave with those of others, with BYE, CANCEL and ACK    *)
(* handlers that looked their call up earlier, with calls that are shutting  *)
(* down, with a configuration reload and with the drain.                     *)
(***************************************************************************)
EXTENDS Integers, FiniteSets

CONSTANTS Invites,  \* INVITE transactions, and the calls they may create
          CallIDs, SipID, NoCall,
          PortMin, PortMax,
          Handlers, \* goroutines that serve BYE, CANCEL and ACK
          Limits,   \* the values TELEPORTAL_MAX_CALLS takes; 0 is no limit
          Drain     \* the goroutine of main, as a caller of WaitEmpty

\* What the registry and the allocator ask for; MaxCalls is an int.
ASSUME ServiceConstants ==
  /\ IsFiniteSet(Invites)
  /\ SipID \in [Invites -> CallIDs]
  /\ NoCall \notin Invites
  /\ PortMin \in Nat /\ PortMax \in Nat
  /\ 1024 <= PortMin /\ PortMin < PortMax /\ PortMax <= 65535
  /\ Limits \subseteq Int

VARIABLES callsBySIP, callsByUUID, activeCalls, totalCalls, gauge, emptyWaiters,
          closedChans, add, newCount, taken, wait, overtaken,
          ports, nextPort, conn, closed, foreign, twice,
          life,     \* life[i]: the call that INVITE i created
          inv,      \* inv[i]: program counter of handleInvite
          hnd,      \* hnd[h]: the call that h has looked up, NoCall when idle
          started,  \* the calls whose media handlers were started, until they finish
          stuck,    \* the calls whose Shutdown waits for a goroutine that never ends
          ready,    \* a.isReady
          maxCalls, \* a.config.SIP.MaxCalls
          main,     \* program counter of main and App.Drain, App.Shutdown
          todo,     \* the calls StopAll has yet to hang up
          byed,     \* the calls StopAll has sent a BYE to
          before,   \* history: the calls registered and counted when the signal came
          crowded   \* history: two INVITEs were past the limit check at once,
                    \* or the limit was changed

CM == INSTANCE CallManager WITH Calls <- Invites, Removers <- Invites, Waiters <- {Drain}
RM == INSTANCE RTPManager WITH Owners <- Invites
LC == INSTANCE CallLifecycle WITH Calls <- Invites

registry == <<callsBySIP, callsByUUID, activeCalls, totalCalls, gauge, emptyWaiters,
              closedChans, add, newCount, taken, wait, overtaken>>
allocator == <<ports, nextPort, conn, closed, foreign, twice>>
sip == <<inv, hnd, started, stuck>>
app == <<ready, maxCalls, main, todo, byed, before>>
svcVars == <<registry, allocator, life, sip, app, crowded>>

SvcInit ==
  /\ CM!CMInit
  /\ RM!RTPInit
  /\ life = [i \in Invites |-> "none"]
  /\ inv = [i \in Invites |-> "idle"]
  /\ hnd = [h \in Handlers |-> NoCall]
  /\ started = {} /\ stuck = {}
  /\ ready = FALSE
  /\ maxCalls \in Limits
  /\ main = "booting"
  /\ todo = {} /\ byed = {} /\ before = {}
  /\ crowded = FALSE

----------------------------------------------------------------------------
(* handleInvite                                                             *)

Running == main # "exited"

InvGoes(i, from, to) ==
  /\ Running
  /\ inv[i] = from
  /\ inv' = [inv EXCEPT ![i] = to]
  /\ UNCHANGED <<hnd, started, stuck>>

\* A final error response; which one is not told apart.
Rejects(i, from) == InvGoes(i, from, "rejected")

\* The listeners are up until main cancels the run context.
Listening == main \in {"booting", "serving", "stats", "waiting"}

\* The readiness gate: 503 while starting and while draining.
CheckReady(i) ==
  /\ Listening
  /\ \/ ready /\ InvGoes(i, "idle", "limit")
     \/ ~ready /\ Rejects(i, "idle")
  /\ UNCHANGED <<registry, allocator, life, app, crowded>>

PastLimit == { i \in Invites : inv[i] \in {"dup", "offer", "answer"}
                                 \/ (inv[i] = "add" /\ add[i] = "mapped") }

\* if h.config.SIP.MaxCalls > 0
CheckLimit(i) ==
  /\ InvGoes(i, "limit", IF maxCalls > 0 THEN "compare" ELSE "dup")
  /\ crowded' = (crowded \/ (maxCalls = 0 /\ PastLimit # {}))
  /\ UNCHANGED <<registry, allocator, life, app>>

\* Mutant: off by one.
AtCapacityOffByOne == activeCalls > maxCalls

\* stats.ActiveCalls >= MaxCalls, with both read now: 486.
AtCapacity == activeCalls >= maxCalls

CompareLimit(i) ==
  /\ \/ AtCapacity /\ Rejects(i, "compare") /\ UNCHANGED crowded
     \/ /\ ~AtCapacity /\ InvGoes(i, "compare", "dup")
        /\ crowded' = (crowded \/ PastLimit # {})
  /\ UNCHANGED <<registry, allocator, life, app>>

\* An INVITE for a call that exists is left to the transaction layer.
CheckDuplicate(i) ==
  /\ InvGoes(i, "dup", IF CM!Registered(SipID[i]) THEN "ignored" ELSE "offer")
  /\ UNCHANGED <<registry, allocator, life, app, crowded>>

\* The SDP cannot be parsed (400), no codec matches (488), it names no media
\* address (400), or the dialog cannot be created (500).
RejectOffer(i) ==
  /\ Rejects(i, "offer")
  /\ UNCHANGED <<registry, allocator, life, app, crowded>>

\* The offer was accepted; without a free port, 503.
CreateListener(i) ==
  /\ \/ RM!CreateListener(i) /\ InvGoes(i, "offer", "answer")
     \/ RM!CreateListenerFails(i) /\ Rejects(i, "offer")
  /\ UNCHANGED <<registry, life, app, crowded>>

\* Mutant: the error path keeps the listener.
AnswerFailsKeepsListener(i) ==
  /\ Rejects(i, "answer")
  /\ UNCHANGED <<registry, allocator, life, app, crowded>>

\* No UDP address, or no SDP answer: the listener is given back.
AnswerFails(i) ==
  /\ Rejects(i, "answer")
  /\ RM!ReleaseListener(i)
  /\ UNCHANGED <<registry, life, app, crowded>>

\* The SDP answer, NewActiveCall and its callbacks, and the first part of
\* callManager.Add, before which nobody else can reach the call.
CreateCall(i) ==
  /\ InvGoes(i, "answer", "add")
  /\ LC!Open(i)
  /\ CM!AddMaps(i)
  /\ UNCHANGED <<allocator, app, crowded>>

\* The rest of callManager.Add.
AddCall(i) ==
  /\ Running /\ inv[i] = "add"
  /\ \/ CM!AddCount(i) /\ UNCHANGED inv
     \/ CM!AddGauge(i) /\ inv' = [inv EXCEPT ![i] = "respond"]
  /\ UNCHANGED <<allocator, life, hnd, started, stuck, app, crowded>>

RespondOK(i) ==
  /\ InvGoes(i, "respond", "answered")
  /\ UNCHANGED <<registry, allocator, life, app, crowded>>

\* The call is ending unless it has begun to already.
EndCall(c) == IF life[c] = "open" THEN LC!Close(c) ELSE UNCHANGED life

\* Mutant: the error is logged and the call left as it is.
RespondErrorIgnored(i) == UNCHANGED life

\* activeCall.Shutdown()
RespondError(i) == EndCall(i)

RespondFails(i) ==
  /\ InvGoes(i, "respond", "failed")
  /\ RespondError(i)
  /\ UNCHANGED <<registry, allocator, app, crowded>>

HandleInvite(i) ==
  \/ CheckReady(i) \/ CheckLimit(i) \/ CompareLimit(i) \/ CheckDuplicate(i)
  \/ RejectOffer(i) \/ CreateListener(i) \/ AnswerFails(i) \/ CreateCall(i)
  \/ AddCall(i) \/ RespondOK(i) \/ RespondFails(i)

----------------------------------------------------------------------------
(* handleBye, handleCancel and handleAck                                    *)

\* callManager.Get: the handler keeps what it found.
LookUp(h) ==
  /\ Running /\ Listening
  /\ hnd[h] = NoCall
  /\ \E id \in CallIDs :
       /\ CM!Registered(id)
       /\ hnd' = [hnd EXCEPT ![h] = CM!Get(id)]
  /\ UNCHANGED <<registry, allocator, life, inv, started, stuck, app, crowded>>

HandlerReturns(h) ==
  /\ Running
  /\ hnd[h] # NoCall
  /\ hnd' = [hnd EXCEPT ![h] = NoCall]
  /\ UNCHANGED <<registry, allocator, inv, stuck, app, crowded>>

\* handleBye and handleCancel end a call that may have gone since ...
HandleEnd(h) ==
  /\ HandlerReturns(h)
  /\ EndCall(hnd[h])
  /\ UNCHANGED started

\* ... and handleAck starts its media handlers; on a call that has finished they stop
\* at once (ActiveCall).
HandleAck(h) ==
  /\ HandlerReturns(h)
  /\ started' = IF life[hnd[h]] \in {"open", "closing"} THEN started \cup {hnd[h]} ELSE started
  /\ UNCHANGED life

----------------------------------------------------------------------------
(* Calls that end                                                           *)

\* The reader's media timeout.
MediaTimeout(c) ==
  /\ Running
  /\ c \in started /\ LC!Close(c)
  /\ UNCHANGED <<registry, allocator, sip, app, crowded>>

\* The agent's "bye": a BYE to the caller, and EndCall.
AgentBye(c) ==
  /\ Running
  /\ c \in callsByUUID /\ LC!Close(c)
  /\ UNCHANGED <<registry, allocator, sip, app, crowded>>

\* The writer does not come back from a tone whose sixteen-bit sum misses its end, or
\* the release loop is left sending on a full channel (Endless and Wedged in
\* ActiveCall), and Shutdown waits for it.
GetsStuck(c) ==
  /\ Running
  /\ life[c] = "closing" /\ c \in started \ stuck
  /\ stuck' = stuck \cup {c}
  /\ UNCHANGED <<registry, allocator, life, inv, hnd, started, app, crowded>>

ReleasePort(c) == RM!ReleaseListener(c)

\* The end of Shutdown, which waits for the call's goroutines: OnFinished's
\* ReleaseListener ...
ReleaseCall(c) ==
  /\ Running
  /\ c \notin stuck
  /\ LC!Release(c)
  /\ ReleasePort(c)
  /\ started' = started \ {c}
  /\ UNCHANGED <<registry, inv, hnd, stuck, app, crowded>>

\* ... its Remove(callID) ...
RemoveCall(c) ==
  /\ Running
  /\ LC!Finish(c)
  /\ CM!Remove(c, SipID[c])
  /\ UNCHANGED <<allocator, sip, app, crowded>>

\* ... and the waiters Remove took.
WakeWaiters(c) ==
  /\ Running
  /\ CM!CloseTaken(c)
  /\ UNCHANGED <<allocator, life, sip, app, crowded>>

----------------------------------------------------------------------------
(* main, App.Drain, App.Shutdown and App.Reload                             *)

MainGoes(from, to) == main = from /\ main' = to

SetReady ==
  /\ MainGoes("booting", "serving")
  /\ ready' = TRUE
  /\ UNCHANGED <<registry, allocator, life, sip, maxCalls, todo, byed, before, crowded>>

\* SIGHUP.
Reload ==
  /\ Running /\ main # "booting"
  /\ maxCalls' \in Limits \ {maxCalls}
  /\ crowded' = TRUE
  /\ UNCHANGED <<registry, allocator, life, sip, ready, main, todo, byed, before>>

\* SIGTERM: Drain starts with SetReady(false).
Signal ==
  /\ MainGoes("serving", "stats")
  /\ ready' = FALSE
  /\ before' = { c \in callsByUUID : add[c] \in {"counted", "done"} }
  /\ UNCHANGED <<registry, allocator, life, sip, maxCalls, todo, byed, crowded>>

\* A listener failed: main goes on to Shutdown without draining.
ServerError ==
  /\ MainGoes("serving", "stop")
  /\ UNCHANGED <<registry, allocator, life, sip, ready, maxCalls, todo, byed, before, crowded>>

\* Mutant: Drain does not wait.
NothingToDrainEver == TRUE

NothingToDrain == ~(activeCalls > 0)

DrainStats ==
  /\ MainGoes("stats", IF NothingToDrain THEN "stop" ELSE "waiting")
  /\ UNCHANGED <<registry, allocator, life, sip, ready, maxCalls, todo, byed, before, crowded>>

\* WaitEmpty's steps.
DrainWaits ==
  /\ main = "waiting"
  /\ CM!WaitStep(Drain)
  /\ UNCHANGED <<allocator, life, sip, app, crowded>>

\* Mutant: the drain has no deadline.
DrainNeverTimesOut ==
  /\ main = "waiting" /\ wait[Drain] = "ctx"
  /\ UNCHANGED svcVars

\* The shutdown timeout.
DrainTimesOut ==
  /\ main = "waiting"
  /\ CM!WaitCanceled(Drain)
  /\ UNCHANGED <<allocator, life, sip, app, crowded>>

\* WaitEmpty returned, with or without an error; runCancel.
DrainReturns ==
  /\ wait[Drain] \in {"nil", "ctx"}
  /\ MainGoes("waiting", "stop")
  /\ UNCHANGED <<registry, allocator, life, sip, ready, maxCalls, todo, byed, before, crowded>>

\* StopAll: ListActiveCalls ...
ListCalls ==
  /\ MainGoes("stop", "hangup")
  /\ todo' = { c \in Invites : CM!Get(SipID[c]) = c }
  /\ UNCHANGED <<registry, allocator, life, sip, ready, maxCalls, byed, before, crowded>>

\* ... and HangupCall for each: it looks the Call-ID up again and sends a BYE.
HangupCall(c) ==
  /\ main = "hangup" /\ c \in todo
  /\ todo' = todo \ {c}
  /\ byed' = IF CM!Registered(SipID[c]) THEN byed \cup {CM!Get(SipID[c])} ELSE byed
  /\ UNCHANGED <<registry, allocator, life, sip, ready, maxCalls, main, before, crowded>>

Exit ==
  /\ todo = {}
  /\ MainGoes("hangup", "exited")
  /\ UNCHANGED <<registry, allocator, life, sip, ready, maxCalls, todo, byed, before, crowded>>

Shutdown == ListCalls \/ (\E c \in Invites : HangupCall(c)) \/ Exit
DrainStep == DrainStats \/ DrainWaits \/ DrainReturns

----------------------------------------------------------------------------
CallEnds(c) == ReleaseCall(c) \/ RemoveCall(c) \/ WakeWaiters(c)

SvcNext ==
  \/ \E i \in Invites : HandleInvite(i) \/ MediaTimeout(i) \/ AgentBye(i) \/ GetsStuck(i)
                           \/ CallEnds(i)
  \/ \E h \in Handlers : LookUp(h) \/ HandleEnd(h) \/ HandleAck(h)
  \/ SetReady \/ Reload \/ Signal \/ ServerError
  \/ DrainStep \/ DrainTimesOut \/ Shutdown

SvcSpec == SvcInit /\ [][SvcNext]_svcVars

\* The goroutine that shuts a call down goes on, unless the call is stuck, when
\* ReleaseCall is not enabled, and so does main: the drain has a deadline, and a BYE that
\* nobody answers is given up by sipgo's timers.  Nothing is assumed of INVITEs, of the
\* callers, of the agents, of signals and of reloads, nor of a call getting stuck or not.
SvcFairness ==
  /\ \A i \in Invites : WF_svcVars(CallEnds(i))
  /\ WF_svcVars(DrainStep \/ DrainTimesOut \/ Shutdown)

SvcFairSpec == SvcSpec /\ SvcFairness

----------------------------------------------------------------------------
\* A media port is held by exactly the INVITEs that are building an answer and the
\* calls that have not finished: no error path leaks one, and no path, however a
\* BYE, a timeout and a failed response race, takes one from a call that runs.  And no
\* listener is released twice, which would take the mark off the next call's port.
PortsFollowCalls ==
  /\ \A i \in Invites :
       RM!Holds(i) <=> inv[i] = "answer" \/ life[i] \in {"open", "closing"}
  /\ ~twice

\* As long as Call-IDs are distinct, a call is registered from Add until its
\* OnFinished: Remove, which goes by Call-ID, never takes out another call.
RegisteredUntilFinished ==
  CM!UniqueIDs =>
    \A i \in Invites : i \in callsByUUID <=> add[i] # "idle" /\ life[i] # "finished"

\* The limit holds while INVITEs come one at a time and the limit is not changed.
LimitHoldsOneAtATime ==
  ~crowded /\ maxCalls > 0 => Cardinality(callsByUUID) <= maxCalls

\* Drain returned no error: WaitEmpty did not, or there was nothing to wait for.
DrainSucceeded ==
  wait[Drain] = "nil" \/ (wait[Drain] = "idle" /\ main \in {"stop", "hangup", "exited"})

\* When Drain reports that all calls have finished, those whose Add was through the
\* count when the signal came have, unless a Remove once overtook an Add.
DrainWaitsForCalls ==
  DrainSucceeded /\ ~overtaken => before \cap callsByUUID = {}

\* A call that began to end, or whose 200 OK could not be sent, gives its port and
\* its registry entry back, or the process exits first.  Only a call that is stuck may
\* keep them, and it does not keep the others from leaving.
ClosingCallsLeave ==
  \A c \in Invites :
    life[c] = "closing" \/ inv[c] = "failed" ~>
      main = "exited" \/ c \in stuck \/ (c \notin callsByUUID /\ ~RM!Holds(c))

\* A signal leads to the exit of the process, whatever the calls do, the stuck ones too.
SignalLeadsToExit == main = "stats" ~> main = "exited"
=============================================================================
