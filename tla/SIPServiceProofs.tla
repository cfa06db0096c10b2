-------------------------- MODULE SIPServiceProofs --------------------------
(***************************************************************************)
(* Proofs about the service, for any number of INVITEs, handlers and ports   *)
(* and any limits.  What was proved of the registry and of the allocator on  *)
(* their own is used here: every step of the service is a step of theirs, or *)
(* leaves them alone.                                                        *)
(***************************************************************************)
EXTENDS SIPService, FiniteSetTheorems, TLAPS

Shared == INSTANCE SharedStateProofs
  WITH Calls <- Invites, Removers <- Invites, Waiters <- {Drain}, Owners <- Invites

\* The assumptions of the registry and of the allocator hold here.
LEMMA RegistryConstants ==
  Shared!IsFiniteSet(Invites) /\ SipID \in [Invites -> CallIDs] /\ NoCall \notin Invites
BY ServiceConstants DEF IsFiniteSet, Shared!IsFiniteSet

LEMMA AllocatorConstants ==
  /\ PortMin \in Nat /\ PortMax \in Nat
  /\ 1024 <= PortMin /\ PortMin < PortMax /\ PortMax <= 65535
BY ServiceConstants

----------------------------------------------------------------------------
(* The service uses the registry, the allocator and the calls as specified  *)

LEMMA StepsKeepRegistry == [SvcNext]_svcVars => [CM!CMNext]_registry
<1> SUFFICES ASSUME [SvcNext]_svcVars PROVE CM!CMNext \/ UNCHANGED registry
  OBVIOUS
<1>1. ASSUME NEW i \in Invites, HandleInvite(i) PROVE CM!CMNext \/ UNCHANGED registry
  <2>1. CASE CreateCall(i)
    BY <2>1 DEF CreateCall, CM!CMNext, CM!AddStep
  <2>2. CASE AddCall(i)
    BY <2>2 DEF AddCall, CM!CMNext, CM!AddStep
  <2>3. CASE ~CreateCall(i) /\ ~AddCall(i)
    BY <1>1, <2>3 DEF HandleInvite, CheckReady, CheckLimit, CompareLimit, CheckDuplicate,
                      RejectOffer, CreateListener, AnswerFails, RespondOK, RespondFails
  <2> QED BY <2>1, <2>2, <2>3
<1>2. ASSUME NEW c \in Invites, MediaTimeout(c) \/ AgentBye(c) \/ GetsStuck(c) \/ CallEnds(c)
      PROVE  CM!CMNext \/ UNCHANGED registry
  <2>1. CASE RemoveCall(c)
    <3>1. SipID[c] \in CallIDs
      BY ServiceConstants
    <3> QED BY <2>1, <3>1 DEF RemoveCall, CM!CMNext, CM!RemoveStep
  <2>2. CASE WakeWaiters(c)
    BY <2>2 DEF WakeWaiters, CM!CMNext, CM!RemoveStep
  <2>3. CASE MediaTimeout(c) \/ AgentBye(c) \/ GetsStuck(c) \/ ReleaseCall(c)
    BY <2>3 DEF MediaTimeout, AgentBye, GetsStuck, ReleaseCall
  <2> QED BY <1>2, <2>1, <2>2, <2>3 DEF CallEnds
<1>3. ASSUME NEW h \in Handlers, LookUp(h) \/ HandleEnd(h) \/ HandleAck(h)
      PROVE  UNCHANGED registry
  BY <1>3 DEF LookUp, HandleEnd, HandleAck, HandlerReturns
<1>4. CASE DrainWaits
  BY <1>4 DEF DrainWaits, CM!CMNext
<1>5. CASE DrainTimesOut
  BY <1>5 DEF DrainTimesOut, CM!CMNext
<1>6. CASE SetReady \/ Reload \/ Signal \/ ServerError \/ DrainStats \/ DrainReturns \/ Shutdown
  BY <1>6 DEF SetReady, Reload, Signal, ServerError, DrainStats, DrainReturns, Shutdown,
              ListCalls, HangupCall, Exit
<1>7. CASE UNCHANGED svcVars
  BY <1>7 DEF svcVars
<1> QED BY <1>1, <1>2, <1>3, <1>4, <1>5, <1>6, <1>7 DEF SvcNext, DrainStep

\* The handlers, the calls and the drain use the registry only by its operations: all
\* that is proved of call_manager.go on its own holds of it in the service.
THEOREM ServiceUsesRegistry == SvcSpec => CM!CMSpec
<1>1. SvcInit => CM!CMInit
  BY DEF SvcInit
<1>2. registry = CM!cmVars
  BY DEF registry, CM!cmVars
<1>3. [SvcNext]_svcVars => [CM!CMNext]_CM!cmVars
  BY <1>2, StepsKeepRegistry DEF registry, CM!cmVars
<1> QED BY <1>1, <1>3, PTL DEF SvcSpec, CM!CMSpec

LEMMA StepsKeepAllocator == [SvcNext]_svcVars => RM!RTPNext \/ UNCHANGED allocator
<1> SUFFICES ASSUME [SvcNext]_svcVars PROVE RM!RTPNext \/ UNCHANGED allocator
  OBVIOUS
<1>1. ASSUME NEW i \in Invites, HandleInvite(i) PROVE RM!RTPNext \/ UNCHANGED allocator
  BY <1>1 DEF HandleInvite, CheckReady, CheckLimit, CompareLimit, CheckDuplicate, RejectOffer,
              CreateListener, AnswerFails, CreateCall, AddCall, RespondOK, RespondFails,
              RM!RTPNext
<1>2. ASSUME NEW c \in Invites, MediaTimeout(c) \/ AgentBye(c) \/ GetsStuck(c) \/ CallEnds(c)
      PROVE  RM!RTPNext \/ UNCHANGED allocator
  BY <1>2 DEF MediaTimeout, AgentBye, GetsStuck, CallEnds, ReleaseCall, ReleasePort, RemoveCall,
              WakeWaiters, RM!RTPNext
<1>3. ASSUME NEW h \in Handlers, LookUp(h) \/ HandleEnd(h) \/ HandleAck(h)
      PROVE  UNCHANGED allocator
  BY <1>3 DEF LookUp, HandleEnd, HandleAck, HandlerReturns
<1>4. CASE SetReady \/ Reload \/ Signal \/ ServerError \/ DrainStep \/ DrainTimesOut \/ Shutdown
  BY <1>4 DEF SetReady, Reload, Signal, ServerError, DrainStep, DrainStats, DrainWaits,
              DrainReturns, DrainTimesOut, Shutdown, ListCalls, HangupCall, Exit
<1>5. CASE UNCHANGED svcVars
  BY <1>5 DEF svcVars
<1> QED BY <1>1, <1>2, <1>3, <1>4, <1>5 DEF SvcNext

\* The same for the port allocator and what is proved of rtp_manager.go.
THEOREM ServiceUsesAllocator == SvcSpec => RM!RTPSpec
<1>1. SvcInit => RM!RTPInit
  BY DEF SvcInit
<1>2. [SvcNext]_svcVars => [RM!RTPNext]_RM!rtpVars
  BY StepsKeepAllocator DEF allocator, RM!rtpVars
<1> QED BY <1>1, <1>2, PTL DEF SvcSpec, RM!RTPSpec

----------------------------------------------------------------------------
(* What is proved of the registry and the allocator, for the service        *)

LEMMA RegistryHolds == SvcSpec => []Shared!CMInv
<1>1. CM!CMInit => Shared!CMInit
  BY DEF CM!CMInit, Shared!CMInit
<1>2. CM!CMNext <=> Shared!CMNext
  BY DEF CM!CMNext, CM!AddStep, CM!RemoveStep, CM!WaitStep, CM!AddMaps, CM!AddCount,
         CM!AddGauge, CM!Remove, CM!RemoveFound, CM!RemoveMissing, CM!CloseTaken,
         CM!WaitCheck, CM!WaitRegister, CM!WaitWoken, CM!WaitCanceled, CM!WaitGoes,
         CM!TakeWaiters, CM!NoneLeft, CM!UUIDEntry, CM!Registered, CM!Get, CM!mapVars,
         CM!countVars, CM!cmVars,
         Shared!CMNext, Shared!AddStep, Shared!RemoveStep, Shared!WaitStep,
         Shared!AddMaps, Shared!AddCount, Shared!AddGauge, Shared!Remove,
         Shared!RemoveFound, Shared!RemoveMissing, Shared!CloseTaken,
         Shared!WaitCheck, Shared!WaitRegister, Shared!WaitWoken,
         Shared!WaitCanceled, Shared!WaitGoes, Shared!TakeWaiters,
         Shared!NoneLeft, Shared!UUIDEntry, Shared!Registered, Shared!Get,
         Shared!mapVars, Shared!countVars, Shared!cmVars
<1>3. SvcInit => Shared!CMInit
  BY <1>1 DEF SvcInit
<1>4. [SvcNext]_svcVars => [Shared!CMNext]_Shared!cmVars
  BY <1>2, StepsKeepRegistry DEF registry, Shared!cmVars
<1>5. SvcSpec => Shared!CMSpec
  BY <1>3, <1>4, PTL DEF SvcSpec, Shared!CMSpec
<1>6. Shared!CMSpec => []Shared!CMInv
  BY RegistryConstants, AllocatorConstants, Shared!RegistryInvariant
<1> QED BY <1>5, <1>6, PTL

LEMMA AllocatorHolds == SvcSpec => []Shared!RTPInv
<1>1. RM!RTPInit => Shared!RTPInit
  BY DEF RM!RTPInit, RM!FirstEven, RM!EvenPorts, RM!NoPort,
         Shared!RTPInit, Shared!FirstEven, Shared!EvenPorts, Shared!NoPort
<1>2. RM!RTPNext <=> Shared!RTPNext
  BY DEF RM!RTPNext, RM!CreateListener, RM!CreateListenerFails, RM!ReleaseListener,
         RM!Closes, RM!Holds, RM!CursorAfter,
         RM!ForeignBinds, RM!FoundAt, RM!Exhausted, RM!Usable, RM!CanBind, RM!OpenPorts,
         RM!Visited, RM!Turns, RM!StartOffset, RM!PortAt, RM!NumEvenPorts, RM!FirstEven,
         RM!LastEven, RM!EvenPorts, RM!NoPort,
         Shared!RTPNext, Shared!CreateListener, Shared!CreateListenerFails,
         Shared!ReleaseListener, Shared!Closes, Shared!Holds, Shared!CursorAfter,
         Shared!ForeignBinds, Shared!FoundAt,
         Shared!Exhausted, Shared!Usable, Shared!CanBind, Shared!OpenPorts,
         Shared!Visited, Shared!Turns, Shared!StartOffset, Shared!PortAt,
         Shared!NumEvenPorts, Shared!FirstEven, Shared!LastEven,
         Shared!EvenPorts, Shared!NoPort
<1>3. SvcInit => Shared!RTPInit
  BY <1>1 DEF SvcInit
<1>4. [SvcNext]_svcVars => [Shared!RTPNext]_Shared!rtpVars
  BY <1>2, StepsKeepAllocator DEF allocator, Shared!rtpVars
<1>5. SvcSpec => Shared!RTPSpec
  BY <1>3, <1>4, PTL DEF SvcSpec, Shared!RTPSpec
<1>6. Shared!RTPSpec => []Shared!RTPInv
  BY RegistryConstants, AllocatorConstants, Shared!AllocatorInvariant
<1> QED BY <1>5, <1>6, PTL

----------------------------------------------------------------------------
(* The inductive invariants                                                 *)

InviteStates == {"idle", "limit", "compare", "dup", "offer", "answer", "add", "respond",
                 "answered", "failed", "rejected", "ignored"}

\* Past NewActiveCall.
Created == {"add", "respond", "answered", "failed"}

SvcTypes ==
  /\ inv \in [Invites -> InviteStates]
  /\ life \in [Invites -> LC!LifeStates]
  /\ hnd \in [Handlers -> Invites \cup {NoCall}]

\* A call exists, and its Add has begun, exactly when its INVITE has come so far; Add
\* is through before the response is sent.
InviteOrder ==
  \A i \in Invites :
    /\ life[i] # "none" <=> inv[i] \in Created
    /\ add[i] # "idle" <=> inv[i] \in Created
    /\ add[i] \in {"mapped", "counted"} => inv[i] = "add"

CallsInv == SvcTypes /\ InviteOrder /\ PortsFollowCalls /\ RegisteredUntilFinished

\* The INVITEs past the limit whose call is not yet registered.
Admitted == { i \in Invites : inv[i] \in {"dup", "offer", "answer"} }

\* While INVITEs come one at a time, at most one is between the limit check and the
\* count, and there is room for it.
LimitInv ==
  /\ maxCalls \in Limits
  /\ ~crowded /\ maxCalls > 0 =>
       /\ \A i, j \in PastLimit : i = j
       /\ Cardinality(callsByUUID) <= maxCalls
       /\ Admitted # {} => Cardinality(callsByUUID) < maxCalls

\* The drain's channel is closed, or about to be.
DrainWoken == Drain \in closedChans \/ \E r \in Invites : Drain \in taken[r]

\* The calls Drain waits for are chosen by the signal, with their Add through the
\* count; main calls WaitEmpty after the signal only, and once; and from the moment it
\* is to be woken, or finds the count zero, none of these calls is left.
DrainInv ==
  /\ before \subseteq { c \in Invites : add[c] \in {"counted", "done"} }
  /\ main \in {"booting", "serving"} => before = {}
  /\ main \in {"booting", "serving", "stats"} => wait[Drain] = "idle"
  /\ (DrainWoken \/ DrainSucceeded) /\ ~overtaken => before \cap callsByUUID = {}

----------------------------------------------------------------------------
LEMMA RegistryFacts ==
  ASSUME Shared!CMInv
  PROVE  /\ CM!CMTypeOK
         /\ CM!CountMatchesMaps
         /\ CM!EveryCallReachable
         /\ ~overtaken => CM!Uncounted \subseteq callsByUUID
         /\ \A c \in callsByUUID : add[c] # "idle"
         /\ wait[Drain] = "idle" => Drain \notin emptyWaiters /\ ~DrainWoken
<1>1. CM!CMTypeOK
  BY DEF Shared!CMInv, Shared!CMTypeOK, CM!CMTypeOK, Shared!AddStates, CM!AddStates,
         Shared!WaitStates, CM!WaitStates
<1>2. CM!CountMatchesMaps
  BY DEF Shared!CMInv, Shared!CountMatchesMaps, CM!CountMatchesMaps,
         Shared!Cardinality, CM!Cardinality, Shared!Uncounted, CM!Uncounted
<1>3. CM!EveryCallReachable
  BY DEF Shared!CMInv, Shared!EveryCallReachable, CM!EveryCallReachable,
         Shared!UniqueIDs, CM!UniqueIDs, Shared!Get, CM!Get
<1>4. ~overtaken => CM!Uncounted \subseteq callsByUUID
  BY DEF Shared!CMInv, Shared!HalfwayCallsAreRegistered, Shared!Uncounted, CM!Uncounted
<1>5. \A c \in callsByUUID : add[c] # "idle"
  BY DEF Shared!CMInv, Shared!OnlyAddedCallsAreRegistered
<1>6. wait[Drain] = "idle" => Drain \notin emptyWaiters /\ ~DrainWoken
  BY DEF Shared!CMInv, Shared!OnlyBlockedWaitersAreListed, DrainWoken
<1> QED BY <1>1, <1>2, <1>3, <1>4, <1>5, <1>6

\* The search hands out ports, never the value that stands for none.
LEMMA PortsAreReal ==
  ASSUME Shared!RTPInv, NEW i \in Invites, RM!CreateListener(i)
  PROVE  /\ RM!Holds(i)'
         /\ \A j \in Invites \ {i} : RM!Holds(j)' <=> RM!Holds(j)
         /\ twice' = twice
<1>1. Shared!RTPTypeOK
  BY DEF Shared!RTPInv
<1>2. Shared!CreateListener(i)
  BY DEF RM!CreateListener, RM!FoundAt, RM!Usable, RM!CanBind, RM!OpenPorts, RM!Holds,
         RM!Visited, RM!CursorAfter, RM!Turns, RM!StartOffset, RM!PortAt, RM!NumEvenPorts,
         RM!FirstEven, RM!LastEven, RM!NoPort,
         Shared!CreateListener, Shared!FoundAt, Shared!Usable, Shared!CanBind,
         Shared!OpenPorts, Shared!Holds, Shared!Visited, Shared!CursorAfter, Shared!Turns,
         Shared!StartOffset, Shared!PortAt, Shared!NumEvenPorts, Shared!FirstEven,
         Shared!LastEven, Shared!NoPort
<1>3. PICK k \in Shared!Turns : conn' = [conn EXCEPT ![i] = Shared!PortAt(Shared!Visited(k))]
  BY <1>2 DEF Shared!CreateListener
<1>4. Shared!Visited(k) \in Shared!Turns
  BY <1>1, RegistryConstants, AllocatorConstants, Shared!SearchVisitsAll
<1>5. Shared!PortAt(Shared!Visited(k)) # RM!NoPort
  BY <1>4, RegistryConstants, AllocatorConstants, Shared!PortAtIsEven
     DEF Shared!NoPort, RM!NoPort
<1>6. conn \in [Invites -> Shared!EvenPorts \cup {Shared!NoPort}]
  BY <1>1 DEF Shared!RTPTypeOK
<1>7. closed' = closed \ {i} /\ twice' = twice
  BY DEF RM!CreateListener
<1> QED BY <1>3, <1>5, <1>6, <1>7 DEF RM!Holds

\* The release of a socket that is open is not a second one.
LEMMA PortsAreReleased ==
  ASSUME NEW i \in Invites, RM!Holds(i), RM!ReleaseListener(i)
  PROVE  /\ ~RM!Holds(i)'
         /\ \A j \in Invites \ {i} : RM!Holds(j)' <=> RM!Holds(j)
         /\ ~twice => ~twice'
BY DEF RM!ReleaseListener, RM!Closes, RM!Holds

LEMMA CallsInit == SvcInit => CallsInv
BY DEF SvcInit, CM!CMInit, RM!RTPInit, RM!Holds, CallsInv, SvcTypes, InviteStates, LC!LifeStates,
       InviteOrder, Created, PortsFollowCalls, RegisteredUntilFinished

LEMMA HandleInviteCalls ==
  ASSUME CallsInv, Shared!CMInv, Shared!RTPInv, NEW i \in Invites, HandleInvite(i)
  PROVE  CallsInv'
<1> USE DEF CallsInv, SvcTypes, InviteStates, LC!LifeStates, InviteOrder, Created,
            PortsFollowCalls, RegisteredUntilFinished, InvGoes, Rejects
<1>0. CM!CMTypeOK /\ \A c \in callsByUUID : add[c] # "idle"
  BY RegistryFacts
<1>1. CASE CheckReady(i) \/ CheckLimit(i) \/ CompareLimit(i) \/ CheckDuplicate(i)
           \/ RejectOffer(i) \/ RespondOK(i)
  <2>1. UNCHANGED <<registry, allocator, life, hnd>>
    BY <1>1 DEF CheckReady, CheckLimit, CompareLimit, CheckDuplicate, RejectOffer, RespondOK
  <2>2. PICK to \in InviteStates :
          /\ inv' = [inv EXCEPT ![i] = to]
          /\ to \in Created <=> inv[i] \in Created
          /\ to # "answer" /\ inv[i] \notin {"answer", "add"}
    BY <1>1 DEF CheckReady, CheckLimit, CompareLimit, CheckDuplicate, RejectOffer, RespondOK
  <2> QED BY <2>1, <2>2 DEF RM!Holds, registry, allocator
<1>2. CASE CreateListener(i)
  <2>1. CASE RM!CreateListener(i) /\ InvGoes(i, "offer", "answer")
    BY <1>2, <2>1, PortsAreReal DEF CreateListener, registry
  <2>2. CASE RM!CreateListenerFails(i) /\ Rejects(i, "offer")
    BY <1>2, <2>2 DEF CreateListener, registry, RM!CreateListenerFails, RM!Holds
  <2> QED BY <1>2, <2>1, <2>2 DEF CreateListener
<1>3. CASE AnswerFails(i)
  BY <1>3, PortsAreReleased DEF AnswerFails, registry
<1>4. CASE CreateCall(i)
  <2>1. /\ inv[i] = "answer" /\ inv' = [inv EXCEPT ![i] = "add"]
        /\ life[i] = "none" /\ life' = [life EXCEPT ![i] = "open"]
        /\ add[i] = "idle" /\ add' = [add EXCEPT ![i] = "mapped"]
        /\ callsByUUID' = callsByUUID \cup {i}
        /\ UNCHANGED <<allocator, hnd>>
    BY <1>4 DEF CreateCall, LC!Open, LC!Moves, CM!AddMaps
  <2>2. add \in [Invites -> CM!AddStates]
    BY <1>0 DEF CM!CMTypeOK
  <2> QED BY <1>0, <2>1, <2>2 DEF RM!Holds, allocator
<1>5. CASE AddCall(i)
  <2>1. add \in [Invites -> CM!AddStates]
    BY <1>0 DEF CM!CMTypeOK
  <2>2. CASE CM!AddCount(i) /\ UNCHANGED inv
    BY <1>5, <2>1, <2>2 DEF AddCall, CM!AddCount, CM!mapVars, RM!Holds, allocator
  <2>3. CASE CM!AddGauge(i) /\ inv' = [inv EXCEPT ![i] = "respond"]
    BY <1>5, <2>1, <2>3 DEF AddCall, CM!AddGauge, CM!mapVars, RM!Holds, allocator
  <2> QED BY <1>5, <2>2, <2>3 DEF AddCall
<1>6. CASE RespondFails(i)
  BY <1>6 DEF RespondFails, RespondError, EndCall, LC!Close, LC!Moves, RM!Holds, registry,
              allocator
<1> QED BY <1>1, <1>2, <1>3, <1>4, <1>5, <1>6 DEF HandleInvite

LEMMA CallEndsCalls ==
  ASSUME CallsInv, Shared!CMInv, Shared!RTPInv, NEW c \in Invites,
         MediaTimeout(c) \/ AgentBye(c) \/ GetsStuck(c) \/ CallEnds(c)
  PROVE  CallsInv'
<1> USE DEF CallsInv, SvcTypes, LC!LifeStates, InviteOrder, Created, PortsFollowCalls,
            RegisteredUntilFinished, LC!Moves
<1>1. CASE MediaTimeout(c) \/ AgentBye(c) \/ GetsStuck(c)
  BY <1>1 DEF MediaTimeout, AgentBye, GetsStuck, LC!Close, RM!Holds, registry, allocator, sip
<1>2. CASE ReleaseCall(c)
  BY <1>2, PortsAreReleased DEF ReleaseCall, ReleasePort, LC!Release, registry
<1>3. CASE RemoveCall(c)
  <2>1. /\ life[c] = "released" /\ life' = [life EXCEPT ![c] = "finished"]
        /\ UNCHANGED <<allocator, inv, hnd>>
        /\ CM!RemoveFound(c, SipID[c]) \/ CM!RemoveMissing(c, SipID[c])
    BY <1>3 DEF RemoveCall, LC!Finish, CM!Remove, sip
  <2>2. UNCHANGED add
    BY <2>1 DEF CM!RemoveFound, CM!RemoveMissing, CM!cmVars
  <2>3. SvcTypes' /\ InviteOrder' /\ PortsFollowCalls'
    BY <2>1, <2>2 DEF RM!Holds, allocator
  <2>4. RegisteredUntilFinished'
    <3>1. SUFFICES ASSUME CM!UniqueIDs
                   PROVE  \A i \in Invites : i \in callsByUUID' <=> add'[i] # "idle" /\ life'[i] # "finished"
      BY DEF CM!UniqueIDs
    <3>2. c \in callsByUUID /\ CM!Get(SipID[c]) = c
      BY <2>1, <3>1, RegistryFacts DEF CM!EveryCallReachable
    <3>3. CM!RemoveFound(c, SipID[c])
      BY <2>1, <3>2, ServiceConstants DEF CM!RemoveMissing, CM!Registered
    <3>4. callsByUUID' = callsByUUID \ {c}
      BY <3>2, <3>3 DEF CM!RemoveFound, CM!UUIDEntry
    <3> QED BY <2>1, <2>2, <3>1, <3>4
  <2> QED BY <2>3, <2>4
<1>4. CASE WakeWaiters(c)
  BY <1>4 DEF WakeWaiters, CM!CloseTaken, CM!mapVars, RM!Holds, allocator, sip
<1> QED BY <1>1, <1>2, <1>3, <1>4 DEF CallEnds, CallsInv

LEMMA CallsStep ==
  CallsInv /\ Shared!CMInv /\ Shared!RTPInv /\ [SvcNext]_svcVars => CallsInv'
<1> SUFFICES ASSUME CallsInv, Shared!CMInv, Shared!RTPInv, [SvcNext]_svcVars
             PROVE  CallsInv'
  OBVIOUS
<1> USE DEF CallsInv, SvcTypes, InviteOrder, PortsFollowCalls, RegisteredUntilFinished
<1>1. ASSUME NEW i \in Invites, HandleInvite(i) PROVE CallsInv'
  BY <1>1, HandleInviteCalls
<1>2. ASSUME NEW c \in Invites, MediaTimeout(c) \/ AgentBye(c) \/ GetsStuck(c) \/ CallEnds(c)
      PROVE  CallsInv'
  BY <1>2, CallEndsCalls
<1>3. ASSUME NEW h \in Handlers, LookUp(h) PROVE CallsInv'
  <2>1. callsBySIP \in [CallIDs -> Invites \cup {NoCall}]
    BY RegistryFacts DEF CM!CMTypeOK
  <2> QED BY <1>3, <2>1 DEF LookUp, CM!Get, RM!Holds, registry, allocator
<1>4. ASSUME NEW h \in Handlers, HandleEnd(h) PROVE CallsInv'
  <2>1. hnd[h] \in Invites
    BY <1>4 DEF HandleEnd, HandlerReturns
  <2> QED BY <1>4, <2>1 DEF HandleEnd, HandlerReturns, EndCall, LC!Close, LC!Moves,
                            LC!LifeStates, RM!Holds, registry, allocator
<1>5. ASSUME NEW h \in Handlers, HandleAck(h) PROVE CallsInv'
  BY <1>5 DEF HandleAck, HandlerReturns, RM!Holds, registry, allocator
<1>6. CASE DrainWaits \/ DrainTimesOut
  <2>1. UNCHANGED <<callsByUUID, add, conn, closed, twice, life, inv, hnd>>
    BY <1>6 DEF DrainWaits, DrainTimesOut, CM!WaitStep, CM!WaitCheck, CM!WaitRegister,
                CM!WaitWoken, CM!WaitCanceled, CM!mapVars, allocator, sip
  <2> QED BY <2>1 DEF RM!Holds
<1>7. CASE SetReady \/ Reload \/ Signal \/ ServerError \/ DrainStats \/ DrainReturns \/ Shutdown
  <2>1. UNCHANGED <<registry, allocator, life, sip>>
    BY <1>7 DEF SetReady, Reload, Signal, ServerError, DrainStats, DrainReturns, Shutdown,
                ListCalls, HangupCall, Exit
  <2> QED BY <2>1 DEF RM!Holds, registry, allocator, sip
<1>8. CASE UNCHANGED svcVars
  BY <1>8 DEF svcVars, RM!Holds, registry, allocator, sip
<1> QED BY <1>1, <1>2, <1>3, <1>4, <1>5, <1>6, <1>7, <1>8 DEF SvcNext, DrainStep

LEMMA CallsHold == SvcSpec => []CallsInv
BY CallsInit, CallsStep, RegistryHolds, AllocatorHolds, PTL DEF SvcSpec

\* A media port is held by exactly the INVITEs that are building an answer and the calls
\* that have not finished, on every path of handleInvite and of OnFinished, and none is
\* released twice.
THEOREM PortsFollowTheirCalls == SvcSpec => []PortsFollowCalls
BY CallsHold, PTL DEF CallsInv

\* With distinct Call-IDs, a call is registered from its Add to its OnFinished.
THEOREM CallsStayRegistered == SvcSpec => []RegisteredUntilFinished
BY CallsHold, PTL DEF CallsInv

LEMMA StepsKeepLifecycle == CallsInv /\ [SvcNext]_svcVars => [LC!LifeNext]_life
<1> SUFFICES ASSUME CallsInv, [SvcNext]_svcVars PROVE LC!LifeNext \/ UNCHANGED life
  OBVIOUS
<1>1. ASSUME NEW i \in Invites, HandleInvite(i) PROVE LC!LifeNext \/ UNCHANGED life
  BY <1>1 DEF HandleInvite, CheckReady, CheckLimit, CompareLimit, CheckDuplicate, RejectOffer,
              CreateListener, AnswerFails, CreateCall, AddCall, RespondOK, RespondFails,
              RespondError, EndCall, LC!LifeNext
<1>2. ASSUME NEW c \in Invites, MediaTimeout(c) \/ AgentBye(c) \/ GetsStuck(c) \/ CallEnds(c)
      PROVE  LC!LifeNext \/ UNCHANGED life
  BY <1>2 DEF MediaTimeout, AgentBye, GetsStuck, CallEnds, ReleaseCall, RemoveCall, WakeWaiters,
              LC!LifeNext
<1>3. ASSUME NEW h \in Handlers, LookUp(h) \/ HandleEnd(h) \/ HandleAck(h)
      PROVE  LC!LifeNext \/ UNCHANGED life
  <2>1. HandleEnd(h) => hnd[h] \in Invites
    BY DEF HandleEnd, HandlerReturns, CallsInv, SvcTypes
  <2> QED BY <1>3, <2>1 DEF LookUp, HandleEnd, HandleAck, EndCall, LC!LifeNext
<1>4. CASE SetReady \/ Reload \/ Signal \/ ServerError \/ DrainStep \/ DrainTimesOut \/ Shutdown
  BY <1>4 DEF SetReady, Reload, Signal, ServerError, DrainStep, DrainStats, DrainWaits,
              DrainReturns, DrainTimesOut, Shutdown, ListCalls, HangupCall, Exit
<1>5. CASE UNCHANGED svcVars
  BY <1>5 DEF svcVars
<1> QED BY <1>1, <1>2, <1>3, <1>4, <1>5 DEF SvcNext

\* What the service sees of a call is what ActiveCall implements: whichever of a BYE, a
\* CANCEL, a timeout, an agent's bye and a failed response comes first ends the call,
\* the others do nothing, and OnFinished runs once.
THEOREM ServiceUsesLifecycle == SvcSpec => LC!LifeSpec
<1>1. SvcInit => LC!LifeInit
  BY DEF SvcInit, LC!LifeInit
<1> QED BY <1>1, CallsHold, StepsKeepLifecycle, PTL DEF SvcSpec, LC!LifeSpec

----------------------------------------------------------------------------
(* The limit                                                                *)

LEMMA RegisteredAreFinite ==
  ASSUME NEW S, S \subseteq Invites
  PROVE  IsFiniteSet(S) /\ Cardinality(S) \in Nat
BY ServiceConstants, FS_Subset, FS_CardinalityType

LEMMA LimitInit == SvcInit => LimitInv
<1> SUFFICES ASSUME SvcInit PROVE LimitInv
  OBVIOUS
<1>1. PastLimit = {} /\ Admitted = {} /\ callsByUUID = {}
  BY DEF SvcInit, CM!CMInit, PastLimit, Admitted
<1>2. Cardinality(callsByUUID) = 0 /\ maxCalls \in Int
  BY <1>1, FS_EmptySet, ServiceConstants DEF SvcInit
<1> QED BY <1>1, <1>2 DEF LimitInv, SvcInit

\* Without an INVITE between the limit check and the count, the count is the number of
\* registered calls.
LEMMA CountIsCurrent ==
  ASSUME CallsInv, Shared!CMInv, PastLimit = {}
  PROVE  activeCalls = Cardinality(callsByUUID)
<1>1. CM!Uncounted = {}
  BY DEF CM!Uncounted, PastLimit, CallsInv, InviteOrder
<1>2. activeCalls = Cardinality(callsByUUID) - Cardinality({})
  BY <1>1, RegistryFacts DEF CM!CountMatchesMaps, CM!Cardinality, Cardinality
<1>3. Cardinality(callsByUUID) \in Nat
  BY RegistryFacts, RegisteredAreFinite DEF CM!CMTypeOK
<1> QED BY <1>2, <1>3, FS_EmptySet

\* A step that brings no call into the registry, no INVITE past the limit and no new
\* limit keeps what holds.
LEMMA LimitKept ==
  ASSUME LimitInv, Shared!CMInv, crowded => crowded', maxCalls' = maxCalls,
         PastLimit' \subseteq PastLimit, Admitted' \subseteq Admitted,
         callsByUUID' \subseteq callsByUUID
  PROVE  LimitInv'
<1>1. /\ Cardinality(callsByUUID') <= Cardinality(callsByUUID)
      /\ Cardinality(callsByUUID') \in Nat /\ Cardinality(callsByUUID) \in Nat
  <2>1. callsByUUID \subseteq Invites
    BY RegistryFacts DEF CM!CMTypeOK
  <2> QED BY <2>1, RegisteredAreFinite, FS_Subset
<1> QED BY <1>1, ServiceConstants DEF LimitInv

LEMMA HandleInviteLimit ==
  ASSUME LimitInv, CallsInv, Shared!CMInv, NEW i \in Invites, HandleInvite(i)
  PROVE  LimitInv'
<1>0. /\ inv \in [Invites -> InviteStates] /\ add \in [Invites -> CM!AddStates]
      /\ callsByUUID \subseteq Invites
  BY RegistryFacts DEF CallsInv, SvcTypes, CM!CMTypeOK
<1> USE DEF PastLimit, Admitted, InvGoes, Rejects
<1>1. CASE CheckReady(i) \/ CheckDuplicate(i) \/ RejectOffer(i) \/ CreateListener(i)
           \/ AnswerFails(i) \/ RespondOK(i) \/ RespondFails(i)
  <2>1. UNCHANGED <<registry, app, crowded>>
    BY <1>1 DEF CheckReady, CheckDuplicate, RejectOffer, CreateListener, AnswerFails,
                RespondOK, RespondFails
  <2>2. PICK to \in InviteStates :
          /\ inv' = [inv EXCEPT ![i] = to]
          /\ to \in {"dup", "offer", "answer"} => inv[i] \in {"dup", "offer", "answer"}
          /\ to # "add"
    BY <1>1 DEF CheckReady, CheckDuplicate, RejectOffer, CreateListener, AnswerFails,
                RespondOK, RespondFails, InviteStates
  <2>3. PastLimit' \subseteq PastLimit /\ Admitted' \subseteq Admitted
    BY <1>0, <2>1, <2>2 DEF registry
  <2> QED BY <2>1, <2>3, LimitKept DEF registry, app
<1>2. CASE CheckLimit(i)
  <2>1. /\ UNCHANGED <<registry, app>>
        /\ inv' = [inv EXCEPT ![i] = IF maxCalls > 0 THEN "compare" ELSE "dup"]
        /\ crowded' = (crowded \/ (maxCalls = 0 /\ PastLimit # {}))
    BY <1>2 DEF CheckLimit
  <2>2. CASE maxCalls > 0
    <3>1. PastLimit' \subseteq PastLimit /\ Admitted' \subseteq Admitted
      BY <1>0, <2>1, <2>2 DEF registry
    <3>2. crowded => crowded'
      BY <2>1, Zenon
    <3> QED BY <2>1, <3>1, <3>2, LimitKept DEF registry, app
  <2>3. CASE ~(maxCalls > 0)
    BY <2>1, <2>3 DEF LimitInv, app
  <2> QED BY <2>2, <2>3
<1>3. CASE CompareLimit(i)
  <2>1. CASE AtCapacity /\ Rejects(i, "compare") /\ UNCHANGED crowded
    <3>1. PastLimit' \subseteq PastLimit /\ Admitted' \subseteq Admitted
      BY <1>0, <1>3, <2>1 DEF CompareLimit, registry
    <3> QED BY <1>3, <2>1, <3>1, LimitKept DEF CompareLimit, registry, app
  <2>2. CASE /\ ~AtCapacity /\ InvGoes(i, "compare", "dup")
             /\ crowded' = (crowded \/ PastLimit # {})
    <3>1. UNCHANGED <<registry, app>>
      BY <1>3 DEF CompareLimit
    <3>2. SUFFICES ASSUME ~crowded' PROVE LimitInv'
      BY <3>1 DEF LimitInv, app
    <3>3. PastLimit = {}
      BY <2>2, <3>2
    <3>4. activeCalls = Cardinality(callsByUUID) /\ activeCalls < maxCalls
      <4>1. activeCalls = Cardinality(callsByUUID)
        BY <3>3, CountIsCurrent
      <4>2. activeCalls \in Int /\ maxCalls \in Int
        BY RegistryFacts, ServiceConstants DEF CM!CMTypeOK, LimitInv
      <4> QED BY <2>2, <4>1, <4>2 DEF AtCapacity
    <3>5. PastLimit' = {i}
      BY <1>0, <2>2, <3>1, <3>3 DEF registry
    <3>6. Cardinality(callsByUUID) \in Nat /\ maxCalls \in Int
      BY <1>0, RegisteredAreFinite, ServiceConstants DEF LimitInv
    <3>7. maxCalls' = maxCalls /\ callsByUUID' = callsByUUID
      BY <3>1 DEF registry, app
    <3> HIDE DEF PastLimit, Admitted
    <3> QED BY <3>4, <3>5, <3>6, <3>7 DEF LimitInv
  <2> QED BY <1>3, <2>1, <2>2 DEF CompareLimit
<1>4. CASE CreateCall(i)
  <2>1. /\ inv[i] = "answer" /\ inv' = [inv EXCEPT ![i] = "add"]
        /\ add[i] = "idle" /\ add' = [add EXCEPT ![i] = "mapped"]
        /\ callsByUUID' = callsByUUID \cup {i}
        /\ UNCHANGED <<app, crowded>>
    BY <1>4 DEF CreateCall, CM!AddMaps
  <2>2. PastLimit' = PastLimit /\ i \in Admitted
    BY <1>0, <2>1 DEF CM!AddStates
  <2>3. Admitted' \subseteq PastLimit \ {i} /\ i \in PastLimit
    BY <1>0, <2>1
  <2>4. i \notin callsByUUID
    BY <2>1, RegistryFacts
  <2>5. Cardinality(callsByUUID \cup {i}) = Cardinality(callsByUUID) + 1
    BY <1>0, <2>4, RegisteredAreFinite, FS_AddElement
  <2>6. Cardinality(callsByUUID) \in Nat /\ maxCalls \in Int
    BY <1>0, RegisteredAreFinite, ServiceConstants DEF LimitInv
  <2> HIDE DEF PastLimit, Admitted
  <2>7. maxCalls' = maxCalls /\ crowded' = crowded
    BY <2>1 DEF app
  <2>8. SUFFICES ASSUME ~crowded, maxCalls > 0
                 PROVE  /\ \A x, y \in PastLimit' : x = y
                        /\ Cardinality(callsByUUID') <= maxCalls
                        /\ Admitted' = {}
    BY <2>7 DEF LimitInv
  <2>9. Cardinality(callsByUUID) < maxCalls /\ \A x, y \in PastLimit : x = y
    BY <2>2, <2>8 DEF LimitInv
  <2>10. Cardinality(callsByUUID') <= maxCalls
    BY <2>1, <2>5, <2>6, <2>9
  <2> QED BY <2>2, <2>3, <2>9, <2>10
<1>5. CASE AddCall(i)
  <2>1. PastLimit' \subseteq PastLimit /\ Admitted' \subseteq Admitted
    BY <1>0, <1>5 DEF AddCall, CM!AddCount, CM!AddGauge
  <2> QED BY <1>5, <2>1, LimitKept DEF AddCall, CM!AddCount, CM!AddGauge, CM!mapVars, app
<1> QED BY <1>1, <1>2, <1>3, <1>4, <1>5 DEF HandleInvite

LEMMA LimitStep ==
  LimitInv /\ CallsInv /\ Shared!CMInv /\ [SvcNext]_svcVars => LimitInv'
<1> SUFFICES ASSUME LimitInv, CallsInv, Shared!CMInv, [SvcNext]_svcVars PROVE LimitInv'
  OBVIOUS
<1>1. ASSUME NEW i \in Invites, HandleInvite(i) PROVE LimitInv'
  BY <1>1, HandleInviteLimit
<1>2. CASE Reload
  BY <1>2 DEF Reload, LimitInv
<1>3. ASSUME UNCHANGED <<inv, add, maxCalls, crowded>>, callsByUUID' \subseteq callsByUUID
      PROVE  LimitInv'
  BY <1>3, LimitKept DEF PastLimit, Admitted
<1>4. ASSUME NEW c \in Invites, MediaTimeout(c) \/ AgentBye(c) \/ GetsStuck(c) \/ CallEnds(c)
      PROVE  LimitInv'
  BY <1>3, <1>4 DEF MediaTimeout, AgentBye, GetsStuck, CallEnds, ReleaseCall, RemoveCall, WakeWaiters,
              CM!Remove, CM!RemoveFound, CM!RemoveMissing, CM!CloseTaken, CM!cmVars,
              CM!mapVars, registry, sip, app
<1>5. ASSUME NEW h \in Handlers, LookUp(h) \/ HandleEnd(h) \/ HandleAck(h)
      PROVE  LimitInv'
  BY <1>3, <1>5 DEF LookUp, HandleEnd, HandleAck, HandlerReturns, registry, app
<1>6. CASE DrainWaits \/ DrainTimesOut
  BY <1>3, <1>6 DEF DrainWaits, DrainTimesOut, CM!WaitStep, CM!WaitCheck, CM!WaitRegister,
                CM!WaitWoken, CM!WaitCanceled, CM!mapVars, sip, app
<1>7. CASE SetReady \/ Signal \/ ServerError \/ DrainStats \/ DrainReturns \/ Shutdown
  BY <1>3, <1>7 DEF SetReady, Signal, ServerError, DrainStats, DrainReturns, Shutdown,
                ListCalls, HangupCall, Exit, registry, sip
<1>8. CASE UNCHANGED svcVars
  BY <1>3, <1>8 DEF svcVars, registry, sip, app
<1> QED BY <1>1, <1>2, <1>4, <1>5, <1>6, <1>7, <1>8 DEF SvcNext, DrainStep

\* MaxCalls bounds the registered calls for as long as no two INVITEs are past its
\* check at once and it is not reloaded, whatever ends calls in the meantime.
THEOREM LimitIsKept == SvcSpec => []LimitHoldsOneAtATime
<1>1. LimitInv => LimitHoldsOneAtATime
  BY DEF LimitInv, LimitHoldsOneAtATime
<1> QED BY <1>1, LimitInit, LimitStep, CallsHold, RegistryHolds, PTL DEF SvcSpec

----------------------------------------------------------------------------
(* The drain                                                                *)

LEMMA DrainInit == SvcInit => DrainInv
BY DEF SvcInit, CM!CMInit, DrainInv, DrainWoken, DrainSucceeded

\* Unless a Remove overtook an Add, a count that is not positive leaves no registered
\* call but those whose Add is half-way: it can hide no other.
LEMMA ZeroHidesNoCall ==
  Shared!CMInv /\ ~overtaken /\ ~(activeCalls > 0) => callsByUUID \subseteq CM!Uncounted
<1> SUFFICES ASSUME Shared!CMInv, ~overtaken, ~(activeCalls > 0)
             PROVE  callsByUUID \subseteq CM!Uncounted
  OBVIOUS
<1>1. CM!Uncounted \subseteq callsByUUID /\ callsByUUID \subseteq Invites
  BY RegistryFacts DEF CM!CMTypeOK
<1>2. activeCalls = Cardinality(callsByUUID) - Cardinality(CM!Uncounted)
  BY RegistryFacts DEF CM!CountMatchesMaps, CM!Cardinality, Cardinality
<1>3. /\ IsFiniteSet(callsByUUID)
      /\ Cardinality(callsByUUID) \in Nat /\ Cardinality(CM!Uncounted) \in Nat
  BY <1>1, RegisteredAreFinite
<1>4. Cardinality(CM!Uncounted) <= Cardinality(callsByUUID)
  BY <1>1, <1>3, FS_Subset
<1>5. Cardinality(CM!Uncounted) = Cardinality(callsByUUID)
  BY <1>2, <1>3, <1>4
<1> QED BY <1>1, <1>3, <1>5, FS_Subset

LEMMA ZeroHidesNoCallNext ==
  (Shared!CMInv /\ ~overtaken /\ ~(activeCalls > 0) => callsByUUID \subseteq CM!Uncounted)'
BY ZeroHidesNoCall, PTL

\* So such a count leaves none of the calls that Drain waits for.
LEMMA ZeroIsEmpty ==
  ASSUME Shared!CMInv, DrainInv, ~overtaken, ~(activeCalls > 0)
  PROVE  before \cap callsByUUID = {}
BY ZeroHidesNoCall DEF DrainInv, CM!Uncounted

\* A step that brings no call of before back, wakes nobody and leaves main and WaitEmpty
\* where they are.
LEMMA DrainKept ==
  ASSUME DrainInv, UNCHANGED <<before, main, wait>>, DrainWoken' => DrainWoken,
         overtaken => overtaken',
         \A c \in before : add'[c] \in {"counted", "done"},
         before \cap callsByUUID' \subseteq callsByUUID
  PROVE  DrainInv'
<1> USE DEF DrainInv
<1>1. /\ before' \subseteq { c \in Invites : add'[c] \in {"counted", "done"} }
      /\ main' \in {"booting", "serving"} => before' = {}
      /\ main' \in {"booting", "serving", "stats"} => wait'[Drain] = "idle"
  OBVIOUS
<1>2. DrainSucceeded' => DrainSucceeded
  BY DEF DrainSucceeded
<1>3. (DrainWoken' \/ DrainSucceeded') /\ ~overtaken' => before' \cap callsByUUID' = {}
  BY <1>2
<1> QED BY <1>1, <1>3

LEMMA HandleInviteDrain ==
  ASSUME DrainInv, Shared!CMInv, NEW i \in Invites, HandleInvite(i)
  PROVE  DrainInv'
<1>0. add \in [Invites -> CM!AddStates]
  BY RegistryFacts DEF CM!CMTypeOK
<1>1. CASE CreateCall(i)
  <2>1. i \notin before
    BY <1>1 DEF CreateCall, CM!AddMaps, DrainInv
  <2> QED BY <1>0, <1>1, <2>1, DrainKept DEF CreateCall, CM!AddMaps, DrainWoken, DrainInv, app
<1>2. CASE AddCall(i)
  BY <1>0, <1>2, DrainKept
     DEF AddCall, CM!AddCount, CM!AddGauge, CM!mapVars, DrainWoken, DrainInv, app
<1>3. CASE ~CreateCall(i) /\ ~AddCall(i)
  <2>1. UNCHANGED <<registry, app>>
    BY <1>3 DEF HandleInvite, CheckReady, CheckLimit, CompareLimit, CheckDuplicate,
                RejectOffer, CreateListener, AnswerFails, RespondOK, RespondFails
  <2> QED BY <2>1, DrainKept DEF DrainWoken, DrainInv, registry, app
<1> QED BY <1>1, <1>2, <1>3

LEMMA RemoveDrain ==
  ASSUME DrainInv, Shared!CMInv, Shared!CMInv', NEW c \in Invites, RemoveCall(c)
  PROVE  DrainInv'
<1>1. UNCHANGED <<before, main>> /\ CM!Remove(c, SipID[c])
  BY DEF RemoveCall, app
<1>2. CASE CM!RemoveMissing(c, SipID[c])
  BY <1>1, <1>2, DrainKept DEF CM!RemoveMissing, CM!cmVars, DrainWoken, DrainInv
<1>3. CASE CM!RemoveFound(c, SipID[c])
  <2>1. /\ UNCHANGED <<wait, add, closedChans>> /\ callsByUUID' \subseteq callsByUUID
        /\ activeCalls' = activeCalls - 1
    BY <1>3 DEF CM!RemoveFound
  <2>2. overtaken => overtaken'
    BY <1>3, Zenon DEF CM!RemoveFound
  <2>3. CASE CM!NoneLeft(activeCalls - 1)
    <3>1. ~(activeCalls' > 0)
      BY <2>1, <2>3 DEF CM!NoneLeft
    <3>2. ~overtaken' => callsByUUID' \subseteq CM!Uncounted'
      BY <3>1, ZeroHidesNoCallNext
    <3>3. before' \cap CM!Uncounted' = {}
      BY <1>1, <2>1 DEF DrainInv, CM!Uncounted
    <3> QED BY <1>1, <2>1, <3>2, <3>3 DEF DrainInv
  <2>4. CASE ~CM!NoneLeft(activeCalls - 1)
    <3>1. UNCHANGED taken
      BY <1>3, <2>4 DEF CM!RemoveFound
    <3> QED BY <1>1, <2>1, <2>2, <3>1, DrainKept DEF DrainWoken, DrainInv
  <2> QED BY <2>3, <2>4
<1> QED BY <1>1, <1>2, <1>3 DEF CM!Remove

\* WaitEmpty returns nil on a count of zero, or woken.
LEMMA WaitDrain ==
  ASSUME DrainInv, Shared!CMInv, DrainWaits \/ DrainTimesOut
  PROVE  DrainInv'
<1>0. wait \in [{Drain} -> CM!WaitStates] /\ main = "waiting"
  BY RegistryFacts DEF CM!CMTypeOK, DrainWaits, DrainTimesOut
<1>1. /\ UNCHANGED <<before, main, add, callsByUUID, closedChans, taken, overtaken>>
      /\ \E to \in CM!WaitStates : wait' = [wait EXCEPT ![Drain] = to]
      /\ wait'[Drain] = "nil" => ~(activeCalls > 0) \/ Drain \in closedChans
  BY <1>0 DEF DrainWaits, DrainTimesOut, CM!WaitStep, CM!WaitCheck, CM!WaitRegister, CM!WaitWoken,
         CM!WaitCanceled, CM!WaitGoes, CM!WaitStates, CM!mapVars, app
<1>2. DrainWoken' <=> DrainWoken
  BY <1>1 DEF DrainWoken
<1>3. DrainSucceeded' /\ ~overtaken => before \cap callsByUUID = {}
  BY <1>0, <1>1, ZeroIsEmpty DEF DrainSucceeded, DrainWoken, DrainInv
<1> QED BY <1>0, <1>1, <1>2, <1>3 DEF DrainInv

LEMMA MainDrain ==
  ASSUME DrainInv, Shared!CMInv,
         SetReady \/ Reload \/ Signal \/ ServerError \/ DrainStats \/ DrainReturns \/ Shutdown
  PROVE  DrainInv'
<1>0. UNCHANGED registry
  BY DEF SetReady, Reload, Signal, ServerError, DrainStats, DrainReturns, Shutdown, ListCalls,
         HangupCall, Exit
<1>1. /\ UNCHANGED <<callsByUUID, add, closedChans, taken, wait, overtaken>>
      /\ DrainWoken' <=> DrainWoken
  BY <1>0 DEF registry, DrainWoken
<1> USE DEF DrainInv, DrainSucceeded, MainGoes
<1>2. CASE SetReady \/ Reload
  BY <1>1, <1>2 DEF SetReady, Reload
<1>3. CASE Signal
  <2>1. wait[Drain] = "idle" /\ main' = "stats"
    BY <1>3 DEF Signal
  <2>2. ~DrainWoken
    BY <2>1, RegistryFacts
  <2>3. before' = { c \in callsByUUID : add[c] \in {"counted", "done"} }
    BY <1>3 DEF Signal
  <2>4. callsByUUID \subseteq Invites
    BY RegistryFacts DEF CM!CMTypeOK
  <2> QED BY <1>1, <2>1, <2>2, <2>3, <2>4
<1>4. CASE ServerError
  BY <1>1, <1>4 DEF ServerError
<1>5. CASE DrainStats
  <2>1. main = "stats" /\ UNCHANGED before
    BY <1>5 DEF DrainStats
  <2>2. CASE NothingToDrain
    <3>1. ~overtaken => before \cap callsByUUID = {}
      BY <2>2, ZeroIsEmpty DEF NothingToDrain
    <3> QED BY <1>1, <1>5, <2>1, <2>2, <3>1 DEF DrainStats
  <2>3. CASE ~NothingToDrain
    BY <1>1, <1>5, <2>1, <2>3 DEF DrainStats
  <2> QED BY <2>2, <2>3
<1>6. CASE DrainReturns
  BY <1>1, <1>6 DEF DrainReturns
<1>7. CASE Shutdown
  BY <1>1, <1>7 DEF Shutdown, ListCalls, HangupCall, Exit
<1> QED BY <1>2, <1>3, <1>4, <1>5, <1>6, <1>7

LEMMA DrainStepInv ==
  DrainInv /\ Shared!CMInv /\ Shared!CMInv' /\ [SvcNext]_svcVars => DrainInv'
<1> SUFFICES ASSUME DrainInv, Shared!CMInv, Shared!CMInv', [SvcNext]_svcVars
             PROVE  DrainInv'
  OBVIOUS
<1>1. ASSUME NEW i \in Invites, HandleInvite(i) PROVE DrainInv'
  BY <1>1, HandleInviteDrain
<1>2. ASSUME NEW c \in Invites, RemoveCall(c) PROVE DrainInv'
  BY <1>2, RemoveDrain
<1>3. ASSUME NEW c \in Invites, WakeWaiters(c) PROVE DrainInv'
  <2>1. taken \in [Invites -> SUBSET {Drain}]
    BY RegistryFacts DEF CM!CMTypeOK
  <2>2. DrainWoken' => DrainWoken
    BY <1>3, <2>1 DEF WakeWaiters, CM!CloseTaken, DrainWoken
  <2> QED BY <1>3, <2>2, DrainKept DEF WakeWaiters, CM!CloseTaken, CM!mapVars, DrainInv, app
<1>4. ASSUME UNCHANGED <<registry, app>> PROVE DrainInv'
  BY <1>4, DrainKept DEF DrainWoken, DrainInv, registry, app
<1>5. ASSUME NEW c \in Invites, MediaTimeout(c) \/ AgentBye(c) \/ GetsStuck(c) \/ ReleaseCall(c)
      PROVE  DrainInv'
  BY <1>4, <1>5 DEF MediaTimeout, AgentBye, GetsStuck, ReleaseCall
<1>6. ASSUME NEW h \in Handlers, LookUp(h) \/ HandleEnd(h) \/ HandleAck(h)
      PROVE  DrainInv'
  BY <1>4, <1>6 DEF LookUp, HandleEnd, HandleAck, HandlerReturns
<1>7. CASE DrainWaits \/ DrainTimesOut
  BY <1>7, WaitDrain
<1>8. CASE SetReady \/ Reload \/ Signal \/ ServerError \/ DrainStats \/ DrainReturns \/ Shutdown
  BY <1>8, MainDrain
<1>9. CASE UNCHANGED svcVars
  BY <1>4, <1>9 DEF svcVars
<1> QED BY <1>1, <1>2, <1>3, <1>5, <1>6, <1>7, <1>8, <1>9 DEF SvcNext, DrainStep, CallEnds

\* When Drain reports that all calls have finished, every call that was counted when the
\* signal came has left the registry, unless a Remove once overtook an Add.
THEOREM DrainWaitsForItsCalls == SvcSpec => []DrainWaitsForCalls
<1>1. DrainInv => DrainWaitsForCalls
  BY DEF DrainInv, DrainWaitsForCalls
<1> QED BY <1>1, DrainInit, DrainStepInv, RegistryHolds, PTL DEF SvcSpec
=============================================================================
