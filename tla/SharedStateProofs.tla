-------------------------- MODULE SharedStateProofs --------------------------
(* Proofs about what every goroutine of the service shares: the call registry,  *)
(* for any number of calls, Call-IDs and goroutines, with Call-IDs that need    *)
(* not be distinct; and the port allocator, for every range and set of calls.   *)
EXTENDS CallManager, RTPManager, FiniteSetTheorems, TLAPS

----------------------------------------------------------------------------
(* The call registry                                                        *)

\* A goroutine's channel is registered, taken or closed only after WaitEmpty
\* got past its second check.
OnlyBlockedWaitersAreListed ==
  \A w \in Waiters :
    (w \in emptyWaiters \/ w \in closedChans \/ \E r \in Removers : w \in taken[r])
      => wait[w] \in {"waiting", "nil", "ctx"}

\* A call is in the maps only after its Add stored it.
OnlyAddedCallsAreRegistered == \A c \in callsByUUID : add[c] # "idle"

\* Unless a Remove overtook an Add, an Add that is half-way still has its call
\* in the maps.
HalfwayCallsAreRegistered == ~overtaken => Uncounted \subseteq callsByUUID

CMInv ==
  /\ CMTypeOK
  /\ CountMatchesMaps
  /\ SIPEntryIsRegistered
  /\ OnlyAddedCallsAreRegistered
  /\ EveryCallReachable
  /\ HalfwayCallsAreRegistered
  /\ WaitersHaveACallToWaitFor
  /\ OnlyBlockedWaitersAreListed
  /\ NoDoubleClose

LEMMA CMInitInv == CMInit => CMInv
<1> SUFFICES ASSUME CMInit PROVE CMInv
  OBVIOUS
<1>1. CMTypeOK
  <2>1. /\ activeCalls \in Int /\ totalCalls \in Nat /\ gauge \in Int
        /\ newCount \in [Calls -> Int]
    BY SMT DEF CMInit
  <2>2. overtaken \in BOOLEAN
    BY Zenon DEF CMInit
  <2>3. taken \in [Removers -> SUBSET Waiters]
    BY Zenon DEF CMInit
  <2>4. /\ callsBySIP \in [CallIDs -> Calls \cup {NoCall}]
        /\ callsByUUID \subseteq Calls
        /\ emptyWaiters \subseteq Waiters /\ closedChans \subseteq Waiters
        /\ add \in [Calls -> AddStates] /\ wait \in [Waiters -> WaitStates]
    BY DEF CMInit, AddStates, WaitStates
  <2> QED BY <2>1, <2>2, <2>3, <2>4 DEF CMTypeOK
<1>2. callsByUUID = {} /\ Uncounted = {} /\ emptyWaiters = {}
  BY DEF CMInit, Uncounted
<1>3. CountMatchesMaps
  <2>1. Cardinality({}) = 0
    BY FS_EmptySet
  <2> QED BY <1>2, <2>1 DEF CMInit, CountMatchesMaps
<1>4. SIPEntryIsRegistered
  BY DEF CMInit, SIPEntryIsRegistered, Registered, Get
<1>5. /\ OnlyAddedCallsAreRegistered /\ EveryCallReachable
      /\ HalfwayCallsAreRegistered /\ WaitersHaveACallToWaitFor
  BY <1>2 DEF OnlyAddedCallsAreRegistered, EveryCallReachable,
              HalfwayCallsAreRegistered, WaitersHaveACallToWaitFor
<1>6. OnlyBlockedWaitersAreListed /\ NoDoubleClose
  BY DEF CMInit, OnlyBlockedWaitersAreListed, NoDoubleClose
<1> QED BY <1>1, <1>3, <1>4, <1>5, <1>6 DEF CMInv

\* The cardinality facts every step needs.
LEMMA SubsetsOfCallsAreFinite ==
  ASSUME NEW S, S \subseteq Calls
  PROVE  IsFiniteSet(S) /\ Cardinality(S) \in Nat
BY CallManagerConstants, FS_Subset, FS_CardinalityType

LEMMA AddMapsInv ==
  ASSUME CMInv, NEW c \in Calls, AddMaps(c)
  PROVE  CMInv'
<1> USE DEF CMInv
<1>1. CMTypeOK'
  BY CallManagerConstants DEF AddMaps, CMTypeOK, AddStates, countVars
<1>2. c \notin callsByUUID /\ c \notin Uncounted
  BY DEF AddMaps, OnlyAddedCallsAreRegistered, Uncounted
<1>3. callsByUUID' = callsByUUID \cup {c} /\ Uncounted' = Uncounted \cup {c}
  BY DEF AddMaps, Uncounted, CMTypeOK
<1>4. CountMatchesMaps'
  <2>1. callsByUUID \subseteq Calls /\ Uncounted \subseteq Calls
    BY DEF CMTypeOK, Uncounted
  <2>2. /\ Cardinality(callsByUUID \cup {c}) = Cardinality(callsByUUID) + 1
        /\ Cardinality(Uncounted \cup {c}) = Cardinality(Uncounted) + 1
    BY <1>2, <2>1, SubsetsOfCallsAreFinite, FS_AddElement
  <2>3. activeCalls' = activeCalls
    BY DEF AddMaps, countVars
  <2> QED BY <1>3, <2>1, <2>2, <2>3, SubsetsOfCallsAreFinite, SMT
        DEF CountMatchesMaps
<1>5. SIPEntryIsRegistered'
  BY CallManagerConstants DEF AddMaps, SIPEntryIsRegistered, Registered, Get, CMTypeOK
<1>6. OnlyAddedCallsAreRegistered'
  BY DEF AddMaps, OnlyAddedCallsAreRegistered, CMTypeOK
<1>7. EveryCallReachable'
  BY CallManagerConstants DEF AddMaps, EveryCallReachable, UniqueIDs, Get, CMTypeOK
<1>8. HalfwayCallsAreRegistered'
  BY <1>3 DEF AddMaps, HalfwayCallsAreRegistered
<1>9. WaitersHaveACallToWaitFor' /\ OnlyBlockedWaitersAreListed' /\ NoDoubleClose'
  BY DEF AddMaps, countVars, WaitersHaveACallToWaitFor, OnlyBlockedWaitersAreListed,
         NoDoubleClose
<1> QED BY <1>1, <1>4, <1>5, <1>6, <1>7, <1>8, <1>9

LEMMA AddCountInv ==
  ASSUME CMInv, NEW c \in Calls, AddCount(c)
  PROVE  CMInv'
<1> USE DEF CMInv
<1>1. CMTypeOK'
  BY DEF AddCount, CMTypeOK, AddStates, mapVars
<1>2. c \in Uncounted /\ Uncounted' = Uncounted \ {c}
  BY DEF AddCount, Uncounted, CMTypeOK
<1>3. CountMatchesMaps'
  <2>1. Uncounted \subseteq Calls /\ callsByUUID \subseteq Calls
    BY DEF Uncounted, CMTypeOK
  <2>2. Cardinality(Uncounted \ {c}) = Cardinality(Uncounted) - 1
    BY <1>2, <2>1, SubsetsOfCallsAreFinite, FS_RemoveElement
  <2>3. activeCalls' = activeCalls + 1 /\ callsByUUID' = callsByUUID /\ activeCalls \in Int
    BY DEF AddCount, mapVars, CMTypeOK
  <2> QED BY <1>2, <2>1, <2>2, <2>3, SubsetsOfCallsAreFinite, SMT
        DEF CountMatchesMaps
<1>4. SIPEntryIsRegistered' /\ EveryCallReachable'
  BY DEF AddCount, mapVars, SIPEntryIsRegistered, EveryCallReachable, Registered, Get
<1>5. OnlyAddedCallsAreRegistered'
  BY DEF AddCount, mapVars, OnlyAddedCallsAreRegistered, CMTypeOK
<1>6. HalfwayCallsAreRegistered'
  BY <1>2 DEF AddCount, mapVars, HalfwayCallsAreRegistered
<1>7. WaitersHaveACallToWaitFor'
  BY SMT DEF AddCount, WaitersHaveACallToWaitFor, CMTypeOK
<1>8. OnlyBlockedWaitersAreListed' /\ NoDoubleClose'
  BY DEF AddCount, OnlyBlockedWaitersAreListed, NoDoubleClose
<1> QED BY <1>1, <1>3, <1>4, <1>5, <1>6, <1>7, <1>8

LEMMA AddGaugeInv ==
  ASSUME CMInv, NEW c \in Calls, AddGauge(c)
  PROVE  CMInv'
<1> USE DEF CMInv
<1>1. CMTypeOK'
  BY DEF AddGauge, CMTypeOK, AddStates, mapVars
<1>2. Uncounted' = Uncounted
  BY DEF AddGauge, Uncounted, CMTypeOK
<1>3. CountMatchesMaps' /\ HalfwayCallsAreRegistered'
  BY <1>2 DEF AddGauge, mapVars, CountMatchesMaps, HalfwayCallsAreRegistered
<1>4. SIPEntryIsRegistered' /\ EveryCallReachable'
  BY DEF AddGauge, mapVars, SIPEntryIsRegistered, EveryCallReachable, Registered, Get
<1>5. OnlyAddedCallsAreRegistered'
  BY DEF AddGauge, mapVars, OnlyAddedCallsAreRegistered, CMTypeOK
<1>6. WaitersHaveACallToWaitFor' /\ OnlyBlockedWaitersAreListed' /\ NoDoubleClose'
  BY DEF AddGauge, WaitersHaveACallToWaitFor, OnlyBlockedWaitersAreListed, NoDoubleClose
<1> QED BY <1>1, <1>3, <1>4, <1>5, <1>6

LEMMA RemoveFoundInv ==
  ASSUME CMInv, NEW r \in Removers, NEW id \in CallIDs, taken[r] = {}, RemoveFound(r, id)
  PROVE  CMInv'
<1> USE DEF CMInv
<1> DEFINE c == Get(id)
<1>1. c \in callsByUUID /\ c \in Calls /\ SipID[c] = id
  BY DEF RemoveFound, SIPEntryIsRegistered, CMTypeOK
<1>2. /\ callsByUUID' = callsByUUID \ {c}
      /\ callsBySIP' = [callsBySIP EXCEPT ![id] = NoCall]
      /\ activeCalls' = activeCalls - 1
      /\ gauge' = activeCalls - 1
      /\ UNCHANGED <<totalCalls, closedChans, add, newCount, wait>>
      /\ overtaken' = (overtaken \/ add[c] = "mapped")
  BY DEF RemoveFound, UUIDEntry
<1>3. \/ /\ activeCalls - 1 = 0
         /\ taken' = [taken EXCEPT ![r] = emptyWaiters] /\ emptyWaiters' = {}
      \/ /\ activeCalls - 1 # 0
         /\ UNCHANGED <<taken, emptyWaiters>>
  BY DEF RemoveFound, TakeWaiters, NoneLeft
<1>4. CMTypeOK'
  BY <1>2, <1>3 DEF CMTypeOK
<1>5. Uncounted' = Uncounted
  BY <1>2 DEF Uncounted
<1>6. CountMatchesMaps'
  <2>1. Uncounted \subseteq Calls /\ callsByUUID \subseteq Calls /\ activeCalls \in Int
    BY DEF Uncounted, CMTypeOK
  <2>2. Cardinality(callsByUUID \ {c}) = Cardinality(callsByUUID) - 1
    BY <1>1, <2>1, SubsetsOfCallsAreFinite, FS_RemoveElement
  <2> HIDE DEF c
  <2> QED BY <1>2, <1>5, <2>1, <2>2, SubsetsOfCallsAreFinite, SMT
        DEF CountMatchesMaps
<1>7. SIPEntryIsRegistered'
  <2> SUFFICES ASSUME NEW i \in CallIDs, callsBySIP'[i] # NoCall
               PROVE  SipID[callsBySIP'[i]] = i /\ callsBySIP'[i] \in callsByUUID'
    BY DEF SIPEntryIsRegistered, Registered, Get
  <2>1. i # id /\ callsBySIP'[i] = callsBySIP[i]
    BY <1>2 DEF CMTypeOK
  <2>2. SipID[callsBySIP[i]] = i /\ callsBySIP[i] \in callsByUUID
    BY <2>1 DEF SIPEntryIsRegistered, Registered, Get
  <2>3. callsBySIP[i] # c
    BY <1>1, <2>1, <2>2
  <2> QED BY <1>2, <2>1, <2>2, <2>3
<1>8. OnlyAddedCallsAreRegistered'
  BY <1>2 DEF OnlyAddedCallsAreRegistered
<1>9. EveryCallReachable'
  <2> SUFFICES ASSUME UniqueIDs, NEW x \in callsByUUID'
               PROVE  callsBySIP'[SipID[x]] = x
    BY DEF EveryCallReachable, UniqueIDs, Get
  <2>1. x \in Calls /\ x \in callsByUUID /\ x # c
    BY <1>2 DEF CMTypeOK
  <2>2. SipID[x] # id
    BY <1>1, <2>1 DEF UniqueIDs
  <2>3. callsBySIP[SipID[x]] = x
    BY <2>1 DEF EveryCallReachable, Get
  <2>4. SipID[x] \in CallIDs
    BY <2>1, CallManagerConstants
  <2> QED BY <1>2, <2>2, <2>3, <2>4 DEF CMTypeOK
<1>10. HalfwayCallsAreRegistered'
  BY <1>2, <1>5 DEF HalfwayCallsAreRegistered, Uncounted
<1>11. WaitersHaveACallToWaitFor'
  BY <1>2, <1>3, SMT DEF WaitersHaveACallToWaitFor, CMTypeOK
<1>12. OnlyBlockedWaitersAreListed'
  BY <1>2, <1>3 DEF OnlyBlockedWaitersAreListed, CMTypeOK
<1>13. NoDoubleClose'
  BY <1>2, <1>3 DEF NoDoubleClose, CMTypeOK
<1> QED BY <1>4, <1>6, <1>7, <1>8, <1>9, <1>10, <1>11, <1>12, <1>13

LEMMA CloseTakenInv ==
  ASSUME CMInv, NEW r \in Removers, CloseTaken(r)
  PROVE  CMInv'
<1> USE DEF CMInv
<1>1. CMTypeOK'
  BY DEF CloseTaken, CMTypeOK, mapVars, countVars
<1>2. Uncounted' = Uncounted
  BY DEF CloseTaken, Uncounted
<1>3. CountMatchesMaps' /\ HalfwayCallsAreRegistered'
  BY <1>2 DEF CloseTaken, mapVars, countVars, CountMatchesMaps, HalfwayCallsAreRegistered
<1>4. /\ SIPEntryIsRegistered' /\ EveryCallReachable' /\ OnlyAddedCallsAreRegistered'
      /\ WaitersHaveACallToWaitFor'
  BY DEF CloseTaken, mapVars, countVars, SIPEntryIsRegistered, EveryCallReachable,
         Registered, Get, OnlyAddedCallsAreRegistered, WaitersHaveACallToWaitFor
<1>5. OnlyBlockedWaitersAreListed'
  BY DEF CloseTaken, OnlyBlockedWaitersAreListed, CMTypeOK
<1>6. NoDoubleClose'
  BY DEF CloseTaken, NoDoubleClose, CMTypeOK
<1> QED BY <1>1, <1>3, <1>4, <1>5, <1>6

LEMMA WaitInv ==
  ASSUME CMInv, NEW w \in Waiters, WaitStep(w) \/ WaitCanceled(w)
  PROVE  CMInv'
<1> USE DEF CMInv
<1>1. /\ UNCHANGED <<mapVars, countVars, closedChans, add, newCount, taken, overtaken>>
      /\ \E to \in WaitStates : wait' = [wait EXCEPT ![w] = to]
      /\ \/ UNCHANGED emptyWaiters
         \/ emptyWaiters' = emptyWaiters \cup {w} /\ activeCalls # 0 /\ wait[w] = "checked"
            /\ wait'[w] = "waiting"
      /\ wait[w] \in {"waiting", "nil", "ctx"} => wait'[w] \in {"waiting", "nil", "ctx"}
  BY DEF WaitStep, WaitCanceled, WaitCheck, WaitRegister, WaitWoken, WaitGoes, WaitStates,
         CMTypeOK
<1>2. CMTypeOK'
  BY <1>1 DEF CMTypeOK, mapVars, countVars
<1>3. Uncounted' = Uncounted
  BY <1>1 DEF Uncounted
<1>4. CountMatchesMaps' /\ HalfwayCallsAreRegistered'
  BY <1>1, <1>3 DEF mapVars, countVars, CountMatchesMaps, HalfwayCallsAreRegistered
<1>5. SIPEntryIsRegistered' /\ EveryCallReachable' /\ OnlyAddedCallsAreRegistered'
  BY <1>1 DEF mapVars, SIPEntryIsRegistered, EveryCallReachable, Registered, Get,
              OnlyAddedCallsAreRegistered
<1>6. ~overtaken => activeCalls >= 0
  <2> SUFFICES ASSUME ~overtaken PROVE activeCalls >= 0
    OBVIOUS
  <2>1. Uncounted \subseteq callsByUUID /\ callsByUUID \subseteq Calls
    BY DEF HalfwayCallsAreRegistered, CMTypeOK
  <2>2. Cardinality(Uncounted) <= Cardinality(callsByUUID)
    BY <2>1, SubsetsOfCallsAreFinite, FS_Subset
  <2>3. Cardinality(Uncounted) \in Nat /\ Cardinality(callsByUUID) \in Nat
    BY <2>1, SubsetsOfCallsAreFinite
  <2> QED BY <2>2, <2>3, SMT DEF CountMatchesMaps
<1>7. WaitersHaveACallToWaitFor'
  BY <1>1, <1>6, SMT DEF WaitersHaveACallToWaitFor, countVars, CMTypeOK
<1>8. OnlyBlockedWaitersAreListed'
  BY <1>1 DEF OnlyBlockedWaitersAreListed, CMTypeOK
<1>9. NoDoubleClose'
  BY <1>1 DEF NoDoubleClose, OnlyBlockedWaitersAreListed, CMTypeOK
<1> QED BY <1>2, <1>4, <1>5, <1>7, <1>8, <1>9

LEMMA CMStepInv == CMInv /\ [CMNext]_cmVars => CMInv'
<1> SUFFICES ASSUME CMInv, [CMNext]_cmVars PROVE CMInv'
  OBVIOUS
<1>1. ASSUME NEW c \in Calls, AddStep(c) PROVE CMInv'
  BY <1>1, AddMapsInv, AddCountInv, AddGaugeInv DEF AddStep
<1>2. ASSUME UNCHANGED cmVars PROVE CMInv'
  BY <1>2 DEF cmVars, CMInv, CMTypeOK, CountMatchesMaps, Uncounted, SIPEntryIsRegistered,
     Registered, Get, OnlyAddedCallsAreRegistered, EveryCallReachable,
     HalfwayCallsAreRegistered, WaitersHaveACallToWaitFor, OnlyBlockedWaitersAreListed,
     NoDoubleClose
<1>3. ASSUME NEW r \in Removers, RemoveStep(r) PROVE CMInv'
  BY <1>2, <1>3, RemoveFoundInv, CloseTakenInv DEF RemoveStep, Remove, RemoveMissing
<1>4. ASSUME NEW w \in Waiters, WaitStep(w) \/ WaitCanceled(w) PROVE CMInv'
  BY <1>4, WaitInv
<1> QED BY <1>1, <1>2, <1>3, <1>4 DEF CMNext

LEMMA RegistryInvariant == CMSpec => []CMInv
BY CMInitInv, CMStepInv, PTL DEF CMSpec

\* The registry is well typed.
THEOREM CMTypeCorrect == CMSpec => []CMTypeOK
BY RegistryInvariant, PTL DEF CMInv

\* The atomic count never drifts from the maps: it differs from the size of
\* callsByUUID by the Adds that are half-way, whatever the interleaving.
THEOREM CountIsExact == CMSpec => []CountMatchesMaps
BY RegistryInvariant, PTL DEF CMInv

\* What Get hands to a BYE, CANCEL or ACK handler is a registered call with
\* the Call-ID asked for.
THEOREM EntriesAreRegistered == CMSpec => []SIPEntryIsRegistered
BY RegistryInvariant, PTL DEF CMInv

\* With distinct Call-IDs, no registered call is out of Remove's reach.
THEOREM RegisteredCallsAreReachable == CMSpec => []EveryCallReachable
BY RegistryInvariant, PTL DEF CMInv

\* A goroutine blocks in WaitEmpty only while a Remove is to come that takes
\* its channel, unless a Remove overtook an Add.
THEOREM BlockedWaitersHaveACall == CMSpec => []WaitersHaveACallToWaitFor
BY RegistryInvariant, PTL DEF CMInv

\* No channel is closed twice: Remove hands each one to a single goroutine.
THEOREM ChannelsCloseOnce == CMSpec => []NoDoubleClose
BY RegistryInvariant, PTL DEF CMInv

----------------------------------------------------------------------------
(* The port allocator                                                       *)

\* The rounded range is not empty (so the "no valid even RTP ports" branch of
\* CreateListener is dead) and its k-th port is an even port of the range.
LEMMA RangeFacts ==
  /\ FirstEven \in Nat /\ LastEven \in Nat /\ FirstEven <= LastEven
  /\ FirstEven \in {PortMin, PortMin + 1} /\ FirstEven % 2 = 0
  /\ LastEven \in {PortMax, PortMax - 1} /\ LastEven % 2 = 0
  /\ FirstEven > 0
  /\ NumEvenPorts \in Nat \ {0}
  /\ 2 * (NumEvenPorts - 1) = LastEven - FirstEven
<1>1. /\ PortMin \in Nat /\ PortMax \in Nat /\ PortMin < PortMax /\ PortMin >= 1024
  BY PortRange, SMT
<1>2. /\ FirstEven \in Nat /\ LastEven \in Nat
      /\ FirstEven \in {PortMin, PortMin + 1} /\ FirstEven % 2 = 0
      /\ LastEven \in {PortMax, PortMax - 1} /\ LastEven % 2 = 0
      /\ FirstEven > 0
  BY <1>1, SMT DEF FirstEven, LastEven
<1>3. FirstEven <= LastEven
  BY <1>1, <1>2, SMT
<1>4. /\ NumEvenPorts \in Nat \ {0}
      /\ 2 * (NumEvenPorts - 1) = LastEven - FirstEven
  BY <1>2, <1>3, SMT DEF NumEvenPorts
<1> QED BY <1>2, <1>3, <1>4

LEMMA PortAtIsEven ==
  ASSUME NEW k \in Turns
  PROVE  PortAt(k) \in EvenPorts /\ PortAt(k) # NoPort
<1>1. k \in Nat /\ 2 * k <= LastEven - FirstEven
  BY RangeFacts, SMT DEF Turns
<1>2. PortAt(k) \in Nat /\ PortAt(k) % 2 = 0
  BY <1>1, RangeFacts, SMT DEF PortAt
<1>3. PortMin <= PortAt(k) /\ PortAt(k) <= PortMax
  BY <1>1, RangeFacts, PortRange, SMT DEF PortAt
<1> QED BY <1>1, <1>2, <1>3, PortRange, RangeFacts, SMT DEF EvenPorts, NoPort

LEMMA EvenPortsHaveAnIndex ==
  ASSUME NEW p \in EvenPorts
  PROVE  /\ (p - FirstEven) \div 2 \in Turns
         /\ p = PortAt((p - FirstEven) \div 2)
<1>1. p \in Nat /\ PortMin <= p /\ p <= PortMax /\ p % 2 = 0
  BY PortRange DEF EvenPorts
<1>2. FirstEven <= p /\ p <= LastEven
  BY <1>1, RangeFacts, PortRange, SMT
<1>3. /\ (p - FirstEven) \div 2 \in Nat
      /\ 2 * ((p - FirstEven) \div 2) = p - FirstEven
  BY <1>1, <1>2, RangeFacts, SMT
<1>4. (p - FirstEven) \div 2 <= NumEvenPorts - 1
  <2>1. 2 * ((p - FirstEven) \div 2) <= 2 * (NumEvenPorts - 1)
    BY <1>1, <1>2, <1>3, RangeFacts, SMT
  <2> QED BY <1>3, <2>1, RangeFacts, SMT
<1> QED BY <1>1, <1>3, <1>4, RangeFacts, SMT DEF Turns, PortAt

LEMMA ModIsIndex ==
  ASSUME NEW a \in Nat
  PROVE  a % NumEvenPorts \in Turns
BY RangeFacts, SMT DEF Turns

\* Wherever the cursor stands, every turn visits a port of the range, and
\* every port of the range has its turn.
LEMMA SearchVisitsAll ==
  ASSUME RTPTypeOK
  PROVE  /\ StartOffset \in Turns
         /\ \A i \in Turns : Visited(i) \in Turns
         /\ \A k \in Turns : \E i \in Turns : Visited(i) = k
<1>1. StartOffset \in Turns
  <2>1. nextPort \in EvenPorts
    BY DEF RTPTypeOK
  <2>2. 0 \in Turns
    BY RangeFacts, SMT DEF Turns
  <2> QED BY <2>1, <2>2, EvenPortsHaveAnIndex DEF StartOffset
<1>2. \A i \in Turns : Visited(i) \in Turns
  BY <1>1, ModIsIndex, RangeFacts, SMT DEF Visited, Turns
<1>3. ASSUME NEW k \in Turns
      PROVE  \E i \in Turns : Visited(i) = k
  <2> DEFINE n == NumEvenPorts
             s == StartOffset
  <2>1. /\ n \in Nat \ {0} /\ s \in Nat /\ s < n /\ k \in Nat /\ k < n
    BY <1>1, RangeFacts, SMT DEF Turns
  <2> HIDE DEF n, s
  <2>2. CASE s <= k
    <3>1. k - s \in Nat /\ k - s < n /\ s + (k - s) = k
      BY <2>1, <2>2, SMT
    <3>2. (s + (k - s)) % n = k
      BY <2>1, <3>1, SMT
    <3>3. k - s \in Turns
      BY <3>1, RangeFacts, SMT DEF Turns, n
    <3> QED BY <3>2, <3>3 DEF Visited, n, s
  <2>3. CASE k < s
    <3>1. k - s + n \in Nat /\ k - s + n < n /\ s + (k - s + n) = k + n
      BY <2>1, <2>3, SMT
    <3>2. (k + n) % n = k
      BY <2>1, SMT
    <3>3. k - s + n \in Turns
      BY <3>1, RangeFacts, SMT DEF Turns, n
    <3> QED BY <3>1, <3>2, <3>3 DEF Visited, n, s
  <2> QED BY <2>1, <2>2, <2>3, SMT
<1> QED BY <1>1, <1>2, <1>3

----------------------------------------------------------------------------
\* No two open sockets share a port.
SocketsExclusive ==
  \A o, q \in Owners : Holds(o) /\ Holds(q) /\ conn[o] = conn[q] => o = q

\* The inductive invariant: when a socket is closed, no other one is open on its port,
\* so the mark that goes is that of a closed socket.
RTPInv == RTPTypeOK /\ MarksAreOpenSockets /\ SocketsExclusive

LEMMA InitInv == RTPInit => RTPInv
<1> SUFFICES ASSUME RTPInit PROVE RTPInv
  OBVIOUS
<1>1. PortAt(0) = FirstEven /\ 0 \in Turns
  BY RangeFacts, SMT DEF PortAt, Turns
<1>2. RTPTypeOK
  BY <1>1, PortAtIsEven DEF RTPInit, RTPTypeOK
<1>3. MarksAreOpenSockets /\ SocketsExclusive
  BY DEF RTPInit, MarksAreOpenSockets, SocketsExclusive, OpenPorts, Holds
<1> QED BY <1>2, <1>3 DEF RTPInv

LEMMA CreateInv ==
  ASSUME RTPInv, NEW o \in Owners, CreateListener(o)
  PROVE  RTPInv'
<1> USE DEF RTPInv
<1>1. PICK i \in Turns :
        /\ FoundAt(i)
        /\ conn' = [conn EXCEPT ![o] = PortAt(Visited(i))]
        /\ ports' = ports \cup {PortAt(Visited(i))}
        /\ nextPort' = PortAt(CursorAfter(i))
  BY DEF CreateListener
<1> DEFINE p == PortAt(Visited(i))
<1>2. Visited(i) \in Turns
  BY SearchVisitsAll
<1>3. p \in EvenPorts /\ p # NoPort
  BY <1>2, PortAtIsEven
<1>4. nextPort' \in EvenPorts
  <2>1. Visited(i) + 1 \in Nat
    BY <1>2, SMT DEF Turns
  <2> QED BY <1>1, <2>1, ModIsIndex, PortAtIsEven DEF CursorAfter
<1>5. p \notin OpenPorts
  BY <1>1 DEF FoundAt, Usable, CanBind
<1>6. /\ ~Holds(o)
      /\ closed' = closed \ {o} /\ foreign' = foreign /\ twice' = twice
  BY DEF CreateListener
<1> HIDE DEF p
<1>7. conn' = [conn EXCEPT ![o] = p] /\ ports' = ports \cup {p}
  BY <1>1 DEF p
<1>8. RTPTypeOK'
  BY <1>3, <1>4, <1>6, <1>7 DEF RTPTypeOK
<1>9. \A q \in Owners :
        /\ Holds(q)' <=> (q = o \/ Holds(q))
        /\ conn'[q] = IF q = o THEN p ELSE conn[q]
  BY <1>3, <1>6, <1>7 DEF Holds, RTPTypeOK
<1>10. OpenPorts' = OpenPorts \cup {p}
  BY <1>6, <1>9 DEF OpenPorts
<1>11. SocketsExclusive'
  BY <1>5, <1>9 DEF SocketsExclusive, OpenPorts
<1> QED BY <1>6, <1>7, <1>8, <1>10, <1>11 DEF MarksAreOpenSockets

\* The first release of a socket takes its port out of the open ones; any further one
\* leaves them alone, and can only take a mark away.
LEMMA ReleaseInv ==
  ASSUME RTPInv, NEW o \in Owners, ReleaseListener(o)
  PROVE  RTPInv'
<1> USE DEF RTPInv, ReleaseListener, Closes
<1>1. RTPTypeOK'
  <2>1. twice' \in BOOLEAN
    BY Zenon DEF RTPTypeOK
  <2> QED BY <2>1 DEF RTPTypeOK
<1>2. \A q \in Owners : Holds(q)' <=> Holds(q) /\ q # o
  BY DEF Holds
<1>3. conn' = conn /\ ports' = ports \ {conn[o]}
  OBVIOUS
<1>4. SocketsExclusive'
  BY <1>2, <1>3 DEF SocketsExclusive
<1>5. OpenPorts \ {conn[o]} \subseteq OpenPorts' /\ OpenPorts' \subseteq OpenPorts
  BY <1>2, <1>3 DEF OpenPorts
<1>6. CASE o \in closed
  <2>1. ~Holds(o) /\ twice'
    BY <1>6 DEF Holds
  <2> QED BY <1>1, <1>3, <1>4, <1>5, <2>1 DEF MarksAreOpenSockets
<1>7. CASE o \notin closed
  <2>1. Holds(o) /\ (twice' <=> twice)
    BY <1>7 DEF Holds
  <2>2. conn[o] \notin OpenPorts'
    BY <1>2, <1>3, <2>1 DEF OpenPorts, SocketsExclusive
  <2> QED BY <1>1, <1>3, <1>4, <1>5, <2>1, <2>2 DEF MarksAreOpenSockets
<1> QED BY <1>6, <1>7

LEMMA StepInv == RTPInv /\ [RTPNext]_rtpVars => RTPInv'
<1> SUFFICES ASSUME RTPInv, [RTPNext]_rtpVars PROVE RTPInv'
  OBVIOUS
<1> USE DEF RTPInv
<1>1. ASSUME NEW o \in Owners, CreateListener(o)
      PROVE  RTPInv'
  BY <1>1, CreateInv
<1>2. ASSUME NEW o \in Owners, CreateListenerFails(o)
      PROVE  RTPInv'
  BY <1>2, SearchVisitsAll, PortAtIsEven
     DEF CreateListenerFails, RTPTypeOK, MarksAreOpenSockets, SocketsExclusive, OpenPorts, Holds
<1>3. ASSUME NEW o \in Owners, ReleaseListener(o)
      PROVE  RTPInv'
  BY <1>3, ReleaseInv
<1>4. CASE ForeignBinds
  BY <1>4 DEF ForeignBinds, RTPTypeOK, MarksAreOpenSockets, SocketsExclusive, OpenPorts, Holds
<1>5. CASE UNCHANGED rtpVars
  BY <1>5 DEF rtpVars, RTPTypeOK, MarksAreOpenSockets, SocketsExclusive, OpenPorts, Holds
<1> QED BY <1>1, <1>2, <1>3, <1>4, <1>5 DEF RTPNext

LEMMA AllocatorInvariant == RTPSpec => []RTPInv
BY InitInv, StepInv, PTL DEF RTPSpec

\* Every port that is marked, open or next in the search is an even port of
\* the configured range: the round-robin arithmetic never leaves it.
THEOREM RTPTypeCorrect == RTPSpec => []RTPTypeOK
BY AllocatorInvariant, PTL DEF RTPInv

\* CreateListener and ReleaseListener mark open sockets only, and all of them unless a
\* socket was released twice: the range neither shrinks nor loses track of a call.
THEOREM MarksMatchSockets == RTPSpec => []MarksAreOpenSockets
BY AllocatorInvariant, PTL DEF RTPInv

LEMMA ExhaustionIsReal == RTPInv => NoFalseExhaustion
<1> SUFFICES ASSUME RTPInv, Exhausted, NEW p \in EvenPorts
             PROVE  p \in OpenPorts \cup foreign
  BY DEF NoFalseExhaustion
<1>1. PICK k \in Turns : p = PortAt(k)
  BY EvenPortsHaveAnIndex
<1>2. PICK i \in Turns : Visited(i) = k
  BY SearchVisitsAll DEF RTPInv
<1>3. ~Usable(p)
  BY <1>1, <1>2 DEF Exhausted
<1> QED BY <1>3 DEF Usable, CanBind, RTPInv, MarksAreOpenSockets

\* CreateListener fails only when every even port of the range is taken.
THEOREM ExhaustionIsNeverFalse == RTPSpec => []NoFalseExhaustion
BY AllocatorInvariant, ExhaustionIsReal, PTL
=============================================================================
