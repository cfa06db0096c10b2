----------------------------- MODULE CallManager -----------------------------
(***************************************************************************)
(* The call registry (internal/call/call_manager.go): two maps under a       *)
(* mutex, an atomic count kept beside them, and the channels of the          *)
(* goroutines that wait in WaitEmpty for the count to reach zero.            *)
(*                                                                         *)
(* The actions are the critical sections.  Add is three steps, because it    *)
(* updates the maps under the mutex and the count and the gauge after it;    *)
(* Remove is one critical section followed by the closing of the channels    *)
(* it took; WaitEmpty checks, checks again under the mutex, then blocks.     *)
(* Any thread may call Remove with any Call-ID at any time.                  *)
(***************************************************************************)
EXTENDS Integers, FiniteSets

CONSTANTS Calls,    \* the *ActiveCall objects, each with a UUID of its own
          CallIDs,  \* SIP Call-IDs (and the synthetic IDs of WebRTC calls)
          SipID,    \* SipID[c]: call.CallID
          NoCall,   \* the nil *ActiveCall
          Removers, \* the goroutines that call Remove
          Waiters   \* the goroutines that call WaitEmpty

ASSUME CallManagerConstants ==
  /\ IsFiniteSet(Calls)
  /\ SipID \in [Calls -> CallIDs]
  /\ NoCall \notin Calls

VARIABLES callsBySIP,   \* [CallIDs -> Calls \cup {NoCall}], NoCall: no entry
          callsByUUID,  \* the calls that have an entry
          activeCalls,  \* atomic.Int64
          totalCalls,   \* atomic.Int64
          gauge,        \* the metric teleportal_calls_active
          emptyWaiters, \* the waiters whose channel is registered
          closedChans,  \* the waiters whose channel is closed
          add,          \* add[c]: how far Add(c) has come
          newCount,     \* newCount[c]: Add's local variable
          taken,        \* taken[r]: the channels r's Remove has yet to close
          wait,         \* wait[w]: how far WaitEmpty has come
          overtaken     \* history: a Remove came between Add's two halves

mapVars == <<callsBySIP, callsByUUID>>
countVars == <<activeCalls, totalCalls, gauge>>
cmVars == <<callsBySIP, callsByUUID, activeCalls, totalCalls, gauge, emptyWaiters,
            closedChans, add, newCount, taken, wait, overtaken>>

CMInit ==
  /\ callsBySIP = [id \in CallIDs |-> NoCall]
  /\ callsByUUID = {}
  /\ activeCalls = 0
  /\ totalCalls = 0
  /\ gauge = 0
  /\ emptyWaiters = {}
  /\ closedChans = {}
  /\ add = [c \in Calls |-> "idle"]
  /\ newCount = [c \in Calls |-> 0]
  /\ taken = [r \in Removers |-> {}]
  /\ wait = [w \in Waiters |-> "idle"]
  /\ overtaken = FALSE

\* The calls that are in the maps, or were, and not yet in the count.
Uncounted == { c \in Calls : add[c] = "mapped" }

\* Get(callID), and what the readers of the count see.
Get(id) == callsBySIP[id]
Registered(id) == Get(id) # NoCall

----------------------------------------------------------------------------
(* Add                                                                      *)

\* Mutant: the second map is forgotten.
AddMapsBySIPOnly(c) ==
  /\ add[c] = "idle"
  /\ callsBySIP' = [callsBySIP EXCEPT ![SipID[c]] = c]
  /\ add' = [add EXCEPT ![c] = "mapped"]
  /\ UNCHANGED <<callsByUUID, countVars, emptyWaiters, closedChans, newCount, taken,
                 wait, overtaken>>

AddMaps(c) ==
  /\ add[c] = "idle"
  /\ callsBySIP' = [callsBySIP EXCEPT ![SipID[c]] = c]
  /\ callsByUUID' = callsByUUID \cup {c}
  /\ add' = [add EXCEPT ![c] = "mapped"]
  /\ UNCHANGED <<countVars, emptyWaiters, closedChans, newCount, taken, wait, overtaken>>

AddCount(c) ==
  /\ add[c] = "mapped"
  /\ activeCalls' = activeCalls + 1
  /\ totalCalls' = totalCalls + 1
  /\ newCount' = [newCount EXCEPT ![c] = activeCalls + 1]
  /\ add' = [add EXCEPT ![c] = "counted"]
  /\ UNCHANGED <<mapVars, gauge, emptyWaiters, closedChans, taken, wait, overtaken>>

AddGauge(c) ==
  /\ add[c] = "counted"
  /\ gauge' = newCount[c]
  /\ add' = [add EXCEPT ![c] = "done"]
  /\ UNCHANGED <<mapVars, activeCalls, totalCalls, emptyWaiters, closedChans, newCount,
                 taken, wait, overtaken>>

----------------------------------------------------------------------------
(* Remove                                                                   *)

\* Mutant: off by one.
NoneLeftOffByOne(count) == count = 1

\* if newCount == 0
NoneLeft(count) == count = 0

\* Mutant: the list is handed over and not emptied.
TakeWaitersKeepList(r) ==
  /\ taken' = [taken EXCEPT ![r] = emptyWaiters]
  /\ UNCHANGED emptyWaiters

\* waiters = m.emptyWaiters; m.emptyWaiters = nil
TakeWaiters(r) ==
  /\ taken' = [taken EXCEPT ![r] = emptyWaiters]
  /\ emptyWaiters' = {}

\* Mutant: the UUID entry stays.
UUIDEntryStays(id) == {}

\* delete(m.callsByUUID, call.ID.String())
UUIDEntry(id) == {Get(id)}

RemoveFound(r, id) ==
  /\ Registered(id)
  /\ callsBySIP' = [callsBySIP EXCEPT ![id] = NoCall]
  /\ callsByUUID' = callsByUUID \ UUIDEntry(id)
  /\ activeCalls' = activeCalls - 1
  /\ gauge' = activeCalls - 1
  /\ IF NoneLeft(activeCalls - 1)
     THEN TakeWaiters(r)
     ELSE UNCHANGED <<taken, emptyWaiters>>
  /\ overtaken' = (overtaken \/ add[Get(id)] = "mapped")
  /\ UNCHANGED <<totalCalls, closedChans, add, newCount, wait>>

RemoveMissing(r, id) ==
  /\ ~Registered(id)
  /\ UNCHANGED cmVars

\* The critical section of Remove.
Remove(r, id) ==
  /\ taken[r] = {}
  /\ RemoveFound(r, id) \/ RemoveMissing(r, id)

\* After the unlock: for _, w := range waiters { close(w) }
CloseTaken(r) ==
  /\ taken[r] # {}
  /\ closedChans' = closedChans \cup taken[r]
  /\ taken' = [taken EXCEPT ![r] = {}]
  /\ UNCHANGED <<mapVars, countVars, emptyWaiters, add, newCount, wait, overtaken>>

----------------------------------------------------------------------------
(* WaitEmpty                                                                *)

WaitGoes(w, from, to) ==
  /\ wait[w] = from
  /\ wait' = [wait EXCEPT ![w] = to]

\* The check before the mutex is taken.
WaitCheck(w) ==
  /\ WaitGoes(w, "idle", IF activeCalls = 0 THEN "nil" ELSE "checked")
  /\ UNCHANGED <<mapVars, countVars, emptyWaiters, closedChans, add, newCount, taken, overtaken>>

\* Mutant: the waiter registers without checking again under the mutex.
WaitRegisterUnchecked(w) ==
  /\ WaitGoes(w, "checked", "waiting")
  /\ emptyWaiters' = emptyWaiters \cup {w}
  /\ UNCHANGED <<mapVars, countVars, closedChans, add, newCount, taken, overtaken>>

\* The check under the mutex, and the registration of the channel.
WaitRegister(w) ==
  /\ IF activeCalls = 0
     THEN WaitGoes(w, "checked", "nil") /\ UNCHANGED emptyWaiters
     ELSE WaitGoes(w, "checked", "waiting") /\ emptyWaiters' = emptyWaiters \cup {w}
  /\ UNCHANGED <<mapVars, countVars, closedChans, add, newCount, taken, overtaken>>

\* select: the channel is closed.
WaitWoken(w) ==
  /\ w \in closedChans
  /\ WaitGoes(w, "waiting", "nil")
  /\ UNCHANGED <<mapVars, countVars, emptyWaiters, closedChans, add, newCount, taken, overtaken>>

\* select: the context is done.  The channel stays registered.
WaitCanceled(w) ==
  /\ WaitGoes(w, "waiting", "ctx")
  /\ UNCHANGED <<mapVars, countVars, emptyWaiters, closedChans, add, newCount, taken, overtaken>>

----------------------------------------------------------------------------
AddStep(c) == AddMaps(c) \/ AddCount(c) \/ AddGauge(c)
RemoveStep(r) == (\E id \in CallIDs : Remove(r, id)) \/ CloseTaken(r)
WaitStep(w) == WaitCheck(w) \/ WaitRegister(w) \/ WaitWoken(w)

CMNext ==
  \/ \E c \in Calls : AddStep(c)
  \/ \E r \in Removers : RemoveStep(r)
  \/ \E w \in Waiters : WaitStep(w) \/ WaitCanceled(w)

CMSpec == CMInit /\ [][CMNext]_cmVars

\* A goroutine that has entered Add, Remove or WaitEmpty goes on; a call that is
\* registered is in the end removed (callers hang up).  Contexts need not end.
CMFairness ==
  /\ \A c \in Calls : WF_cmVars(AddCount(c) \/ AddGauge(c))
  /\ \A r \in Removers : WF_cmVars(CloseTaken(r))
  /\ \A id \in CallIDs : WF_cmVars(\E r \in Removers : taken[r] = {} /\ RemoveFound(r, id))
  /\ \A w \in Waiters : WF_cmVars(WaitStep(w))

CMFairSpec == CMSpec /\ CMFairness

----------------------------------------------------------------------------
AddStates == {"idle", "mapped", "counted", "done"}
WaitStates == {"idle", "checked", "waiting", "nil", "ctx"}

\* Types; in particular only calls, never nil, are in the map by UUID.
CMTypeOK ==
  /\ callsBySIP \in [CallIDs -> Calls \cup {NoCall}]
  /\ callsByUUID \subseteq Calls
  /\ activeCalls \in Int
  /\ totalCalls \in Nat
  /\ gauge \in Int
  /\ emptyWaiters \subseteq Waiters
  /\ closedChans \subseteq Waiters
  /\ add \in [Calls -> AddStates]
  /\ newCount \in [Calls -> Int]
  /\ taken \in [Removers -> SUBSET Waiters]
  /\ wait \in [Waiters -> WaitStates]
  /\ overtaken \in BOOLEAN

\* The count is the number of calls in callsByUUID, less the Adds that have
\* stored their call and not counted it yet.  It is so under every
\* interleaving, with a Call-ID used twice too, and so the count is right
\* whenever no Add is half-way.
CountMatchesMaps ==
  activeCalls = Cardinality(callsByUUID) - Cardinality(Uncounted)

\* What Get returns under a Call-ID is a registered call with that Call-ID.
SIPEntryIsRegistered ==
  \A id \in CallIDs : Registered(id) =>
    SipID[Get(id)] = id /\ Get(id) \in callsByUUID

\* As long as no two calls use one Call-ID, each registered call is found by
\* its Call-ID: BYE, CANCEL and Remove reach it.
UniqueIDs == \A c, d \in Calls : SipID[c] = SipID[d] => c = d
EveryCallReachable ==
  UniqueIDs => \A c \in callsByUUID : Get(SipID[c]) = c

\* A channel that is registered has a Remove to come that takes it: the count
\* is positive, unless a Remove has once overtaken the second half of an Add.
WaitersHaveACallToWaitFor ==
  emptyWaiters # {} /\ ~overtaken => activeCalls > 0

\* Once registered, a waiter is woken, provided that the calls end and that no
\* Remove overtook an Add.
WaitersAreWoken ==
  \A w \in Waiters : wait[w] = "waiting" ~> wait[w] # "waiting" \/ overtaken

\* A goroutine is woken at most once and its channel is not closed twice
\* (close of a closed channel panics).
NoDoubleClose ==
  /\ \A r \in Removers : taken[r] \cap (closedChans \cup emptyWaiters) = {}
  /\ \A r, s \in Removers : r # s => taken[r] \cap taken[s] = {}
  /\ emptyWaiters \cap closedChans = {}
=============================================================================
