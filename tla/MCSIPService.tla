---------------------------- MODULE MCSIPService ----------------------------
(* SIPService with INVITEs for different calls.                                *)
EXTENDS SIPService, TLC

\* A Call-ID of its own for each call, named like the call.
OwnIDs == [i \in Invites |-> i]

\* The INVITEs are alike.
InviteSymmetry == Permutations(Invites)

\* Another process has at most the lower port.
ForeignLow == foreign \subseteq {PortMin}

\* No other process has a port of the range.
NoForeign == foreign = {}

\* For the liveness run only: callers take turns, and a request for a call comes when
\* its INVITE was answered.  This restricts steps without fairness only.
Busy == { i \in Invites : inv[i] \notin {"idle", "answered", "failed", "rejected", "ignored"} }
CallersTakeTurns ==
  /\ \A i, j \in Busy' : i = j
  /\ \A h \in Handlers : hnd'[h] # NoCall => inv[hnd'[h]] = "answered"

MCLiveSpec == SvcInit /\ [][SvcNext /\ CallersTakeTurns]_svcVars /\ SvcFairness

\* newCount, gauge and totalCalls are written and never read here, nor is the address of
\* a socket that is closed.
ServiceView ==
  <<callsBySIP, callsByUUID, activeCalls, emptyWaiters, closedChans, add, taken, wait,
    overtaken, ports, nextPort, [i \in Invites \ closed |-> conn[i]], foreign, twice,
    life, sip, app, crowded>>
=============================================================================
