---------------------------- MODULE CallLifecycle ----------------------------
(***************************************************************************)
(* What an ActiveCall promises to the SIP service that created it: a call    *)
(* that is open closes once, and then OnFinished runs once, releasing the    *)
(* listener first and leaving the registry after it.  ActiveCall implements  *)
(* this for one call; SIPService relies on it for many.                      *)
(***************************************************************************)
CONSTANT Calls

VARIABLE life

LifeStates == {"none", "open", "closing", "released", "finished"}

LifeInit == life \in [Calls -> {"none", "open"}]

Moves(c, from, to) ==
  /\ life[c] = from
  /\ life' = [life EXCEPT ![c] = to]

\* NewActiveCall.
Open(c) == Moves(c, "none", "open")

\* EndCall or Shutdown, whichever comes first.
Close(c) == Moves(c, "open", "closing")

\* OnFinished: rtpManager.ReleaseListener, then callManager.Remove.
Release(c) == Moves(c, "closing", "released")
Finish(c) == Moves(c, "released", "finished")

LifeNext == \E c \in Calls : Open(c) \/ Close(c) \/ Release(c) \/ Finish(c)

LifeSpec == LifeInit /\ [][LifeNext]_life
=============================================================================
