---------------------------- MODULE MCRTPManager ----------------------------
(* RTPManager on a range whose ends are both odd, so that both are rounded,    *)
(* with a history variable that shows in which order the ports are reused.     *)
EXTENDS RTPManager, TLC

\* history: spare[p] are the ports that could have been handed out ever since p was
\* last handed out, and were not.
VARIABLE spare

\* The step hands p out.
HandsOut(p) == p \notin OpenPorts /\ p \in OpenPorts'

SpareNext ==
  spare' = [p \in EvenPorts |->
              { q \in (IF HandsOut(p) THEN EvenPorts \ {p} ELSE spare[p]) :
                  Usable(q)' /\ ~HandsOut(q) }]

MCRTPInit == RTPInit /\ spare = [p \in EvenPorts |-> {}]

MCRTPSpec == MCRTPInit /\ [][RTPNext /\ SpareNext]_<<rtpVars, spare>>

\* CreateListener comes back to a port only when every other port that was usable all
\* the while has had its turn.  The reader takes packets from any sender, so what a
\* peer still sends to a call that ended would be media to the next call on its port:
\* a port that was just released must not be the next one handed out while others
\* are free.
ReusedLast == [][\A p \in EvenPorts : HandsOut(p) => spare[p] = {}]_<<rtpVars, spare>>

\* The owners are interchangeable.
OwnerSymmetry == Permutations(Owners)
=============================================================================
