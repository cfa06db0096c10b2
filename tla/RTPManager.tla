----------------------------- MODULE RTPManager -----------------------------
(***************************************************************************)
(* The RTP port allocator (internal/rtp/rtp_manager.go).                    *)
(*                                                                         *)
(* CreateListener and ReleaseListener each run entirely under m.mu, so      *)
(* each is one action.  The operating system is part of the model: a bind   *)
(* fails on a port that another socket of this process, or of another       *)
(* process (foreign), still holds.                                          *)
(***************************************************************************)
EXTENDS Integers

CONSTANTS PortMin, PortMax, \* the configured range, both ends included
          Owners            \* the call set-ups that ask for a listener

\* NewRTPManager's validation; both ends are uint16.
ASSUME PortRange ==
  /\ PortMin \in Nat /\ PortMax \in Nat
  /\ 1024 <= PortMin /\ PortMin < PortMax /\ PortMax <= 65535

VARIABLES ports,    \* m.ports: the ports marked in use
          nextPort, \* m.nextPort: where the next search starts
          conn,     \* conn[o]: the port of o's socket, NoPort without one
          closed,   \* the owners whose socket is closed; it still has its address
          foreign,  \* the ports other processes have bound
          twice     \* history: a socket was released twice

rtpVars == <<ports, nextPort, conn, closed, foreign, twice>>

NoPort == 0

\* Mutant: the lower end is not rounded up to an even port.
FirstEvenUnrounded == PortMin

FirstEven == PortMin + (PortMin % 2)
LastEven == PortMax - (PortMax % 2)
NumEvenPorts == ((LastEven - FirstEven) \div 2) + 1

\* The i-th even port of the range, counted from 0.
PortAt(i) == FirstEven + 2 * i

\* What the range offers, by definition.
EvenPorts == { p \in PortMin..PortMax : p % 2 = 0 }

Holds(o) == conn[o] # NoPort /\ o \notin closed

OpenPorts == { conn[o] : o \in { q \in Owners : Holds(q) } }

\* net.ListenPacket succeeds on p.
CanBind(p) == p \notin OpenPorts /\ p \notin foreign

RTPInit ==
  /\ ports = {}
  /\ nextPort = FirstEven
  /\ conn = [o \in Owners |-> NoPort]
  /\ closed = {}
  /\ foreign \in SUBSET EvenPorts
  /\ twice = FALSE

----------------------------------------------------------------------------
\* The index the search starts at, after the cursor is brought into range.
StartOffset ==
  IF nextPort < FirstEven \/ nextPort > LastEven
  THEN 0
  ELSE (nextPort - FirstEven) \div 2

\* Mutant: the search runs off the end of the range instead of wrapping.
VisitedWithoutWrap(i) ==
  IF StartOffset + i < NumEvenPorts THEN StartOffset + i ELSE StartOffset

\* The index the search visits at its i-th turn.
Visited(i) == (StartOffset + i) % NumEvenPorts

\* The turns of the search, at each of which a port may be skipped.
Turns == 0..(NumEvenPorts - 1)

Usable(p) == p \notin ports /\ CanBind(p)

\* The search stops at the first usable port.
FoundAt(i) ==
  /\ Usable(PortAt(Visited(i)))
  /\ \A j \in Turns : j < i => ~Usable(PortAt(Visited(j)))

\* Mutant: the cursor stays at the port that was handed out.
CursorAfterSame(i) == Visited(i)

\* The index the next search starts at.
CursorAfter(i) == (Visited(i) + 1) % NumEvenPorts

CreateListener(o) ==
  /\ ~Holds(o)
  /\ \E i \in Turns :
       /\ FoundAt(i)
       /\ conn' = [conn EXCEPT ![o] = PortAt(Visited(i))]
       /\ ports' = ports \cup {PortAt(Visited(i))}
       /\ nextPort' = PortAt(CursorAfter(i))
  /\ closed' = closed \ {o}
  /\ UNCHANGED <<foreign, twice>>

\* The search visited its last port and found none.
Exhausted == \A i \in Turns : ~Usable(PortAt(Visited(i)))

\* "no available RTP ports".  The cursor was brought into range all the same.
CreateListenerFails(o) ==
  /\ ~Holds(o)
  /\ Exhausted
  /\ nextPort' = PortAt(StartOffset)
  /\ UNCHANGED <<ports, conn, closed, foreign, twice>>

Closes(o) ==
  /\ conn[o] # NoPort
  /\ closed' = closed \cup {o}
  /\ twice' = (twice \/ o \in closed)
  /\ UNCHANGED <<nextPort, conn, foreign>>

\* Mutant: the socket is closed and its mark stays.
ReleaseForgetsTheMark(o) == Closes(o) /\ UNCHANGED ports

\* conn.Close and delete(m.ports, port), under the lock.  A socket that is closed
\* already still has its address: Close fails, which is only logged, and the mark goes
\* all the same, whoever holds the port by now.
ReleaseListener(o) == Closes(o) /\ ports' = ports \ {conn[o]}

\* Another process binds or frees a port of the range.
ForeignBinds ==
  /\ \E p \in EvenPorts \ OpenPorts :
       foreign' = IF p \in foreign THEN foreign \ {p} ELSE foreign \cup {p}
  /\ UNCHANGED <<ports, nextPort, conn, closed, twice>>

RTPNext ==
  \/ \E o \in Owners :
       \/ CreateListener(o)
       \/ CreateListenerFails(o)
       \/ ReleaseListener(o)
  \/ ForeignBinds

RTPSpec == RTPInit /\ [][RTPNext]_rtpVars

----------------------------------------------------------------------------
\* Types; every marked or open port, and the cursor, is an even port of the range.
RTPTypeOK ==
  /\ ports \subseteq EvenPorts
  /\ nextPort \in EvenPorts
  /\ conn \in [Owners -> EvenPorts \cup {NoPort}]
  /\ closed \subseteq Owners
  /\ foreign \subseteq EvenPorts
  /\ twice \in BOOLEAN

\* The in-use marks are exactly the open sockets.  ReleaseListener never leaves the
\* mark of a closed one (the range would shrink for good), whatever it is called on,
\* and an open socket lacks its mark only if some socket was released twice.
MarksAreOpenSockets ==
  /\ ports \subseteq OpenPorts
  /\ ~twice => OpenPorts \subseteq ports

\* CreateListener reports exhaustion only when every even port of the range
\* really is taken, by a call or by another process: the round-robin search
\* skips none of them, wherever its cursor stands and whatever marks are missing.
NoFalseExhaustion ==
  Exhausted => EvenPorts \subseteq (OpenPorts \cup foreign)
=============================================================================
