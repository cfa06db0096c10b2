------------------------------ MODULE AudioQueue ------------------------------
(***************************************************************************)
(* What the RTP writer promises about the agent's audio, without its ring:   *)
(* a bounded queue of bytes numbered in the order they were accepted.  Bytes *)
(* lo..hi-1 are waiting.                                                     *)
(***************************************************************************)
EXTENDS Integers

CONSTANTS BytesPerTick, RingTicks, Zero

VARIABLES lo, hi, frame

Waiting == hi - lo

AQInit ==
  /\ lo = 0 /\ hi = 0
  /\ frame = [i \in 0..(BytesPerTick - 1) |-> Zero]

\* Some bytes are accepted, as many as there is room for.
Accept ==
  /\ hi' \in hi..(lo + BytesPerTick * RingTicks)
  /\ UNCHANGED <<lo, frame>>

\* A packet takes the oldest bytes, and silence for those that are missing.
Send ==
  /\ Waiting > 0
  /\ frame' = [i \in 0..(BytesPerTick - 1) |-> IF i < Waiting THEN lo + i ELSE Zero]
  /\ lo' = IF Waiting < BytesPerTick THEN hi ELSE lo + BytesPerTick
  /\ UNCHANGED hi

\* A packet's worth is discarded.
Discard ==
  /\ Waiting >= BytesPerTick
  /\ lo' = lo + BytesPerTick
  /\ UNCHANGED <<hi, frame>>

AQNext == Accept \/ Send \/ Discard

AQSpec == AQInit /\ [][AQNext]_<<lo, hi, frame>>
=============================================================================
