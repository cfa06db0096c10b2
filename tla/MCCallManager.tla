---------------------------- MODULE MCCallManager ----------------------------
(* CallManager with three calls, each under a Call-ID of its own.              *)
EXTENDS CallManager

CONSTANTS c1, c2, c3, a, b, d

DistinctIDs == [c \in Calls |-> CASE c = c1 -> a [] c = c2 -> b [] c = c3 -> d]
=============================================================================
