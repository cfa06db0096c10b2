-------------------------- MODULE MCStereoRecorder --------------------------
EXTENDS StereoRecorder

\* Decoded audio comes in whole samples, the agent's as it likes.
MCChunks == [c \in Channels |-> IF c = "left" THEN {2, 4} ELSE {1, 2}]
=============================================================================
