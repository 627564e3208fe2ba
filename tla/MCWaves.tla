-------------------------------- MODULE MCWaves --------------------------------
EXTENDS Waves

CONSTANTS c1, c2, c3, s1, s2

\* A coordinator, its restart in the same session, and one of another session.
TwoSessions == [c \in Coords |-> IF c = c3 THEN s2 ELSE s1]
================================================================================
