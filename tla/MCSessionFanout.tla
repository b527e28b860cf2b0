-------------------------- MODULE MCSessionFanout ---------------------------
(* SessionFanout on a small instance: two sessions, a talkative one and     *)
(* one whose start may evict it, and two connections.                       *)
EXTENDS SessionFanout

CONSTANTS s1, s2, a, b

MCIdOf == [s \in Sessions |-> IF s = s1 THEN a ELSE b]
MCMaxLines == [s \in Sessions |-> IF s = s1 THEN 4 ELSE 0]

=============================================================================
