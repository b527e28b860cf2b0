--------------------------- MODULE MCOAuthRefresh ---------------------------
(* OAuthRefresh on a small instance: two calls of one process and one of    *)
(* another.                                                                 *)
EXTENDS OAuthRefresh, TLC

CONSTANTS a1, a2, b1, p, q

MCSymmetry == Permutations(Grants)
MCProcOf == [a \in Calls |-> IF a = b1 THEN q ELSE p]

=============================================================================
