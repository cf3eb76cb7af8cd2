---------------------------- MODULE MCRequestPath ----------------------------
(***************************************************************************)
(* RequestPath for TLC.                                                    *)
(***************************************************************************)
EXTENDS RequestPath

CONSTANTS c1, c2, c3, p, q

MCCallers == {c1, c2, c3}

MCPeer == [c \in MCCallers |-> IF c = c3 THEN q ELSE p]
=============================================================================
