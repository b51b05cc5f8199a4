---------------------------- MODULE MCP2PChannel ----------------------------
(* Small instances of P2PChannel: two connections, and their properties.    *)
EXTENDS P2PChannel, TLC

CONSTANTS p1, p2, a1, a2

\* Two addresses of one client, the second of them perhaps only learnt from its
\* binding requests.
SameUser == [a \in Candidates |-> "user"]

\* Both ports on one network, where the better connection prunes the other.
OneNetwork == [p \in Ports |-> "wifi"]

\* The first port or the first address is preferred.
FirstPreferred == [c \in Conns |-> IF c[1] = p2 \/ c[2] = a2 THEN 1 ELSE 2]
=============================================================================
