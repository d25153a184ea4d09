------------------------------ MODULE MCAccess ------------------------------
(* Instance: two connections and one permit for each way that has permits.     *)
EXTENDS Access

CONSTANTS p1, p2
MCPeer == {p1, p2}
MCWaysOf == [p \in MCPeer |-> IF p = p1 THEN {"tcp", "ssh"} ELSE {"tcp", "quic", "wt"}]
=============================================================================
