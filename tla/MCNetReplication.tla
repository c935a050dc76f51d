-------------------------- MODULE MCNetReplication --------------------------
(* Model-checking instances of NetReplication: the peer that sends         *)
(* entities has one update more, and the other reads up to two packets.    *)
EXTENDS NetReplication

OneMore  == [p \in Peers |-> IF p \in Owners THEN 4 ELSE 3]
OneOrTwo == [p \in Peers |-> IF p \in Owners THEN 1 ELSE 2]
=============================================================================
