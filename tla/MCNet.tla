------------------------------- MODULE MCNet -------------------------------
(* Every outgoing connection to one address, every incoming one from another. *)
EXTENDS Net

MCAddr == [c \in Conn |-> IF c \in Outgoing THEN "there" ELSE "from"]
MCTogether == {{"c1", "c2"}, {"c1", "i1"}, {"i1", "i2"}}
=============================================================================
