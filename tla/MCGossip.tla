------------------------------ MODULE MCGossip ------------------------------
(***************************************************************************)
(* Two networks of four nodes.                                             *)
(***************************************************************************)
EXTENDS Gossip

Both(pairs) == pairs \cup {<<p[2], p[1]>> : p \in pairs}
Itself == {<<t, t>> : t \in Tx}

MCOrigin == [t \in Tx |-> CASE t = "t1" -> "a" [] t = "t2" -> "c" [] t = "t3" -> "b"]

(* A node in the middle with three neighbours, and all agree. *)
Star ==
    [link |-> Both({<<"a", "b">>, <<"b", "c">>, <<"b", "d">>}),
     valid |-> [n \in Node |-> Tx],
     conflicts |-> Itself]

(* A triangle with a node beside it; c has not connected the block that t1
   needs, nor d the one for t3, and t2 and t3 spend the same output. *)
Kite ==
    [link |-> Star.link \cup Both({<<"c", "d">>}),
     valid |-> [n \in Node |-> Tx \ (CASE n = "c" -> {"t1"} [] n = "d" -> {"t3"} [] OTHER -> {})],
     conflicts |-> Itself \cup Both({<<"t2", "t3">>})]

MCNetwork == {Star, Kite}
=============================================================================
