--------------------------- MODULE MCChannelNames ---------------------------
(* A small instance of ChannelNames. *)
EXTENDS ChannelNames

Labels == {"a", "b", "c"}

(* Names one below the other, names beside them, and one that has a label  *)
(* twice.                                                                  *)
Names == {<<>>, <<"a">>, <<"c">>, <<"a", "b">>, <<"a", "c">>, <<"a", "b", "c">>, <<"a", "a">>}

OneToTwoNames == {names \in SUBSET Names : Cardinality(names) \in 1..2}

Two == {2}
=============================================================================
