----------------------------- MODULE MCJobSetup -----------------------------
(* A small instance of JobSetup. *)
EXTENDS JobSetup

Labels == {"root", "a"}

(* Names one below the other, one beside them with the name of root, and   *)
(* one of a channel that is below itself.                                   *)
SomeNames ==
  {<<"root">>, <<"root", "a">>, <<"root", "a", "a">>, <<"root", "root">>,
   <<"root", "root", "a">>, <<"root", "a", "a", "a">>}

OneOrTwo == {1, 2}
=============================================================================
