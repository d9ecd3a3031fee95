------------------------------- MODULE MCDelay -------------------------------
(* Small instances of Delay. *)
EXTENDS Delay

(* Delayables are alike, and so are chains and groups. *)
Symmetry == Permutations(Leaf) \cup Permutations(Box)

(* What happens after the commit, and what is said of it, depends on the   *)
(* rows and no more on the program's objects.                              *)
Lasting ==
  IF phase = "committed"
  THEN <<phase, row, twin, raced, workVars, wanted, plain, alone>>
  ELSE vars

(* A program that delays its objects in one call at the end, none of which *)
(* has an identity key.                                                    *)
OneDelay ==
  /\ \A l \in prepared : identity[l] = NoKey
  /\ phase = "building" /\ calls < MaxCalls => row = <<>>
=============================================================================
