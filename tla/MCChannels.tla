----------------------------- MODULE MCChannels -----------------------------
(***************************************************************************)
(* Small instances of Channels.                                            *)
(***************************************************************************)
EXTENDS Channels, TLC

CONSTANTS root, a, b, j1, j2, j3

(* Two channels that flow into the root.                                   *)
TwoChildren == (a :> root) @@ (b :> root)

PathsOfTwoChildren ==
  (root :> {root}) @@ (a :> {a, root}) @@ (b :> {b, root})

ChildrenFirst == <<a, b, root>>

(* A channel that flows into another one, which flows into the root.       *)
ThreeLevels == (b :> a) @@ (a :> root)

PathsOfThreeLevels ==
  (root :> {root}) @@ (a :> {a, root}) @@ (b :> {b, a, root})

DeepestFirst == <<b, a, root>>

TwoOfA == (j1 :> a) @@ (j2 :> a) @@ (j3 :> b)

OneEach == (j1 :> root) @@ (j2 :> a) @@ (j3 :> b)

InOrder == [j \in Job |-> IF j = j1 THEN 1 ELSE IF j = j2 THEN 2 ELSE 3]

OneAtATime == (a :> 1) @@ (b :> 1) @@ (root :> 1)

AllButB == [c \in Channel |-> IF c = b THEN 0 ELSE 1]

NoThrottle == [c \in Channel |-> 0]

ThrottledB == [c \in Channel |-> IF c = b THEN 2 ELSE 0]

(* What workers do, of a job that was requeued meanwhile as well, and a job *)
(* that is requeued when it has failed.                                     *)
Failures ==
  {<<"enqueued", "started">>, <<"started", "done">>, <<"started", "pending">>,
   <<"started", "failed">>, <<"pending", "failed">>, <<"failed", "pending">>}

(* What users do to jobs in any state, and the dead jobs.                  *)
Everything ==
  {<<s, t>> \in States \X {"pending", "wait_dependencies", "done", "cancelled"} : s # t}
    \cup Failures \cup {<<"enqueued", "failed">>}
=============================================================================
