----------------------------- MODULE DelaySafety -----------------------------
(***************************************************************************)
(* The safety of delayed jobs and graphs, for every number of delayables,  *)
(* chains and groups, however they are nested and connected.               *)
(***************************************************************************)
EXTENDS Delay, FiniteSetTheorems, WellFoundedInduction, TLAPS

-----------------------------------------------------------------------------
(* Reachability.                                                            *)

(* What is reached from n has n, is closed, ...                             *)
LEMMA ReachableClosed ==
  ASSUME NEW D, NEW next \in [D -> SUBSET D], NEW n \in D
  PROVE  /\ Reachable(next, n) \in SUBSET D
         /\ n \in Reachable(next, n)
         /\ \A v \in Reachable(next, n) : next[v] \subseteq Reachable(next, n)
BY DEF Reachable

(* ... and is the least set that is.                                        *)
LEMMA ReachableLeast ==
  ASSUME NEW D, NEW next \in [D -> SUBSET D], NEW n \in D,
         NEW S \in SUBSET D, n \in S, \A v \in S : next[v] \subseteq S
  PROVE  Reachable(next, n) \subseteq S
BY DEF Reachable

(* It is n and what is reached from its successors.                         *)
LEMMA ReachableUnfold ==
  ASSUME NEW D, NEW next \in [D -> SUBSET D], NEW n \in D
  PROVE  Reachable(next, n) = {n} \cup UNION {Reachable(next, v) : v \in next[n]}
<1> DEFINE R == Reachable(next, n)
           U == {n} \cup UNION {Reachable(next, v) : v \in next[n]}
<1>1. \A v \in next[n] : Reachable(next, v) \subseteq R
  <2> SUFFICES ASSUME NEW v \in next[n] PROVE Reachable(next, v) \subseteq R
    OBVIOUS
  <2>1. R \in SUBSET D /\ n \in R /\ \A w \in R : next[w] \subseteq R
    BY ReachableClosed
  <2>2. v \in R /\ v \in D
    BY <2>1
  <2> QED
    BY <2>1, <2>2, ReachableLeast
<1>2. n \in R
  BY ReachableClosed
<1>3. U \in SUBSET D /\ n \in U
  BY ReachableClosed
<1>4. \A w \in U : next[w] \subseteq U
  <2> SUFFICES ASSUME NEW w \in U PROVE next[w] \subseteq U
    OBVIOUS
  <2>1. CASE w = n
    <3>1. \A v \in next[n] : v \in D /\ v \in Reachable(next, v)
      BY ReachableClosed
    <3> QED
      BY <2>1, <3>1
  <2>2. CASE \E v \in next[n] : w \in Reachable(next, v)
    <3>1. PICK v \in next[n] : w \in Reachable(next, v)
      BY <2>2
    <3>2. next[w] \subseteq Reachable(next, v)
      BY <3>1, ReachableClosed
    <3> QED
      BY <3>2
  <2> QED
    BY <2>1, <2>2
<1>5. R \subseteq U
  <2> HIDE DEF U
  <2> QED
    BY <1>3, <1>4, ReachableLeast
<1> QED
  BY <1>1, <1>2, <1>5

(* It does not depend on the successors of what is elsewhere.               *)
LEMMA ReachableSame ==
  ASSUME NEW D, NEW f \in [D -> SUBSET D], NEW g \in [D -> SUBSET D], NEW C \in SUBSET D,
         \A v \in C : f[v] = g[v] /\ f[v] \subseteq C, NEW n \in C
  PROVE  Reachable(f, n) = Reachable(g, n)
<1>1. Reachable(f, n) \subseteq C /\ Reachable(g, n) \subseteq C
  BY ReachableLeast
<1>2. Reachable(g, n) \subseteq Reachable(f, n)
  <2>1. /\ Reachable(f, n) \in SUBSET D /\ n \in Reachable(f, n)
        /\ \A v \in Reachable(f, n) : f[v] \subseteq Reachable(f, n)
    BY ReachableClosed
  <2>2. \A v \in Reachable(f, n) : g[v] \subseteq Reachable(f, n)
    BY <1>1, <2>1
  <2> QED
    BY <2>1, <2>2, ReachableLeast
<1>3. Reachable(f, n) \subseteq Reachable(g, n)
  <2>1. /\ Reachable(g, n) \in SUBSET D /\ n \in Reachable(g, n)
        /\ \A v \in Reachable(g, n) : g[v] \subseteq Reachable(g, n)
    BY ReachableClosed
  <2>2. \A v \in Reachable(g, n) : f[v] \subseteq Reachable(g, n)
    BY <1>1, <2>1
  <2> QED
    BY <2>1, <2>2, ReachableLeast
<1> QED
  BY <1>2, <1>3

-----------------------------------------------------------------------------
(* Orders of jobs.                                                          *)

Relations == SUBSET (Leaf \X Leaf)

IsTransitive(R) ==
  \A a, b, c \in Leaf : <<a, b>> \in R /\ <<b, c>> \in R => <<a, c>> \in R

(* The closure of a relation is a transitive relation it is within, ...     *)
LEMMA ClosureContains ==
  ASSUME NEW R \in Relations
  PROVE  Closure(R) \in Relations /\ R \subseteq Closure(R) /\ IsTransitive(Closure(R))
<1>1. Closure(R) \in Relations
  BY DEF Closure, Relations
<1>2. R \subseteq Closure(R)
  BY DEF Closure, Relations
<1>3. IsTransitive(Closure(R))
  <2> SUFFICES ASSUME NEW a \in Leaf, NEW b \in Leaf, NEW c \in Leaf,
                      <<a, b>> \in Closure(R), <<b, c>> \in Closure(R)
               PROVE  <<a, c>> \in Closure(R)
    BY DEF IsTransitive
  <2> SUFFICES ASSUME NEW S \in SUBSET Leaf,
                      \A r \in R : r[1] \in S \cup {a} => r[2] \in S
               PROVE  c \in S
    BY DEF Closure
  <2>1. b \in S
    BY DEF Closure
  <2>2. \A r \in R : r[1] \in S \cup {b} => r[2] \in S
    BY <2>1
  <2> QED
    BY <2>2 DEF Closure
<1> QED
  BY <1>1, <1>2, <1>3

(* ... and the least one.                                                   *)
LEMMA ClosureLeast ==
  ASSUME NEW R \in Relations, NEW T, IsTransitive(T), R \subseteq T
  PROVE  Closure(R) \subseteq T
<1> SUFFICES ASSUME NEW a \in Leaf, NEW b \in Leaf, <<a, b>> \in Closure(R)
             PROVE  <<a, b>> \in T
  BY DEF Closure
<1> DEFINE S == {y \in Leaf : <<a, y>> \in T}
<1>1. \A r \in R : r[1] \in S \cup {a} => r[2] \in S
  <2> SUFFICES ASSUME NEW r \in R, r[1] \in S \cup {a} PROVE r[2] \in S
    OBVIOUS
  <2>1. r[1] \in Leaf /\ r[2] \in Leaf /\ r = <<r[1], r[2]>> /\ r \in T
    BY DEF Relations
  <2>2. <<a, r[2]>> \in T
    BY <2>1 DEF IsTransitive
  <2> QED
    BY <2>1, <2>2
<1>2. b \in S
  BY <1>1 DEF Closure
<1> QED
  BY <1>2

(* Wider relations have wider closures.                                     *)
LEMMA ClosureMonotone ==
  ASSUME NEW R \in Relations, NEW Q \in Relations, R \subseteq Closure(Q)
  PROVE  Closure(R) \subseteq Closure(Q)
BY ClosureContains, ClosureLeast

LEMMA ClosureSame ==
  ASSUME NEW R \in Relations, NEW Q \in Relations, R \subseteq Closure(Q), Q \subseteq Closure(R)
  PROVE  Closure(R) = Closure(Q)
BY ClosureMonotone

(* Relations are closed together as they are closed one by one.             *)
LEMMA ClosureUnion ==
  ASSUME NEW R \in Relations, NEW Q \in Relations
  PROVE  Closure(Closure(R) \cup Closure(Q)) = Closure(R \cup Q)
<1>1. R \cup Q \in Relations /\ Closure(R) \cup Closure(Q) \in Relations
  BY ClosureContains DEF Relations
<1>2. R \subseteq Closure(R) /\ Q \subseteq Closure(Q)
  BY ClosureContains
<1>3. Closure(R) \cup Closure(Q) \subseteq Closure(Closure(R) \cup Closure(Q))
  BY <1>1, ClosureContains
<1>4. R \cup Q \subseteq Closure(R \cup Q)
  BY <1>1, ClosureContains
<1>5. Closure(R) \subseteq Closure(R \cup Q) /\ Closure(Q) \subseteq Closure(R \cup Q)
  BY <1>1, <1>4, ClosureMonotone
<1>6. R \cup Q \subseteq Closure(Closure(R) \cup Closure(Q))
  BY <1>2, <1>3
<1>7. Closure(R) \cup Closure(Q) \subseteq Closure(R \cup Q)
  BY <1>5
<1> QED
  BY <1>1, <1>6, <1>7, ClosureSame

-----------------------------------------------------------------------------
(* The objects of the program.                                              *)

(* Where on_done attaches an edge, what the graph of an object begins with, *)
(* the edges within a chain, and what was connected to an object.           *)
Feet(n) ==
  IF n \in Leaf THEN {n}
  ELSE IF kind[n] = "chain" THEN {Last(members[n])} ELSE Range(members[n])

Own(n) == IF n \in Leaf THEN {n} \cap prepared ELSE Range(members[n])

Steps(n) ==
  IF n \in Leaf THEN {} ELSE IF kind[n] = "chain" THEN Consecutive(members[n]) ELSE {}

After(n) == {w \in Node : <<n, w>> \in connected}

(* The graph of an object, by what the program has built and connected.    *)
GraphOf(n) ==
  [v \in Own(n) \cup {w \in After(n) : Feet(n) # {}} |->
     {w \in Node : <<v, w>> \in Steps(n) \/ (v \in Feet(n) /\ w \in After(n))}]

Below == [m \in Node |-> IF m \in Leaf THEN {} ELSE Range(members[m])]

ObjectsTypeOK ==
  /\ prepared \in SUBSET Leaf
  /\ kind \in [Box -> {"none", "chain", "group"}]
  /\ members \in [Box -> Seq(Node)]
  /\ connected \in SUBSET (Created \X Created)
  /\ calls \in Nat

MembersInv ==
  \A b \in Box : /\ Range(members[b]) \subseteq Created
                 /\ kind[b] = "chain" => members[b] # <<>>
                 /\ kind[b] = "none" => members[b] = <<>>

GraphInv == graph = [n \in Node |-> GraphOf(n)]

(* No object is inside itself: members are there before their box.          *)
IsRank(rank) == \A b \in Box : \A m \in Range(members[b]) : rank[m] < rank[b]

Ranked == \E rank \in [Node -> 0..calls] : IsRank(rank)

Objects == ObjectsTypeOK /\ MembersInv /\ GraphInv /\ Ranked

(* The elements of a sequence.                                              *)
LEMMA SeqElements ==
  ASSUME NEW S, NEW s \in Seq(S)
  PROVE  DOMAIN s = 1..Len(s) /\ \A i \in 1..Len(s) : s[i] \in S
OBVIOUS

LEMMA InRange ==
  ASSUME NEW S, NEW s \in Seq(S)
  PROVE  \A x : x \in Range(s) <=> \E i \in 1..Len(s) : x = s[i]
<1>1. \A x : x \in Range(s) <=> \E i \in DOMAIN s : x = s[i]
  BY Zenon DEF Range
<1>2. DOMAIN s = 1..Len(s)
  OBVIOUS
<1> QED
  BY <1>1, <1>2, Zenon

LEMMA RangeType ==
  ASSUME NEW S, NEW s \in Seq(S)
  PROVE  Range(s) \in SUBSET S
BY SeqElements, InRange

LEMMA EndsOfSeq ==
  ASSUME NEW S, NEW s \in Seq(S), s # <<>>
  PROVE  /\ Head(s) \in Range(s) /\ Head(s) = s[1]
         /\ Last(s) \in Range(s) /\ Last(s) = s[Len(s)]
         /\ Len(s) \in Nat \ {0}
<1>1. Len(s) \in Nat \ {0}
  OBVIOUS
<1>2. Head(s) = s[1]
  OBVIOUS
<1>3. s[1] \in Range(s) /\ s[Len(s)] \in Range(s)
  BY <1>1, InRange
<1> QED
  BY <1>1, <1>2, <1>3 DEF Last

LEMMA RangeOfEmpty == Range(<<>>) = {}
<1>1. <<>> \in Seq({}) /\ 1..Len(<<>>) = {}
  OBVIOUS
<1> QED
  BY <1>1, InRange

LEMMA BelowType ==
  ASSUME ObjectsTypeOK
  PROVE  Below \in [Node -> SUBSET Node]
<1>1. \A b \in Box : Range(members[b]) \in SUBSET Node
  BY RangeType DEF ObjectsTypeOK
<1> QED
  BY <1>1 DEF Below, Node

(* A set of naturals that is not empty has a least element.                *)
LessThan == {m \in Nat \X Nat : m[1] < m[2]}

LEMMA LeastNatural ==
  ASSUME NEW S \in SUBSET Nat, S # {}
  PROVE  \E x \in S : \A y \in S : x <= y
<1>1. IsWellFoundedOn(LessThan, Nat)
  BY NatLessThanWellFounded, Zenon DEF OpToRel, LessThan
<1>2. \E x \in S : \A y \in S : <<y, x>> \notin LessThan
  BY <1>1, WFMin
<1>3. \A x, y \in Nat : <<y, x>> \notin LessThan => x <= y
  <2> SUFFICES ASSUME NEW x \in Nat, NEW y \in Nat, y < x
               PROVE  <<y, x>> \in LessThan
    OBVIOUS
  <2>1. <<y, x>>[1] = y /\ <<y, x>>[2] = x
    OBVIOUS
  <2> QED
    BY <2>1, Zenon DEF LessThan
<1> QED
  BY <1>2, <1>3

(* What holds of an object if it holds of its members holds of all.         *)
LEMMA MembersFirst ==
  ASSUME ObjectsTypeOK, Ranked, NEW P \in SUBSET Node,
         \A n \in Node : Below[n] \subseteq P => n \in P
  PROVE  P = Node
<1>1. PICK rank \in [Node -> 0..calls] : IsRank(rank)
  BY DEF Ranked
<1> DEFINE Ranks == {rank[n] : n \in Node \ P}
<1> SUFFICES ASSUME Node \ P # {} PROVE FALSE
  OBVIOUS
<1>2. Ranks \in SUBSET Nat /\ Ranks # {}
  BY DEF ObjectsTypeOK
<1>3. PICK x \in Ranks : \A y \in Ranks : x <= y
  <2> HIDE DEF Ranks
  <2> QED
    BY <1>2, LeastNatural
<1>4. PICK n \in Node \ P : x = rank[n]
  BY <1>3
<1>5. \A m \in Below[n] : m \in Node /\ rank[m] < rank[n]
  BY BelowType, <1>1 DEF Below, IsRank, Node
<1>6. \A m \in Below[n] : m \in P
  <2> SUFFICES ASSUME NEW m \in Below[n], m \notin P PROVE FALSE
    OBVIOUS
  <2>1. m \in Node /\ rank[m] < rank[n]
    BY <1>5
  <2>2. rank[m] \in Ranks
    BY <2>1
  <2>3. rank[m] \in Nat /\ rank[n] \in Nat
    BY <1>4, <2>1 DEF ObjectsTypeOK
  <2>4. rank[n] <= rank[m]
    BY <2>2, <1>3, <1>4
  <2> QED
    BY <2>1, <2>3, <2>4
<1> QED
  BY <1>4, <1>6

(* The graph of an object that nothing was connected to.                    *)
LEMMA NewGraph ==
  ASSUME NEW b \in Box, NEW s \in Seq(Node), NEW k \in {"chain", "group"}
  PROVE  (IF k = "chain" THEN ChainGraph(s) ELSE GroupGraph(s))
           = [v \in Range(s) |->
                {w \in Node : <<v, w>> \in (IF k = "chain" THEN Consecutive(s) ELSE {})}]
<1>1. CASE k = "group"
  BY <1>1 DEF GroupGraph
<1>2. CASE k = "chain"
  <2>1. ASSUME NEW v
        PROVE  {s[i + 1] : i \in {j \in 1..(Len(s) - 1) : s[j] = v}}
                 = {w \in Node : <<v, w>> \in Consecutive(s)}
    <3>1. \A i \in 1..(Len(s) - 1) : i + 1 \in 1..Len(s)
      OBVIOUS
    <3>2. \A i \in 1..(Len(s) - 1) : s[i + 1] \in Node
      BY <3>1, SeqElements
    <3>3. \A w : <<v, w>> \in Consecutive(s)
                   <=> \E i \in 1..(Len(s) - 1) : s[i] = v /\ s[i + 1] = w
      BY Zenon DEF Consecutive
    <3>4. \A w : w \in {s[i + 1] : i \in {j \in 1..(Len(s) - 1) : s[j] = v}}
                   <=> \E i \in 1..(Len(s) - 1) : s[i] = v /\ s[i + 1] = w
      BY Zenon
    <3> QED
      BY <3>2, <3>3, <3>4, Zenon
  <2> QED
    BY <1>2, <2>1, Zenon DEF ChainGraph
<1> QED
  BY <1>1, <1>2

(* A new chain or group b, of the members s, with new delayables F.         *)
Adds(b, k, s, F) ==
  /\ kind[b] = "none" /\ k \in {"chain", "group"}
  /\ F \in SUBSET (Leaf \ prepared)
  /\ s \in Seq(Node) /\ Range(s) \subseteq Created \cup F
  /\ k = "chain" => s # <<>>
  /\ prepared' = prepared \cup F
  /\ kind' = [kind EXCEPT ![b] = k]
  /\ members' = [members EXCEPT ![b] = s]
  /\ graph' = [n \in Node |->
                 IF n \in F THEN AddVertex(<<>>, n)
                 ELSE IF n # b THEN graph[n]
                 ELSE IF k = "chain" THEN ChainGraph(s) ELSE GroupGraph(s)]
  /\ UNCHANGED connected
  /\ calls' = calls + 1

LEMMA AddsCreated ==
  ASSUME ObjectsTypeOK, NEW b \in Box, NEW k, NEW s, NEW F, Adds(b, k, s, F)
  PROVE  Created' = Created \cup F \cup {b} /\ b \notin Created
<1>1. b \notin Leaf
  BY DelayablesAssumption
<1>2. \A c \in Box : kind'[c] # "none" <=> kind[c] # "none" \/ c = b
  BY DEF Adds, ObjectsTypeOK
<1>3. b \notin Created
  BY <1>1 DEF Adds, Created, ObjectsTypeOK
<1> QED
  BY <1>2, <1>3 DEF Adds, Created

LEMMA AddsKeepsTypes ==
  ASSUME Objects, NEW b \in Box, NEW k, NEW s, NEW F, Adds(b, k, s, F)
  PROVE  ObjectsTypeOK' /\ MembersInv'
<1>1. Created' = Created \cup F \cup {b} /\ b \notin Created
  BY AddsCreated DEF Objects
<1>2. ObjectsTypeOK'
  BY <1>1 DEF Objects, ObjectsTypeOK, Adds
<1>3. MembersInv'
  <2> SUFFICES ASSUME NEW c \in Box
               PROVE  /\ Range(members'[c]) \subseteq Created'
                      /\ kind'[c] = "chain" => members'[c] # <<>>
                      /\ kind'[c] = "none" => members'[c] = <<>>
    BY DEF MembersInv
  <2>1. CASE c = b
    BY <1>1, <2>1 DEF Adds, Objects, ObjectsTypeOK
  <2>2. CASE c # b
    BY <1>1, <2>2 DEF Adds, Objects, ObjectsTypeOK, MembersInv
  <2> QED
    BY <2>1, <2>2
<1> QED
  BY <1>2, <1>3

LEMMA AddsKeepsRank ==
  ASSUME Objects, NEW b \in Box, NEW k, NEW s, NEW F, Adds(b, k, s, F)
  PROVE  Ranked'
<1>1. Created' = Created \cup F \cup {b} /\ b \notin Created
  BY AddsCreated DEF Objects
<1>2. PICK rank \in [Node -> 0..calls] : IsRank(rank)
  BY DEF Objects, Ranked
<1>3. b \in Node /\ calls \in Nat /\ calls' = calls + 1
  BY DEF Node, Objects, ObjectsTypeOK, Adds
<1>4. PICK new \in [Node -> 0..calls'] : new = [rank EXCEPT ![b] = calls + 1]
  <2> DEFINE up == [rank EXCEPT ![b] = calls + 1]
  <2>1. \A n \in Node : up[n] \in 0..calls'
    BY <1>3
  <2>2. up \in [Node -> 0..calls']
    BY <2>1
  <2> QED
    BY <2>2
<1>5. ASSUME NEW c \in Box, NEW m \in Range(members'[c])
      PROVE  new[m] < new[c]
  <2>1. CASE c = b
    <3>1. m \in Created \cup F
      BY <2>1 DEF Adds, Objects, ObjectsTypeOK
    <3>2. b \notin F
      BY DelayablesAssumption DEF Adds
    <3>3. m \in Node /\ m # b
      BY <1>1, <3>1, <3>2 DEF Created, Node, Adds, Objects, ObjectsTypeOK
    <3>4. rank[m] \in 0..calls
      BY <3>3
    <3> QED
      BY <1>3, <1>4, <2>1, <3>3, <3>4
  <2>2. CASE c # b
    <3>1. m \in Range(members[c])
      BY <2>2 DEF Adds, Objects, ObjectsTypeOK
    <3>2. m \in Created /\ rank[m] < rank[c]
      BY <1>2, <3>1 DEF IsRank, Objects, MembersInv
    <3>3. m # b /\ m \in Node /\ c \in Node
      BY <1>1, <3>2 DEF Created, Node, Objects, ObjectsTypeOK
    <3> QED
      BY <1>4, <2>2, <3>2, <3>3
  <2> QED
    BY <2>1, <2>2
<1>6. IsRank(new)'
  BY <1>5 DEF IsRank
<1> QED
  BY <1>6 DEF Ranked

LEMMA AddsKeepsGraph ==
  ASSUME Objects, NEW b \in Box, NEW k, NEW s, NEW F, Adds(b, k, s, F)
  PROVE  GraphInv'
<1>1. Created' = Created \cup F \cup {b} /\ b \notin Created
  BY AddsCreated DEF Objects
<1>2. b \notin Leaf /\ F \subseteq Leaf /\ F \cap Created = {}
  BY DelayablesAssumption DEF Adds, Created
<1>3. \A n \in Node : After(n)' = After(n)
  BY DEF After, Adds
<1>4. \A n \in F \cup {b} : After(n) = {}
  BY <1>1, <1>2 DEF After, Objects, ObjectsTypeOK
<1>5. ASSUME NEW n \in Node PROVE graph'[n] = GraphOf(n)'
  <2>1. CASE n \in F
    <3>1. Own(n)' = {n} /\ Feet(n)' = {n} /\ Steps(n)' = {} /\ After(n)' = {}
      BY <1>2, <1>3, <1>4, <2>1 DEF Own, Feet, Steps, Adds
    <3>2. AddVertex(<<>>, n) = [v \in {n} |-> {}]
      <4>1. DOMAIN <<>> = {}
        OBVIOUS
      <4> QED
        BY <4>1 DEF AddVertex
    <3>3. GraphOf(n)' = [v \in {n} |-> {}]
      BY <3>1 DEF GraphOf
    <3> QED
      BY <2>1, <3>2, <3>3 DEF Adds
  <2>2. CASE n = b
    <3>1. kind'[b] = k /\ members'[b] = s /\ k \in {"chain", "group"} /\ s \in Seq(Node)
      BY DEF Adds, Objects, ObjectsTypeOK
    <3>2. /\ Own(n)' = Range(s) /\ After(n)' = {}
          /\ Steps(n)' = IF k = "chain" THEN Consecutive(s) ELSE {}
      BY <1>2, <1>3, <1>4, <2>2, <3>1 DEF Own, Steps
    <3>3. GraphOf(n)' = [v \in Range(s) |->
                           {w \in Node : <<v, w>> \in (IF k = "chain" THEN Consecutive(s) ELSE {})}]
      BY <3>2 DEF GraphOf
    <3>4. graph'[n] = IF k = "chain" THEN ChainGraph(s) ELSE GroupGraph(s)
      BY <1>2, <2>2 DEF Adds
    <3> QED
      BY <3>1, <3>2, <3>3, <3>4, NewGraph
  <2>3. CASE n \notin F \cup {b}
    <3>1. n \in prepared' <=> n \in prepared
      BY <2>3 DEF Adds
    <3>2. n \in Box => kind'[n] = kind[n] /\ members'[n] = members[n]
      BY <2>3 DEF Adds, Objects, ObjectsTypeOK
    <3>3. Own(n)' = Own(n) /\ Feet(n)' = Feet(n) /\ Steps(n)' = Steps(n) /\ After(n)' = After(n)
      BY <1>3, <3>1, <3>2 DEF Own, Feet, Steps, Node
    <3>4. GraphOf(n)' = GraphOf(n)
      BY <3>3 DEF GraphOf
    <3> QED
      BY <2>3, <3>4 DEF Adds, Objects, GraphInv
  <2> QED
    BY <2>1, <2>2, <2>3
<1>6. graph' = [n \in Node |-> graph'[n]]
  BY DEF Adds
<1> QED
  BY <1>5, <1>6 DEF GraphInv

(* on_done attaches the child to what the object ends with.                 *)
LEMMA ConnectKeepsObjects ==
  ASSUME Objects, NEW n \in Created, NEW child \in Created, OnDone(n, child),
         calls' = calls + 1
  PROVE  Objects'
<1>1. n \in Node /\ child \in Node /\ calls \in Nat
  BY DEF Created, Node, Objects, ObjectsTypeOK
<1>2. Created' = Created
  BY DEF Created, OnDone
<1>3. ObjectsTypeOK' /\ MembersInv'
  <2>1. connected' \in SUBSET (Created' \X Created')
    BY <1>2 DEF OnDone, Objects, ObjectsTypeOK
  <2> QED
    BY <2>1, <1>2 DEF Objects, ObjectsTypeOK, MembersInv, OnDone
<1>4. Ranked'
  <2>1. PICK rank \in [Node -> 0..calls] : IsRank(rank)
    BY DEF Objects, Ranked
  <2>2. IsRank(rank)'
    BY <2>1 DEF IsRank, OnDone
  <2>3. rank \in [Node -> 0..calls']
    BY <1>1
  <2> QED
    BY <2>2, <2>3 DEF Ranked
<1>5. \A m \in Node : Own(m)' = Own(m) /\ Feet(m)' = Feet(m) /\ Steps(m)' = Steps(m)
  BY DEF Own, Feet, Steps, OnDone
<1>6. \A m \in Node \ {n} : GraphOf(m)' = GraphOf(m)
  <2>1. \A m \in Node \ {n} : After(m)' = After(m)
    BY DEF After, OnDone
  <2> QED
    BY <2>1, <1>5 DEF GraphOf
<1>7. After(n)' = After(n) \cup {child}
  BY <1>1 DEF After, OnDone
<1>8. Feet(n) \subseteq Own(n)
  <2>1. CASE n \in Leaf
    BY <2>1, DelayablesAssumption DEF Feet, Own, Created
  <2>2. CASE n \notin Leaf
    <3>1. n \in Box /\ kind[n] # "none" /\ members[n] \in Seq(Node)
      BY <2>2 DEF Created, Objects, ObjectsTypeOK
    <3>2. kind[n] = "chain" => members[n] # <<>>
      BY <3>1 DEF Objects, MembersInv
    <3>3. kind[n] = "chain" => Last(members[n]) \in Range(members[n])
      BY <3>1, <3>2, EndsOfSeq
    <3> QED
      BY <2>2, <3>3 DEF Feet, Own
  <2> QED
    BY <2>1, <2>2
<1>9. GraphOf(n)' = AddEdges(GraphOf(n), Feet(n), child)
  <2> DEFINE g == GraphOf(n)
             D == Own(n) \cup {w \in After(n) : Feet(n) # {}}
             Next1(v) == {w \in Node : <<v, w>> \in Steps(n) \/ (v \in Feet(n) /\ w \in After(n))}
  <2>1. GraphOf(n)' = [v \in Own(n) \cup {w \in After(n) \cup {child} : Feet(n) # {}} |->
                         {w \in Node : <<v, w>> \in Steps(n)
                                         \/ (v \in Feet(n) /\ w \in After(n) \cup {child})}]
    BY <1>1, <1>5, <1>7 DEF GraphOf
  <2>2. CASE Feet(n) = {}
    BY <2>1, <2>2 DEF AddEdges, GraphOf
  <2>3. CASE Feet(n) # {}
    <3>1. AddEdges(g, Feet(n), child)
            = [v \in DOMAIN g \cup Feet(n) \cup {child} |->
                (IF v \in DOMAIN g THEN g[v] ELSE {}) \cup {c \in {child} : v \in Feet(n)}]
      BY <2>3 DEF AddEdges
    <3>2. DOMAIN g = Own(n) \cup After(n) /\ \A v \in DOMAIN g : g[v] = Next1(v)
      BY <2>3 DEF GraphOf
    <3>3. DOMAIN g \cup Feet(n) \cup {child} = Own(n) \cup After(n) \cup {child}
      BY <3>2, <1>8
    <3>4. ASSUME NEW v \in Own(n) \cup After(n) \cup {child}
          PROVE  {w \in Node : <<v, w>> \in Steps(n)
                                 \/ (v \in Feet(n) /\ w \in After(n) \cup {child})}
                   = (IF v \in DOMAIN g THEN g[v] ELSE {}) \cup {c \in {child} : v \in Feet(n)}
      <4>1. CASE v \in DOMAIN g
        BY <3>2, <4>1, <1>1
      <4>2. CASE v \notin DOMAIN g
        <5>1. v \notin Feet(n)
          BY <3>2, <4>2, <1>8
        <5>2. \A w \in Node : <<v, w>> \notin Steps(n)
          <6> SUFFICES ASSUME NEW w \in Node, <<v, w>> \in Steps(n) PROVE FALSE
            OBVIOUS
          <6>1. n \notin Leaf /\ n \in Box /\ members[n] \in Seq(Node)
            BY <1>1 DEF Steps, Node, Objects, ObjectsTypeOK
          <6>2. PICK i \in 1..(Len(members[n]) - 1) : v = members[n][i]
            BY <6>1 DEF Steps, Consecutive
          <6>3. i \in 1..Len(members[n])
            BY <6>1, <6>2
          <6>4. v \in Range(members[n])
            BY <6>1, <6>2, <6>3, InRange
          <6> QED
            BY <6>1, <6>4, <3>2, <4>2 DEF Own
        <5> QED
          BY <4>2, <5>1, <5>2
      <4> QED
        BY <4>1, <4>2
    <3> HIDE DEF g
    <3>5. [v \in DOMAIN g \cup Feet(n) \cup {child} |->
             (IF v \in DOMAIN g THEN g[v] ELSE {}) \cup {c \in {child} : v \in Feet(n)}]
            = [v \in Own(n) \cup After(n) \cup {child} |->
                 {w \in Node : <<v, w>> \in Steps(n)
                                 \/ (v \in Feet(n) /\ w \in After(n) \cup {child})}]
      BY <3>3, <3>4
    <3>6. Own(n) \cup {w \in After(n) \cup {child} : Feet(n) # {}} = Own(n) \cup After(n) \cup {child}
      BY <2>3
    <3> QED
      BY <2>1, <3>1, <3>5, <3>6 DEF g
  <2> QED
    BY <2>2, <2>3
<1>10. graph' = [graph EXCEPT ![n] = AddEdges(graph[n], Feet(n), child)]
  BY DEF OnDone, Connect, Feet
<1>11. GraphInv'
  BY <1>1, <1>6, <1>9, <1>10 DEF GraphInv, Objects
<1> QED
  BY <1>3, <1>4, <1>11 DEF Objects

LEMMA AddsKeepsObjects ==
  ASSUME Objects, NEW b \in Box, NEW k, NEW s, NEW F, Adds(b, k, s, F)
  PROVE  Objects'
BY AddsKeepsTypes, AddsKeepsRank, AddsKeepsGraph DEF Objects

LEMMA BoundedSeqType ==
  ASSUME NEW S, NEW m \in Nat, NEW s \in BoundedSeq(S, m)
  PROVE  s \in Seq(S)
<1>1. PICK i \in 0..m : s \in [1..i -> S]
  BY DEF BoundedSeq, SeqOf
<1> QED
  BY <1>1

(* chain(...) and group(...) of objects that are there, ...                 *)
LEMMA MakeAdds ==
  ASSUME Objects, NEW b \in Box, MakeChain(b) \/ MakeGroup(b)
  PROVE  \E k \in {"chain", "group"}, s \in Seq(Created) :
           /\ Adds(b, k, s, {})
           /\ k = "chain" => Acyclic(Ordered(Node) \cup Consecutive(s))
<1> DEFINE free == {n \in Created : ~ Member(n)}
<1>1. \A s \in MemberSeqs : s \in Seq(Created)
  <2> SUFFICES ASSUME NEW s \in MemberSeqs PROVE s \in Seq(Created)
    OBVIOUS
  <2>1. s \in BoundedSeq(free, MaxMembers)
    BY DEF MemberSeqs
  <2>2. s \in Seq(free)
    <3> HIDE DEF free
    <3> QED
      BY <2>1, BoundedSeqType, DelayablesAssumption
  <2>3. \A i \in 1..Len(s) : s[i] \in Created
    BY <2>2
  <2> QED
    BY <2>2, <2>3
<1>2. Created \subseteq Node /\ b \notin Leaf
  BY DelayablesAssumption DEF Created, Node, Objects, ObjectsTypeOK
<1>3. ASSUME NEW k \in {"chain", "group"}, NEW s \in Seq(Created), MakeBox(b, k, s), Building,
             k = "chain" => s # <<>>
      PROVE  Adds(b, k, s, {})
  <2>1. s \in Seq(Node) /\ Range(s) \subseteq Created
    <3>1. \A i \in 1..Len(s) : s[i] \in Node
      BY <1>2
    <3> QED
      BY <3>1, RangeType
  <2>2. graph' = [n \in Node |-> IF n # b THEN graph[n]
                                 ELSE IF k = "chain" THEN ChainGraph(s) ELSE GroupGraph(s)]
    BY <1>3 DEF MakeBox, Objects, GraphInv
  <2> QED
    BY <1>3, <2>1, <2>2 DEF MakeBox, Building, Adds
<1>4. CASE MakeChain(b)
  <2>1. PICK s \in MemberSeqs : /\ NewChain(b, s)
                                /\ Acyclic(Ordered(Node) \cup Consecutive(s))
    BY <1>4 DEF MakeChain
  <2>2. Adds(b, "chain", s, {})
    BY <1>1, <1>3, <1>4, <2>1 DEF NewChain, MakeChain
  <2> QED
    BY <1>1, <2>1, <2>2
<1>5. CASE MakeGroup(b)
  <2>1. PICK s \in MemberSeqs : NewGroup(b, s)
    BY <1>5 DEF MakeGroup
  <2>2. Adds(b, "group", s, {})
    BY <1>1, <1>3, <1>5, <2>1 DEF NewGroup, MakeGroup
  <2> QED
    BY <1>1, <2>1, <2>2
<1> QED
  BY <1>4, <1>5

(* ... and the chain or group of the batches of a method that is split.     *)
LEMMA SplitAdds ==
  ASSUME Objects, NEW l \in Leaf, NEW b \in Box, SplitMethod(l, b)
  PROVE  \E k \in {"chain", "group"}, s \in Seq(Leaf \ prepared) :
           Adds(b, k, s, Range(s)) /\ IsInjective(s)
<1>1. PICK records \in {Records, 0}, size \in 1..Records, k \in {"chain", "group"},
        s \in {t \in BoundedSeq(Leaf \ prepared, MaxMembers) : IsInjective(t)} :
          Split(records, size, k, b, s)
  BY DEF SplitMethod
<1>2. s \in Seq(Leaf \ prepared) /\ IsInjective(s)
  BY BoundedSeqType, DelayablesAssumption
<1>3. s \in Seq(Node) /\ Range(s) \in SUBSET (Leaf \ prepared)
  <2>1. \A i \in 1..Len(s) : s[i] \in Node
    BY <1>2 DEF Node
  <2> QED
    BY <1>2, <2>1, RangeType
<1>4. Adds(b, k, s, Range(s))
  BY <1>1, <1>3 DEF Split, SplitMethod, Building, Adds
<1> QED
  BY <1>2, <1>4

(* No other step touches the objects.                                       *)
ObjectsKept == UNCHANGED delayableVars /\ calls' \in {calls, calls + 1}

LEMMA KeepsObjects ==
  ASSUME Objects, ObjectsKept
  PROVE  Objects' /\ Created' = Created
<1>1. Created' = Created
  BY DEF Created, ObjectsKept, delayableVars
<1>2. ObjectsTypeOK' /\ MembersInv'
  BY <1>1 DEF Objects, ObjectsTypeOK, MembersInv, ObjectsKept, delayableVars
<1>3. Ranked'
  <2>1. PICK rank \in [Node -> 0..calls] : IsRank(rank)
    BY DEF Objects, Ranked
  <2>2. IsRank(rank)'
    BY <2>1 DEF IsRank, ObjectsKept, delayableVars
  <2>3. rank \in [Node -> 0..calls']
    BY DEF Objects, ObjectsTypeOK, ObjectsKept
  <2> QED
    BY <2>2, <2>3 DEF Ranked
<1>4. \A n \in Node : GraphOf(n)' = GraphOf(n)
  BY DEF GraphOf, Own, Feet, Steps, After, ObjectsKept, delayableVars
<1>5. GraphInv'
  BY <1>4 DEF GraphInv, Objects, ObjectsKept, delayableVars
<1> QED
  BY <1>1, <1>2, <1>3, <1>5 DEF Objects

LEMMA OthersKeepObjects ==
  ASSUME calls \in Nat,
         \/ \E n \in Node : Delay(n)
         \/ PerformDirect \/ PerformRaises \/ Commit \/ TwinLive \/ TwinStarts
         \/ \E l \in Leaf : Work(l)
         \/ UNCHANGED vars
  PROVE  ObjectsKept
<1>1. ASSUME NEW n \in Node, Delay(n) PROVE ObjectsKept
  BY <1>1, Zenon DEF Delay, Building, Raise, UseExisting, StoreGraph, ExecuteDirect, ObjectsKept,
       delayableVars
<1> QED
  BY <1>1 DEF PerformDirect, PerformRaises, Raise, Commit, TwinLive, TwinStarts, Work,
       PerformDone, PerformFails, ReadDependents, ReleaseDependents, DependentsConflict,
       WorkerCrash, OnlyWork, vars, delayVars, ObjectsKept, delayableVars

LEMMA ObjectsStep == Objects /\ [Next]_vars => Objects'
<1> SUFFICES ASSUME Objects, [Next]_vars PROVE Objects'
  OBVIOUS
<1>1. ASSUME NEW b \in Box, MakeChain(b) \/ MakeGroup(b) PROVE Objects'
  BY <1>1, MakeAdds, AddsKeepsObjects
<1>2. ASSUME NEW l \in Leaf, NEW b \in Box, SplitMethod(l, b) PROVE Objects'
  BY <1>2, SplitAdds, AddsKeepsObjects
<1>3. ASSUME NEW n \in Node, NEW child \in Node, ConnectOnDone(n, child) PROVE Objects'
  BY <1>3, ConnectKeepsObjects DEF ConnectOnDone, Building
<1>4. CASE \/ \E n \in Node : Delay(n)
           \/ PerformDirect \/ PerformRaises \/ Commit \/ TwinLive \/ TwinStarts
           \/ \E l \in Leaf : Work(l)
           \/ UNCHANGED vars
  BY <1>4, OthersKeepObjects, KeepsObjects DEF Objects, ObjectsTypeOK
<1> QED
  BY <1>1, <1>2, <1>3, <1>4 DEF Next

LEMMA ObjectsInit == Init => Objects
<1> SUFFICES ASSUME Init PROVE Objects
  OBVIOUS
<1>1. /\ prepared \in SUBSET Leaf /\ kind = [b \in Box |-> "none"] /\ connected = {} /\ calls = 0
      /\ members = [b \in Box |-> <<>>]
      /\ graph = [n \in Node |-> IF n \in prepared THEN AddVertex(<<>>, n) ELSE <<>>]
  BY DEF Init, DelayablesInit
<1>2. <<>> \in Seq(Node) /\ Range(<<>>) = {}
  BY RangeOfEmpty
<1>3. ObjectsTypeOK /\ MembersInv
  BY <1>1, <1>2 DEF ObjectsTypeOK, MembersInv
<1>4. Ranked
  <2>1. IsRank([n \in Node |-> 0])
    BY <1>1, <1>2 DEF IsRank
  <2>2. [n \in Node |-> 0] \in [Node -> 0..calls]
    BY <1>1
  <2> QED
    BY <2>1, <2>2 DEF Ranked
<1>5. ASSUME NEW n \in Node PROVE graph[n] = GraphOf(n)
  <2>1. DOMAIN <<>> = {} /\ <<>> = [v \in {} |-> {}]
    OBVIOUS
  <2>2. After(n) = {}
    BY <1>1 DEF After
  <2>3. n \notin Leaf => n \in Box /\ n \notin prepared
    BY <1>1 DEF Node
  <2>4. Steps(n) = {}
    BY <1>1, <2>3 DEF Steps
  <2>5. GraphOf(n) = [v \in Own(n) |-> {}]
    BY <2>2, <2>4 DEF GraphOf
  <2>6. Own(n) = IF n \in prepared THEN {n} ELSE {}
    BY <1>1, <1>2, <2>3 DEF Own
  <2>7. AddVertex(<<>>, n) = [v \in {n} |-> {}]
    BY <2>1 DEF AddVertex
  <2> QED
    BY <1>1, <2>1, <2>5, <2>6, <2>7
<1>6. GraphInv
  BY <1>1, <1>5 DEF GraphInv
<1> QED
  BY <1>3, <1>4, <1>6 DEF Objects

-----------------------------------------------------------------------------
(* The jobs an object stands for.                                           *)

LEMMA JobsUnfold ==
  ASSUME ObjectsTypeOK
  PROVE  /\ \A n \in Leaf : Jobs(n) = {n}
         /\ \A b \in Box : Jobs(b) = UNION {Jobs(m) : m \in Range(members[b])}
<1>1. Below \in [Node -> SUBSET Node]
  BY BelowType
<1>2. \A n : Inside(n) = Reachable(Below, n)
  BY DEF Inside, Below
<1>3. \A n \in Node : Inside(n) = {n} \cup UNION {Inside(v) : v \in Below[n]}
  BY <1>1, <1>2, ReachableUnfold
<1>4. ASSUME NEW n \in Leaf PROVE Jobs(n) = {n}
  <2>1. n \in Node /\ Below[n] = {}
    BY DEF Below, Node
  <2>2. Inside(n) = {n}
    BY <1>3, <2>1
  <2> QED
    BY <2>2 DEF Jobs
<1>5. ASSUME NEW b \in Box PROVE Jobs(b) = UNION {Jobs(m) : m \in Range(members[b])}
  <2>1. b \in Node /\ b \notin Leaf /\ Below[b] = Range(members[b])
    BY DelayablesAssumption DEF Below, Node
  <2>2. Inside(b) = {b} \cup UNION {Inside(v) : v \in Range(members[b])}
    BY <1>3, <2>1
  <2> QED
    BY <2>1, <2>2 DEF Jobs
<1> QED
  BY <1>4, <1>5

LeafJobs == \A n \in Leaf : Jobs(n) = {n}

LEMMA LeafJobsOK == ObjectsTypeOK => LeafJobs
BY JobsUnfold DEF LeafJobs

LEMMA JobsType == \A n : Jobs(n) \subseteq Leaf
BY DEF Jobs

Sides == {"head", "tail"}

(* The members whose ends are those of an object.                           *)
EndsFrom(n, side) ==
  IF n \in Leaf THEN {}
  ELSE IF kind[n] # "chain" THEN {<<m, side>> : m \in Range(members[n])}
  ELSE IF side = "head" THEN {<<Head(members[n]), "tail">>}
                        ELSE {<<Last(members[n]), "head">>}

LEMMA EndsFromType ==
  ASSUME ObjectsTypeOK, MembersInv, NEW n \in Node, NEW side \in Sides
  PROVE  EndsFrom(n, side) \subseteq Node \X Sides
<1>1. CASE n \in Leaf
  BY <1>1 DEF EndsFrom
<1>2. CASE n \notin Leaf
  <2>1. n \in Box /\ members[n] \in Seq(Node)
    BY <1>2 DEF Node, ObjectsTypeOK
  <2>2. Range(members[n]) \subseteq Node
    BY <2>1, RangeType
  <2>3. kind[n] = "chain" => Head(members[n]) \in Node /\ Last(members[n]) \in Node
    BY <2>1, <2>2, EndsOfSeq DEF MembersInv
  <2> QED
    BY <1>2, <2>2, <2>3 DEF EndsFrom, Sides
<1> QED
  BY <1>1, <1>2

(* There is a function that computes _head and _tail: the jobs reached.     *)
LEMMA EndsExist ==
  ASSUME ObjectsTypeOK, MembersInv
  PROVE  \E f : f = [e \in Node \X {"head", "tail"} |->
                       IF e[1] \in Leaf THEN {e[1]}
                       ELSE IF kind[e[1]] # "chain"
                            THEN UNION {f[<<m, e[2]>>] : m \in Range(members[e[1]])}
                       ELSE IF e[2] = "head" THEN f[<<Head(members[e[1]]), "tail">>]
                                             ELSE f[<<Last(members[e[1]]), "head">>]]
<1> DEFINE D == Node \X Sides
           next == [e \in D |-> EndsFrom(e[1], e[2])]
           f == [e \in D |-> {l \in Leaf : \E side \in Sides : <<l, side>> \in Reachable(next, e)}]
           body(e) == IF e[1] \in Leaf THEN {e[1]}
                      ELSE IF kind[e[1]] # "chain"
                           THEN UNION {f[<<m, e[2]>>] : m \in Range(members[e[1]])}
                      ELSE IF e[2] = "head" THEN f[<<Head(members[e[1]]), "tail">>]
                                            ELSE f[<<Last(members[e[1]]), "head">>]
<1>1. next \in [D -> SUBSET D]
  BY EndsFromType
<1>2. ASSUME NEW n \in Node, NEW side \in Sides
      PROVE  f[<<n, side>>] = {l \in Leaf : l = n} \cup UNION {f[e] : e \in EndsFrom(n, side)}
  <2>1. <<n, side>> \in D /\ next[<<n, side>>] = EndsFrom(n, side)
    OBVIOUS
  <2>2. EndsFrom(n, side) \subseteq D
    BY EndsFromType
  <2>3. Reachable(next, <<n, side>>)
          = {<<n, side>>} \cup UNION {Reachable(next, e) : e \in EndsFrom(n, side)}
    <3> HIDE DEF next, D
    <3> QED
      BY <1>1, <2>1, ReachableUnfold
  <2> HIDE DEF next, D
  <2>4. \A e \in D : f[e] = {l \in Leaf : \E s \in Sides : <<l, s>> \in Reachable(next, e)}
    BY DEF f
  <2> HIDE DEF f
  <2>5. ASSUME NEW l \in Leaf
        PROVE  l \in f[<<n, side>>] <=> l = n \/ \E e \in EndsFrom(n, side) : l \in f[e]
    <3>1. l \in f[<<n, side>>]
            <=> \E s \in Sides : <<l, s>> = <<n, side>>
                                 \/ \E e \in EndsFrom(n, side) : <<l, s>> \in Reachable(next, e)
      BY <2>1, <2>3, <2>4
    <3>2. \A e \in EndsFrom(n, side) :
            l \in f[e] <=> \E s \in Sides : <<l, s>> \in Reachable(next, e)
      BY <2>2, <2>4
    <3> QED
      BY <3>1, <3>2
  <2>6. f[<<n, side>>] \subseteq Leaf /\ \A e \in EndsFrom(n, side) : f[e] \subseteq Leaf
    BY <2>1, <2>2, <2>4
  <2> QED
    BY <2>5, <2>6
<1>3. ASSUME NEW e \in D PROVE f[e] = body(e)
  <2>1. e = <<e[1], e[2]>> /\ e[1] \in Node /\ e[2] \in Sides
    OBVIOUS
  <2> HIDE DEF f
  <2>2. f[e] = {l \in Leaf : l = e[1]} \cup UNION {f[a] : a \in EndsFrom(e[1], e[2])}
    BY <1>2, <2>1
  <2>3. CASE e[1] \in Leaf
    BY <2>2, <2>3 DEF EndsFrom
  <2>4. CASE e[1] \notin Leaf
    <3>1. f[e] = UNION {f[a] : a \in EndsFrom(e[1], e[2])}
      BY <2>2, <2>4
    <3>2. CASE kind[e[1]] # "chain"
      <4>1. EndsFrom(e[1], e[2]) = {<<m, e[2]>> : m \in Range(members[e[1]])}
        BY <2>4, <3>2 DEF EndsFrom
      <4>2. UNION {f[a] : a \in {<<m, e[2]>> : m \in Range(members[e[1]])}}
              = UNION {f[<<m, e[2]>>] : m \in Range(members[e[1]])}
        OBVIOUS
      <4> QED
        BY <2>4, <3>1, <3>2, <4>1, <4>2
    <3>3. CASE kind[e[1]] = "chain" /\ e[2] = "head"
      <4>1. EndsFrom(e[1], e[2]) = {<<Head(members[e[1]]), "tail">>}
        BY <2>4, <3>3 DEF EndsFrom
      <4> QED
        BY <2>4, <3>1, <3>3, <4>1
    <3>4. CASE kind[e[1]] = "chain" /\ e[2] # "head"
      <4>1. EndsFrom(e[1], e[2]) = {<<Last(members[e[1]]), "head">>}
        BY <2>4, <3>4 DEF EndsFrom
      <4> QED
        BY <2>4, <3>1, <3>4, <4>1
    <3> QED
      BY <3>2, <3>3, <3>4
  <2> QED
    BY <2>3, <2>4
<1>4. f = [e \in Node \X {"head", "tail"} |-> body(e)]
  BY <1>3, Zenon DEF Sides
<1> QED
  BY <1>4

LEMMA EndsUnfold ==
  ASSUME ObjectsTypeOK, MembersInv
  PROVE  /\ \A n \in Leaf : HeadJobs(n) = {n} /\ TailJobs(n) = {n}
         /\ \A b \in Box : kind[b] # "chain" =>
              /\ HeadJobs(b) = UNION {HeadJobs(m) : m \in Range(members[b])}
              /\ TailJobs(b) = UNION {TailJobs(m) : m \in Range(members[b])}
         /\ \A b \in Box : kind[b] = "chain" =>
              /\ HeadJobs(b) = TailJobs(Head(members[b]))
              /\ TailJobs(b) = HeadJobs(Last(members[b]))
<1> DEFINE body(e) ==
             IF e[1] \in Leaf THEN {e[1]}
             ELSE IF kind[e[1]] # "chain"
                  THEN UNION {Ends[<<m, e[2]>>] : m \in Range(members[e[1]])}
             ELSE IF e[2] = "head" THEN Ends[<<Head(members[e[1]]), "tail">>]
                                   ELSE Ends[<<Last(members[e[1]]), "head">>]
<1>0. Ends = [e \in Node \X {"head", "tail"} |-> body(e)]
  BY EndsExist, Zenon DEF Ends
<1>1. \A e \in Node \X {"head", "tail"} : Ends[e] = body(e)
  <2> HIDE DEF body
  <2> QED
    BY <1>0
<1>2. ASSUME NEW n \in Node, NEW side \in Sides
      PROVE  Ends[<<n, side>>] =
               IF n \in Leaf THEN {n}
               ELSE IF kind[n] # "chain"
                    THEN UNION {Ends[<<m, side>>] : m \in Range(members[n])}
               ELSE IF side = "head" THEN Ends[<<Head(members[n]), "tail">>]
                                     ELSE Ends[<<Last(members[n]), "head">>]
  <2>0. <<n, side>> \in Node \X {"head", "tail"} /\ <<n, side>>[1] = n /\ <<n, side>>[2] = side
    BY DEF Sides
  <2>1. PICK e \in Node \X {"head", "tail"} : e = <<n, side>> /\ e[1] = n /\ e[2] = side
    BY <2>0, Zenon
  <2> HIDE DEF body
  <2>2. Ends[<<n, side>>] = body(e)
    BY <1>1, <2>1
  <2> USE DEF body
  <2>3. UNION {Ends[<<m, e[2]>>] : m \in Range(members[e[1]])}
          = UNION {Ends[<<m, side>>] : m \in Range(members[n])}
    BY <2>1
  <2>4. CASE n \in Leaf
    BY <2>1, <2>2, <2>4
  <2>5. CASE n \notin Leaf /\ kind[n] # "chain"
    BY <2>1, <2>2, <2>3, <2>5
  <2>6. CASE n \notin Leaf /\ kind[n] = "chain" /\ side = "head"
    BY <2>1, <2>2, <2>6
  <2>7. CASE n \notin Leaf /\ kind[n] = "chain" /\ side # "head"
    BY <2>1, <2>2, <2>7
  <2> QED
    BY <2>4, <2>5, <2>6, <2>7
<1>3. \A b \in Box : b \in Node /\ b \notin Leaf
  BY DelayablesAssumption DEF Node
<1>4. "head" \in Sides /\ "tail" \in Sides /\ "head" # "tail"
  BY DEF Sides
<1>5. \A n \in Leaf : HeadJobs(n) = {n} /\ TailJobs(n) = {n}
  BY <1>2, <1>4 DEF HeadJobs, TailJobs, Node
<1>6. ASSUME NEW b \in Box, kind[b] # "chain"
      PROVE  /\ HeadJobs(b) = UNION {HeadJobs(m) : m \in Range(members[b])}
             /\ TailJobs(b) = UNION {TailJobs(m) : m \in Range(members[b])}
  BY <1>2, <1>3, <1>4, <1>6 DEF HeadJobs, TailJobs
<1>7. ASSUME NEW b \in Box, kind[b] = "chain"
      PROVE  /\ HeadJobs(b) = TailJobs(Head(members[b]))
             /\ TailJobs(b) = HeadJobs(Last(members[b]))
  BY <1>2, <1>3, <1>4, <1>7 DEF HeadJobs, TailJobs
<1> QED
  BY <1>5, <1>6, <1>7

(* Heads and tails are jobs of the object.                                  *)
LEMMA EndsInside ==
  ASSUME Objects
  PROVE  \A n \in Node : HeadJobs(n) \subseteq Jobs(n) /\ TailJobs(n) \subseteq Jobs(n)
<1> DEFINE P == {n \in Node : HeadJobs(n) \subseteq Jobs(n) /\ TailJobs(n) \subseteq Jobs(n)}
<1>1. ASSUME NEW n \in Node, Below[n] \subseteq P
      PROVE  HeadJobs(n) \subseteq Jobs(n) /\ TailJobs(n) \subseteq Jobs(n)
  <2>1. CASE n \in Leaf
    BY <2>1, EndsUnfold, JobsUnfold DEF Objects
  <2>2. CASE n \notin Leaf
    <3>1. n \in Box /\ members[n] \in Seq(Node) /\ Below[n] = Range(members[n])
      BY <2>2 DEF Node, Below, Objects, ObjectsTypeOK
    <3>2. \A m \in Range(members[n]) : HeadJobs(m) \subseteq Jobs(m) /\ TailJobs(m) \subseteq Jobs(m)
      BY <1>1, <3>1
    <3>3. Jobs(n) = UNION {Jobs(m) : m \in Range(members[n])}
      BY <3>1, JobsUnfold DEF Objects
    <3>4. CASE kind[n] # "chain"
      <4>1. /\ HeadJobs(n) = UNION {HeadJobs(m) : m \in Range(members[n])}
            /\ TailJobs(n) = UNION {TailJobs(m) : m \in Range(members[n])}
        BY <3>1, <3>4, EndsUnfold DEF Objects
      <4> QED
        BY <3>2, <3>3, <4>1
    <3>5. CASE kind[n] = "chain"
      <4>1. /\ HeadJobs(n) = TailJobs(Head(members[n]))
            /\ TailJobs(n) = HeadJobs(Last(members[n]))
        BY <3>1, <3>5, EndsUnfold DEF Objects
      <4>2. Head(members[n]) \in Range(members[n]) /\ Last(members[n]) \in Range(members[n])
        BY <3>1, <3>5, EndsOfSeq DEF Objects, MembersInv
      <4> QED
        BY <3>2, <3>3, <4>1, <4>2
    <3> QED
      BY <3>4, <3>5
  <2> QED
    BY <2>1, <2>2
<1>2. P \in SUBSET Node /\ \A n \in Node : Below[n] \subseteq P => n \in P
  BY <1>1
<1>3. P = Node
  <2> HIDE DEF P
  <2> QED
    BY <1>2, MembersFirst DEF Objects
<1> QED
  BY <1>3

-----------------------------------------------------------------------------
(* The graph of jobs.                                                       *)

(* A vertex or a neighbour in the graph of an object is ...                 *)
LEMMA GraphRules ==
  ASSUME Objects, NEW n \in Node
  PROVE  /\ DOMAIN graph[n] = Own(n) \cup {w \in After(n) : Feet(n) # {}}
         /\ \A v \in DOMAIN graph[n] :
              graph[n][v] = {w \in Node : \/ <<v, w>> \in Steps(n)
                                          \/ v \in Feet(n) /\ w \in After(n)}
BY DEF Objects, GraphInv, GraphOf

(* ... an object that is there; a neighbour is a vertex; the jobs of the    *)
(* feet are jobs of the object.                                             *)
LEMMA OwnRules ==
  ASSUME Objects, NEW n \in Node
  PROVE  /\ Own(n) \subseteq Created /\ After(n) \subseteq Created
         /\ n \in Created => Feet(n) \subseteq Own(n)
         /\ \A v, w : <<v, w>> \in Steps(n) => v \in Own(n) /\ w \in Own(n)
         /\ \A v \in Own(n) : Jobs(v) \subseteq Jobs(n)
         /\ n \notin Leaf => Own(n) = Range(members[n])
         /\ n \in prepared => Own(n) = {n}
<1>1. After(n) \subseteq Created
  BY DEF After, Objects, ObjectsTypeOK
<1>2. CASE n \in Leaf
  BY <1>1, <1>2, DelayablesAssumption DEF Own, Feet, Steps, Created
<1>3. CASE n \notin Leaf
  <2>1. n \in Box /\ members[n] \in Seq(Node) /\ n \notin prepared
    BY <1>3 DEF Node, Objects, ObjectsTypeOK
  <2>2. Own(n) = Range(members[n]) /\ Own(n) \subseteq Created
    BY <1>3, <2>1 DEF Own, Objects, MembersInv
  <2>3. n \in Created => Feet(n) \subseteq Own(n)
    <3>1. kind[n] = "chain" => Last(members[n]) \in Range(members[n])
      BY <2>1, EndsOfSeq DEF Objects, MembersInv
    <3> QED
      BY <1>3, <2>2, <3>1 DEF Feet
  <2>4. ASSUME NEW v, NEW w, <<v, w>> \in Steps(n) PROVE v \in Own(n) /\ w \in Own(n)
    <3>1. PICK i \in 1..(Len(members[n]) - 1) : v = members[n][i] /\ w = members[n][i + 1]
      BY <2>4 DEF Steps, Consecutive
    <3>2. i \in 1..Len(members[n]) /\ i + 1 \in 1..Len(members[n])
      BY <2>1, <3>1
    <3> QED
      BY <2>1, <2>2, <3>1, <3>2, InRange
  <2>5. \A v \in Own(n) : Jobs(v) \subseteq Jobs(n)
    BY <2>1, <2>2, JobsUnfold DEF Objects
  <2> QED
    BY <1>1, <2>1, <2>2, <2>3, <2>4, <2>5
<1> QED
  BY <1>2, <1>3

(* The objects visited are there, and so is all that is inside them.        *)
LEMMA VisitedRules ==
  ASSUME Objects, NEW n \in Created
  PROVE  /\ n \in Visited(n) /\ Visited(n) \subseteq Created
         /\ \A m \in Visited(n) : DOMAIN graph[m] \subseteq Visited(n)
         /\ \A m \in Visited(n) : Own(m) \subseteq Visited(n)
         /\ \A m \in Visited(n) : Inside(m) \subseteq Visited(n)
<1> DEFINE next == [m \in Node |-> DOMAIN graph[m]]
<1>1. Created \subseteq Node
  BY DEF Created, Node, Objects, ObjectsTypeOK
<1>2. \A m \in Node : DOMAIN graph[m] \subseteq Created /\ Own(m) \subseteq DOMAIN graph[m]
  BY GraphRules, OwnRules
<1>3. next \in [Node -> SUBSET Node] /\ \A m \in Node : next[m] = DOMAIN graph[m]
  BY <1>1, <1>2
<1>4. Visited(n) = Reachable(next, n)
  BY DEF Visited
<1> HIDE DEF next
<1>5. n \in Visited(n) /\ Visited(n) \subseteq Node /\ \A m \in Visited(n) : next[m] \subseteq Visited(n)
  BY <1>1, <1>3, <1>4, ReachableClosed
<1>6. Visited(n) \subseteq Created
  <2>1. \A v \in Created : next[v] \subseteq Created
    BY <1>1, <1>2, <1>3
  <2> QED
    BY <1>1, <1>3, <1>4, <2>1, ReachableLeast
<1>7. \A m \in Visited(n) : Own(m) \subseteq Visited(n) /\ DOMAIN graph[m] \subseteq Visited(n)
  BY <1>2, <1>3, <1>5
<1>8. ASSUME NEW m \in Visited(n) PROVE Inside(m) \subseteq Visited(n)
  <2>1. Below \in [Node -> SUBSET Node]
    BY BelowType DEF Objects
  <2>2. \A v \in Visited(n) : Below[v] \subseteq Visited(n)
    BY <1>5, <1>7, OwnRules DEF Below
  <2>3. Inside(m) = Reachable(Below, m)
    BY DEF Inside, Below
  <2> QED
    BY <1>5, <2>1, <2>2, <2>3, ReachableLeast
<1> QED
  BY <1>5, <1>6, <1>7, <1>8

(* The vertices and the edges _connect_graphs makes.                        *)
LEMMA ConnectGraphsUnfold ==
  ASSUME NEW n
  PROVE  /\ \A j : j \in DOMAIN ConnectGraphs(n) <=>
              \E m \in Visited(n) : \E v \in DOMAIN graph[m] : j \in TailJobs(v)
         /\ \A j \in DOMAIN ConnectGraphs(n) : \A c : c \in ConnectGraphs(n)[j] <=>
              \E m \in Visited(n) : \E v \in DOMAIN graph[m] : \E w \in graph[m][v] :
                j \in TailJobs(v) /\ c \in HeadJobs(w)
<1> DEFINE arcs == UNION {{<<v, m>> : v \in DOMAIN graph[m]} : m \in Visited(n)}
           D == UNION {TailJobs(arc[1]) : arc \in arcs}
           N(j) == UNION {UNION {HeadJobs(c) : c \in graph[arc[2]][arc[1]]} :
                            arc \in {a \in arcs : j \in TailJobs(a[1])}}
<1>1. ConnectGraphs(n) = [j \in D |-> N(j)]
  BY DEF ConnectGraphs
<1>2. \A m \in Visited(n) : \A v \in DOMAIN graph[m] :
        <<v, m>> \in arcs /\ <<v, m>>[1] = v /\ <<v, m>>[2] = m
  OBVIOUS
<1>3. \A a \in arcs : \E m \in Visited(n) : \E v \in DOMAIN graph[m] :
        a = <<v, m>> /\ a[1] = v /\ a[2] = m
  OBVIOUS
<1>4. ASSUME NEW j
      PROVE  j \in D <=> \E m \in Visited(n) : \E v \in DOMAIN graph[m] : j \in TailJobs(v)
  <2> HIDE DEF arcs
  <2>1. j \in D <=> \E a \in arcs : j \in TailJobs(a[1])
    OBVIOUS
  <2>2. ASSUME NEW a \in arcs, j \in TailJobs(a[1])
        PROVE  \E m \in Visited(n) : \E v \in DOMAIN graph[m] : j \in TailJobs(v)
    BY <1>3, <2>2, Zenon
  <2>3. ASSUME NEW m \in Visited(n), NEW v \in DOMAIN graph[m], j \in TailJobs(v)
        PROVE  \E a \in arcs : j \in TailJobs(a[1])
    BY <1>2, <2>3, Zenon
  <2> QED
    BY <2>1, <2>2, <2>3, Zenon
<1>5. ASSUME NEW j, NEW c
      PROVE  c \in N(j) <=> \E m \in Visited(n) : \E v \in DOMAIN graph[m] : \E w \in graph[m][v] :
                              j \in TailJobs(v) /\ c \in HeadJobs(w)
  <2> HIDE DEF arcs
  <2>1. c \in N(j) <=> \E a \in arcs : /\ j \in TailJobs(a[1])
                                       /\ \E w \in graph[a[2]][a[1]] : c \in HeadJobs(w)
    OBVIOUS
  <2>2. ASSUME NEW a \in arcs, j \in TailJobs(a[1]), NEW w \in graph[a[2]][a[1]], c \in HeadJobs(w)
        PROVE  \E m \in Visited(n) : \E v \in DOMAIN graph[m] : \E x \in graph[m][v] :
                 j \in TailJobs(v) /\ c \in HeadJobs(x)
    BY <1>3, <2>2, Zenon
  <2>3. ASSUME NEW m \in Visited(n), NEW v \in DOMAIN graph[m], NEW w \in graph[m][v],
               j \in TailJobs(v), c \in HeadJobs(w)
        PROVE  \E a \in arcs : /\ j \in TailJobs(a[1])
                                /\ \E x \in graph[a[2]][a[1]] : c \in HeadJobs(x)
    <3>1. PICK a \in arcs : a[1] = v /\ a[2] = m
      BY <1>2, Zenon
    <3>2. j \in TailJobs(a[1]) /\ w \in graph[a[2]][a[1]]
      BY <2>3, <3>1
    <3> QED
      BY <2>3, <3>2
  <2> QED
    BY <2>1, <2>2, <2>3, Zenon
<1> HIDE DEF D, N
<1>6. DOMAIN ConnectGraphs(n) = D /\ \A j \in D : ConnectGraphs(n)[j] = N(j)
  BY <1>1
<1> QED
  BY <1>4, <1>5, <1>6

(* They are the jobs of the objects visited, and edges between them.        *)
LEMMA ConnectGraphsType ==
  ASSUME Objects, NEW n \in Created
  PROVE  /\ DOMAIN ConnectGraphs(n) = Visited(n) \cap Leaf
         /\ \A j \in DOMAIN ConnectGraphs(n) : ConnectGraphs(n)[j] \subseteq Visited(n) \cap Leaf
<1>1. Created \subseteq Node
  BY DEF Created, Node, Objects, ObjectsTypeOK
<1>2. \A v \in Visited(n) : Jobs(v) \subseteq Visited(n) \cap Leaf
  BY VisitedRules DEF Jobs
<1>3. \A v \in Visited(n) : HeadJobs(v) \cup TailJobs(v) \subseteq Visited(n) \cap Leaf
  BY <1>1, <1>2, EndsInside, VisitedRules
<1>4. DOMAIN ConnectGraphs(n) \subseteq Visited(n) \cap Leaf
  <2> SUFFICES ASSUME NEW j \in DOMAIN ConnectGraphs(n) PROVE j \in Visited(n) \cap Leaf
    OBVIOUS
  <2>1. PICK m \in Visited(n) : \E v \in DOMAIN graph[m] : j \in TailJobs(v)
    BY ConnectGraphsUnfold
  <2> QED
    BY <2>1, <1>3, VisitedRules
<1>5. Visited(n) \cap Leaf \subseteq DOMAIN ConnectGraphs(n)
  <2> SUFFICES ASSUME NEW j \in Visited(n) \cap Leaf PROVE j \in DOMAIN ConnectGraphs(n)
    OBVIOUS
  <2>1. j \in prepared
    <3>1. j \in Created /\ j \notin Box
      BY VisitedRules, DelayablesAssumption
    <3> QED
      BY <3>1 DEF Created
  <2>2. j \in DOMAIN graph[j] /\ TailJobs(j) = {j}
    BY <2>1, GraphRules, OwnRules, EndsUnfold DEF Node, Objects
  <2> QED
    BY <2>2, ConnectGraphsUnfold
<1>6. ASSUME NEW j \in DOMAIN ConnectGraphs(n), NEW c \in ConnectGraphs(n)[j]
      PROVE  c \in Visited(n) \cap Leaf
  <2>1. PICK m \in Visited(n) : \E v \in DOMAIN graph[m] : \E w \in graph[m][v] : c \in HeadJobs(w)
    BY ConnectGraphsUnfold
  <2>2. PICK v \in DOMAIN graph[m] : \E w \in graph[m][v] : c \in HeadJobs(w)
    BY <2>1
  <2>3. PICK w \in graph[m][v] : c \in HeadJobs(w)
    BY <2>2
  <2>4. m \in Node
    BY <1>1, VisitedRules
  <2>5. w \in DOMAIN graph[m]
    <3>1. <<v, w>> \in Steps(m) \/ (v \in Feet(m) /\ w \in After(m))
      BY <2>2, <2>3, <2>4, GraphRules
    <3>2. <<v, w>> \in Steps(m) => w \in Own(m)
      BY <2>4, OwnRules
    <3> QED
      BY <2>4, <3>1, <3>2, GraphRules
  <2> QED
    BY <2>3, <2>5, <1>3, VisitedRules
<1> QED
  BY <1>4, <1>5, <1>6

(* What is in order by the chains and by what is connected.                 *)
LEMMA OrderedRules ==
  ASSUME NEW S, NEW e
  PROVE  e \in Ordered(S) <=>
           \/ \E b \in S \cap Box : kind[b] = "chain" /\ e \in Consecutive(members[b])
           \/ e \in connected /\ e[1] \in S
<1> DEFINE A == UNION {Consecutive(members[b]) : b \in {c \in S \cap Box : kind[c] = "chain"}}
           B == {d \in connected : d[1] \in S}
<1>1. e \in A
        <=> \E b \in S \cap Box : kind[b] = "chain" /\ e \in Consecutive(members[b])
  OBVIOUS
<1>2. e \in B <=> e \in connected /\ e[1] \in S
  OBVIOUS
<1>3. Ordered(S) = B \cup A
  BY Zenon DEF Ordered
<1> HIDE DEF A, B
<1> QED
  BY <1>1, <1>2, <1>3

(* An edge is between jobs of objects that are in order.                    *)
LEMMA EdgesInOrder ==
  ASSUME Objects, NEW n \in Created, NEW j \in DOMAIN ConnectGraphs(n),
         NEW c \in ConnectGraphs(n)[j]
  PROVE  \E e \in Ordered(Visited(n)) : j \in Jobs(e[1]) /\ c \in Jobs(e[2])
<1>1. PICK m \in Visited(n) : \E v \in DOMAIN graph[m] : \E w \in graph[m][v] :
        j \in TailJobs(v) /\ c \in HeadJobs(w)
  BY ConnectGraphsUnfold
<1>2. PICK v \in DOMAIN graph[m] : \E w \in graph[m][v] : j \in TailJobs(v) /\ c \in HeadJobs(w)
  BY <1>1
<1>3. PICK w \in graph[m][v] : j \in TailJobs(v) /\ c \in HeadJobs(w)
  BY <1>2
<1>4. m \in Node /\ m \in Created /\ v \in Node
  <2>1. Created \subseteq Node
    BY DEF Created, Node, Objects, ObjectsTypeOK
  <2>2. m \in Created /\ v \in Visited(n)
    BY VisitedRules
  <2> QED
    BY <2>1, <2>2, VisitedRules
<1>5. w \in Node /\ (<<v, w>> \in Steps(m) \/ (v \in Feet(m) /\ w \in After(m)))
  BY <1>4, <1>2, <1>3, GraphRules
<1>6. j \in Jobs(v) /\ c \in Jobs(w)
  BY <1>3, <1>4, <1>5, EndsInside
<1>7. CASE <<v, w>> \in Steps(m)
  <2>1. m \in Visited(n) \cap Box /\ kind[m] = "chain" /\ <<v, w>> \in Consecutive(members[m])
    BY <1>4, <1>7 DEF Steps, Node
  <2>2. <<v, w>> \in Ordered(Visited(n))
    BY <2>1 DEF Ordered
  <2> QED
    BY <1>6, <2>2
<1>8. CASE v \in Feet(m) /\ w \in After(m)
  <2>1. <<m, w>> \in connected /\ <<m, w>>[1] \in Visited(n)
    BY <1>8 DEF After
  <2>4. <<m, w>> \in Ordered(Visited(n))
    BY <2>1, OrderedRules
  <2>2. Jobs(v) \subseteq Jobs(m)
    BY <1>4, <1>8, OwnRules
  <2> QED
    BY <1>6, <2>2, <2>4
<1> QED
  BY <1>5, <1>7, <1>8

-----------------------------------------------------------------------------
(* Plain shapes: the graph of jobs asks for what was asked for.             *)

(* The job a comes before b, or is b, in the graph of n.                    *)
Before(n, a, b) == <<a, b>> \in Closure(Edges(ConnectGraphs(n)))

UpTo(n, a, b) == a = b \/ Before(n, a, b)

LEMMA BeforeRules ==
  ASSUME Objects, NEW n \in Created
  PROVE  /\ Edges(ConnectGraphs(n)) \in Relations
         /\ \A a, b, c \in Leaf : UpTo(n, a, b) /\ UpTo(n, b, c) => UpTo(n, a, c)
         /\ \A a, b, c \in Leaf : UpTo(n, a, b) /\ Before(n, b, c) => Before(n, a, c)
         /\ \A a, b, c \in Leaf : Before(n, a, b) /\ UpTo(n, b, c) => Before(n, a, c)
<1>1. Edges(ConnectGraphs(n)) \in Relations
  <2>1. DOMAIN ConnectGraphs(n) \subseteq Leaf
    BY ConnectGraphsType
  <2> QED
    BY <2>1 DEF Edges, Relations
<1>2. IsTransitive(Closure(Edges(ConnectGraphs(n))))
  BY <1>1, ClosureContains
<1>3. \A a, b, c \in Leaf : Before(n, a, b) /\ Before(n, b, c) => Before(n, a, c)
  BY <1>2 DEF IsTransitive, Before
<1> QED
  BY <1>1, <1>3 DEF UpTo

(* The tails of a vertex come before the heads of its neighbours.           *)
LEMMA NeighboursBefore ==
  ASSUME Objects, NEW n \in Created, NEW m \in Visited(n),
         NEW v \in DOMAIN graph[m], NEW w \in graph[m][v],
         NEW t \in TailJobs(v), NEW h \in HeadJobs(w)
  PROVE  Before(n, t, h)
<1>1. t \in DOMAIN ConnectGraphs(n)
  BY ConnectGraphsUnfold
<1>2. h \in ConnectGraphs(n)[t]
  BY <1>1, ConnectGraphsUnfold
<1>3. h \in DOMAIN ConnectGraphs(n)
  BY <1>1, <1>2, ConnectGraphsType
<1>4. <<t, h>> \in Edges(ConnectGraphs(n))
  BY <1>1, <1>2, <1>3 DEF Edges
<1>5. Edges(ConnectGraphs(n)) \subseteq Closure(Edges(ConnectGraphs(n)))
  BY BeforeRules, ClosureContains
<1> QED
  BY <1>4, <1>5 DEF Before

LEMMA InsideRules ==
  ASSUME ObjectsTypeOK
  PROVE  /\ \A n \in Node : n \in Inside(n)
         /\ \A b \in Box : \A m \in Range(members[b]) : Inside(m) \subseteq Inside(b)
<1>1. Below \in [Node -> SUBSET Node]
  BY BelowType
<1>2. \A n : Inside(n) = Reachable(Below, n)
  BY DEF Inside, Below
<1>3. \A n \in Node : Inside(n) = {n} \cup UNION {Inside(v) : v \in Below[n]}
  BY <1>1, <1>2, ReachableUnfold
<1>4. \A b \in Box : b \in Node /\ Below[b] = Range(members[b])
  BY DelayablesAssumption DEF Below, Node
<1> QED
  BY <1>3, <1>4

(* An object whose chains are of one job each is all head and all tail.     *)
LEMMA FlatEnds ==
  ASSUME Objects, NEW n \in Created, Plain(Visited(n))
  PROVE  \A m \in Visited(n) : Flat(m) => HeadJobs(m) = Jobs(m) /\ TailJobs(m) = Jobs(m)
<1> DEFINE P == {m \in Node : m \in Visited(n) /\ Flat(m) =>
                                HeadJobs(m) = Jobs(m) /\ TailJobs(m) = Jobs(m)}
<1>1. ASSUME NEW m \in Node, Below[m] \subseteq P, m \in Visited(n), Flat(m)
      PROVE  HeadJobs(m) = Jobs(m) /\ TailJobs(m) = Jobs(m)
  <2>1. CASE m \in Leaf
    BY <2>1, EndsUnfold, JobsUnfold DEF Objects
  <2>2. CASE m \notin Leaf
    <3>1. m \in Box /\ members[m] \in Seq(Node) /\ Below[m] = Range(members[m])
      BY <2>2 DEF Node, Below, Objects, ObjectsTypeOK
    <3>2. Range(members[m]) \subseteq Visited(n)
      BY <1>1, <2>2, VisitedRules, OwnRules
    <3>3. \A x \in Range(members[m]) : Flat(x)
      <4>1. \A x \in Range(members[m]) : Inside(x) \subseteq Inside(m)
        BY <3>1, InsideRules DEF Objects
      <4> QED
        BY <1>1, <4>1 DEF Flat
    <3>4. \A x \in Range(members[m]) : HeadJobs(x) = Jobs(x) /\ TailJobs(x) = Jobs(x)
      BY <1>1, <3>1, <3>2, <3>3
    <3>5. Jobs(m) = UNION {Jobs(x) : x \in Range(members[m])}
      BY <3>1, JobsUnfold DEF Objects
    <3>6. CASE kind[m] # "chain"
      <4>1. /\ HeadJobs(m) = UNION {HeadJobs(x) : x \in Range(members[m])}
            /\ TailJobs(m) = UNION {TailJobs(x) : x \in Range(members[m])}
        BY <3>1, <3>6, EndsUnfold DEF Objects
      <4> QED
        BY <3>4, <3>5, <4>1
    <3>7. CASE kind[m] = "chain"
      <4>1. /\ HeadJobs(m) = TailJobs(Head(members[m]))
            /\ TailJobs(m) = HeadJobs(Last(members[m]))
        BY <3>1, <3>7, EndsUnfold DEF Objects
      <4>2. Head(members[m]) \in Range(members[m]) /\ Last(members[m]) \in Range(members[m])
        BY <3>1, <3>7, EndsOfSeq DEF Objects, MembersInv
      <4>3. PICK j : Jobs(m) = {j}
        <5>1. Cardinality(Jobs(m)) = 1
          BY <1>1, <3>1, <3>7, InsideRules DEF Flat, Objects
        <5>2. IsFiniteSet(Jobs(m))
          BY JobsType, FS_Subset, DelayablesAssumption
        <5> QED
          BY <5>1, <5>2, FS_Singleton
      <4>4. \A x \in Range(members[m]) : Jobs(x) = {j}
        <5>1. \A x \in Range(members[m]) : Jobs(x) # {}
          <6> SUFFICES ASSUME NEW x \in Range(members[m]) PROVE Jobs(x) # {}
            OBVIOUS
          <6>1. x \in Visited(n) /\ x \in Node
            BY <3>1, <3>2, RangeType
          <6>2. CASE x \in Leaf
            BY <6>2, JobsUnfold DEF Objects
          <6>3. CASE x \in Box
            BY <6>1, <6>3 DEF Plain
          <6> QED
            BY <6>1, <6>2, <6>3 DEF Node
        <5> QED
          BY <3>5, <4>3, <5>1
      <4> QED
        BY <3>4, <4>1, <4>2, <4>3, <4>4
    <3> QED
      BY <3>6, <3>7
  <2> QED
    BY <2>1, <2>2
<1>2. P \in SUBSET Node /\ \A m \in Node : Below[m] \subseteq P => m \in P
  BY <1>1
<1>3. P = Node
  <2> HIDE DEF P
  <2> QED
    BY <1>2, MembersFirst DEF Objects
<1>4. Visited(n) \subseteq Node
  BY VisitedRules DEF Created, Node, Objects, ObjectsTypeOK
<1> QED
  BY <1>3, <1>4

(* Nothing is empty, and an object that stands where it is is made of       *)
(* members that do; such a chain begins with all of its first member and    *)
(* ends with all of its last one.                                           *)
LEMMA PlainRules ==
  ASSUME Objects, NEW n \in Created, Plain(Visited(n)), NEW m \in Visited(n)
  PROVE  /\ m \in Node /\ Jobs(m) # {} /\ Jobs(m) \subseteq Leaf
         /\ \A v \in DOMAIN graph[m] : \A w \in graph[m][v] : TailStands(v) /\ HeadStands(w)
         /\ m \in Box =>
              /\ m \notin Leaf /\ members[m] \in Seq(Node)
              /\ Range(members[m]) \subseteq Visited(n)
              /\ \A x \in Range(members[m]) : /\ HeadStands(m) => HeadStands(x)
                                              /\ TailStands(m) => TailStands(x)
              /\ kind[m] = "chain" =>
                   /\ HeadStands(m) => HeadJobs(m) = Jobs(Head(members[m]))
                   /\ TailStands(m) => TailJobs(m) = Jobs(Last(members[m]))
<1>1. m \in Node /\ Jobs(m) \subseteq Leaf
  BY VisitedRules, JobsType DEF Created, Node, Objects, ObjectsTypeOK
<1>2. Jobs(m) # {}
  <2>1. CASE m \in Leaf
    BY <2>1, JobsUnfold DEF Objects
  <2>2. CASE m \in Box
    BY <2>2 DEF Plain
  <2> QED
    BY <1>1, <2>1, <2>2 DEF Node
<1>3. \A v \in DOMAIN graph[m] : \A w \in graph[m][v] : TailStands(v) /\ HeadStands(w)
  BY DEF Plain
<1>4. ASSUME m \in Box
      PROVE  /\ m \notin Leaf /\ members[m] \in Seq(Node)
             /\ Range(members[m]) \subseteq Visited(n)
             /\ \A x \in Range(members[m]) : /\ HeadStands(m) => HeadStands(x)
                                             /\ TailStands(m) => TailStands(x)
             /\ kind[m] = "chain" =>
                  /\ HeadStands(m) => HeadJobs(m) = Jobs(Head(members[m]))
                  /\ TailStands(m) => TailJobs(m) = Jobs(Last(members[m]))
  <2>1. m \notin Leaf /\ members[m] \in Seq(Node)
    BY <1>4, DelayablesAssumption DEF Objects, ObjectsTypeOK
  <2>2. Range(members[m]) \subseteq Visited(n)
    BY <1>1, <2>1, VisitedRules, OwnRules
  <2>3. m \in Inside(m) /\ \A x \in Range(members[m]) : Inside(x) \subseteq Inside(m)
    BY <1>1, <1>4, InsideRules DEF Objects
  <2>4. \A x \in Range(members[m]) : /\ HeadStands(m) => HeadStands(x)
                                     /\ TailStands(m) => TailStands(x)
    BY <2>3 DEF HeadStands, TailStands
  <2>5. ASSUME kind[m] = "chain"
        PROVE  /\ HeadStands(m) => HeadJobs(m) = Jobs(Head(members[m]))
               /\ TailStands(m) => TailJobs(m) = Jobs(Last(members[m]))
    <3>1. Head(members[m]) \in Visited(n) /\ Last(members[m]) \in Visited(n)
      BY <2>1, <2>2, <2>5, <1>4, EndsOfSeq DEF Objects, MembersInv
    <3>2. /\ HeadStands(m) => Flat(Head(members[m]))
          /\ TailStands(m) => Flat(Last(members[m]))
      BY <1>4, <2>3, <2>5 DEF HeadStands, TailStands
    <3>3. /\ HeadStands(m) => TailJobs(Head(members[m])) = Jobs(Head(members[m]))
          /\ TailStands(m) => HeadJobs(Last(members[m])) = Jobs(Last(members[m]))
      BY <3>1, <3>2, FlatEnds
    <3>4. /\ HeadJobs(m) = TailJobs(Head(members[m]))
          /\ TailJobs(m) = HeadJobs(Last(members[m]))
      BY <1>4, <2>1, <2>5, EndsUnfold DEF Objects
    <3> QED
      BY <3>3, <3>4
  <2> QED
    BY <2>1, <2>2, <2>4, <2>5
<1> QED
  BY <1>1, <1>2, <1>3, <1>4

(* Where an object stands, every job of it comes before one of its tails,   *)
(* and after one of its heads.                                              *)
TailSpread(n, m) == \A a \in Jobs(m) : \E t \in TailJobs(m) : UpTo(n, a, t)

HeadSpread(n, m) == \A a \in Jobs(m) : \E h \in HeadJobs(m) : UpTo(n, h, a)

Spread(n, m) == /\ TailStands(m) => TailSpread(n, m)
                /\ HeadStands(m) => HeadSpread(n, m)

(* Within a chain that goes from member to member.                          *)
LEMMA ChainNext ==
  ASSUME Objects, NEW n \in Created, Plain(Visited(n)), NEW m \in Visited(n) \cap Box,
         kind[m] = "chain", \A x \in Range(members[m]) : Spread(n, x),
         NEW i \in 1..(Len(members[m]) - 1)
  PROVE  /\ \A a \in Jobs(members[m][i]) : \E b \in Jobs(members[m][i + 1]) : Before(n, a, b)
         /\ \A b \in Jobs(members[m][i + 1]) : \E a \in Jobs(members[m][i]) : Before(n, a, b)
<1> DEFINE x == members[m][i]
           y == members[m][i + 1]
<1>1. m \in Node /\ m \notin Leaf /\ members[m] \in Seq(Node)
  BY DelayablesAssumption DEF Objects, ObjectsTypeOK, Node
<1>2. i \in 1..Len(members[m]) /\ i + 1 \in 1..Len(members[m])
  BY <1>1
<1>3. x \in Range(members[m]) /\ y \in Range(members[m]) /\ x \in Node /\ y \in Node
  BY <1>1, <1>2, InRange
<1>4. Range(members[m]) \subseteq Visited(n)
  BY <1>1, VisitedRules, OwnRules
<1>5. <<x, y>> \in Steps(m)
  BY <1>1 DEF Steps, Consecutive
<1>6. x \in DOMAIN graph[m] /\ y \in graph[m][x]
  BY <1>1, <1>3, <1>5, GraphRules, OwnRules
<1>7. /\ Jobs(x) # {} /\ Jobs(y) # {} /\ TailStands(x) /\ HeadStands(y)
      /\ Spread(n, x) /\ Spread(n, y)
  BY <1>3, <1>4, <1>6, PlainRules
<1>8. /\ TailJobs(x) \subseteq Jobs(x) /\ HeadJobs(y) \subseteq Jobs(y)
      /\ Jobs(x) \subseteq Leaf /\ Jobs(y) \subseteq Leaf
  BY <1>3, EndsInside, JobsType
<1> HIDE DEF x, y
<1>9. \A t \in TailJobs(x) : \A h \in HeadJobs(y) : Before(n, t, h)
  BY <1>6, NeighboursBefore
<1>14. TailSpread(n, x) /\ HeadSpread(n, y)
  BY <1>7 DEF Spread
<1>10. PICK t0 \in TailJobs(x) : TRUE
  BY <1>7, <1>14 DEF TailSpread
<1>11. PICK h0 \in HeadJobs(y) : TRUE
  BY <1>7, <1>14 DEF HeadSpread
<1>12. ASSUME NEW a \in Jobs(x) PROVE \E b \in Jobs(y) : Before(n, a, b)
  <2>1. PICK t \in TailJobs(x) : UpTo(n, a, t)
    BY <1>14 DEF TailSpread
  <2>2. Before(n, t, h0)
    BY <1>9, <1>11
  <2>3. Before(n, a, h0)
    BY <1>8, <1>11, <2>1, <2>2, BeforeRules
  <2> QED
    BY <1>8, <1>11, <2>3
<1>13. ASSUME NEW b \in Jobs(y) PROVE \E a \in Jobs(x) : Before(n, a, b)
  <2>1. PICK h \in HeadJobs(y) : UpTo(n, h, b)
    BY <1>14 DEF HeadSpread
  <2>2. Before(n, t0, h)
    BY <1>9, <1>10
  <2>3. Before(n, t0, b)
    BY <1>8, <1>10, <2>1, <2>2, BeforeRules
  <2> QED
    BY <1>8, <1>10, <2>3
<1> QED
  BY <1>12, <1>13 DEF x, y

(* What is after all of the last member, or before all of the first one, is *)
(* after or before all of the chain.                                        *)
LEMMA ChainSpread ==
  ASSUME Objects, NEW n \in Created, Plain(Visited(n)), NEW m \in Visited(n) \cap Box,
         kind[m] = "chain", \A x \in Range(members[m]) : Spread(n, x), NEW S \in SUBSET Leaf
  PROVE  /\ (\A a \in Jobs(Last(members[m])) : \E t \in S : UpTo(n, a, t))
              => \A a \in Jobs(m) : \E t \in S : UpTo(n, a, t)
         /\ (\A a \in Jobs(Head(members[m])) : \E h \in S : UpTo(n, h, a))
              => \A a \in Jobs(m) : \E h \in S : UpTo(n, h, a)
<1> DEFINE s == members[m]
           Falls(i) == \A a \in Jobs(s[i]) : \E t \in S : UpTo(n, a, t)
           Rises(i) == \A a \in Jobs(s[i]) : \E h \in S : UpTo(n, h, a)
<1>1. m \in Node /\ m \notin Leaf /\ s \in Seq(Node)
  BY DelayablesAssumption DEF Objects, ObjectsTypeOK, Node
<1>2. s # <<>> /\ Head(s) = s[1] /\ Last(s) = s[Len(s)] /\ Len(s) \in Nat \ {0}
  BY <1>1, EndsOfSeq DEF Objects, MembersInv
<1>3. \A i \in 1..Len(s) : Jobs(s[i]) \subseteq Leaf
  BY JobsType
<1>7. ASSUME NEW i \in 1..(Len(s) - 1)
      PROVE  (Falls(i + 1) => Falls(i)) /\ (Rises(i) => Rises(i + 1))
  <2>1. /\ \A a \in Jobs(s[i]) : \E b \in Jobs(s[i + 1]) : Before(n, a, b)
        /\ \A b \in Jobs(s[i + 1]) : \E a \in Jobs(s[i]) : Before(n, a, b)
    BY ChainNext
  <2>2. i \in 1..Len(s) /\ i + 1 \in 1..Len(s)
    BY <1>2
  <2>3. Jobs(s[i]) \subseteq Leaf /\ Jobs(s[i + 1]) \subseteq Leaf
    BY JobsType
  <2>4. ASSUME Falls(i + 1), NEW a \in Jobs(s[i]) PROVE \E t \in S : UpTo(n, a, t)
    <3>1. PICK b \in Jobs(s[i + 1]) : Before(n, a, b)
      BY <2>1
    <3>2. PICK t \in S : UpTo(n, b, t)
      BY <2>4
    <3>3. Before(n, a, t)
      BY <2>3, <3>1, <3>2, BeforeRules
    <3> QED
      BY <3>3 DEF UpTo
  <2>5. ASSUME Rises(i), NEW b \in Jobs(s[i + 1]) PROVE \E h \in S : UpTo(n, h, b)
    <3>1. PICK a \in Jobs(s[i]) : Before(n, a, b)
      BY <2>1
    <3>2. PICK h \in S : UpTo(n, h, a)
      BY <2>5
    <3>3. Before(n, h, b)
      BY <2>3, <3>1, <3>2, BeforeRules
    <3> QED
      BY <3>3 DEF UpTo
  <2> QED
    BY <2>4, <2>5
<1> HIDE DEF Falls, Rises
<1>8. ASSUME Falls(Len(s)) PROVE \A i \in 1..Len(s) : Falls(i)
  <2> DEFINE bad == {k \in 0..(Len(s) - 1) : ~ Falls(Len(s) - k)}
  <2>1. bad = {}
    <3> SUFFICES ASSUME bad # {} PROVE FALSE
      OBVIOUS
    <3>1. bad \in SUBSET Nat
      BY <1>2
    <3>2. PICK k \in bad : \A y \in bad : k <= y
      <4> HIDE DEF bad
      <4> QED
        BY <3>1, LeastNatural
    <3>3. k # 0
      BY <1>2, <1>8
    <3>4. k - 1 \in 0..(Len(s) - 1) /\ k - 1 \notin bad
      <4>1. k \in 0..(Len(s) - 1)
        OBVIOUS
      <4>2. k - 1 \in 0..(Len(s) - 1) /\ ~ (k <= k - 1)
        BY <1>2, <3>3, <4>1
      <4> QED
        BY <3>2, <4>2, Zenon
    <3>5. Len(s) - (k - 1) = (Len(s) - k) + 1 /\ Len(s) - k \in 1..(Len(s) - 1)
      BY <1>2, <3>2, <3>3
    <3>6. Falls((Len(s) - k) + 1)
      BY <3>4, <3>5
    <3> QED
      BY <1>7, <3>2, <3>5, <3>6
  <2> SUFFICES ASSUME NEW i \in 1..Len(s) PROVE Falls(i)
    OBVIOUS
  <2>2. Len(s) - i \in 0..(Len(s) - 1) /\ Len(s) - (Len(s) - i) = i
    BY <1>2
  <2> QED
    BY <2>1, <2>2
<1>9. ASSUME Rises(1) PROVE \A i \in 1..Len(s) : Rises(i)
  <2> DEFINE bad == {k \in 1..Len(s) : ~ Rises(k)}
  <2>1. bad = {}
    <3> SUFFICES ASSUME bad # {} PROVE FALSE
      OBVIOUS
    <3>1. bad \in SUBSET Nat
      BY <1>2
    <3>2. PICK k \in bad : \A y \in bad : k <= y
      <4> HIDE DEF bad
      <4> QED
        BY <3>1, LeastNatural
    <3>3. k # 1
      BY <1>9, <3>2
    <3>4. k - 1 \in 1..(Len(s) - 1) /\ k - 1 \notin bad /\ (k - 1) + 1 = k
      BY <1>2, <3>2, <3>3
    <3>5. Rises(k - 1)
      BY <1>2, <3>4
    <3> QED
      BY <1>7, <3>2, <3>4, <3>5
  <2> QED
    BY <2>1
<1>10. ASSUME NEW a \in Jobs(m) PROVE \E i \in 1..Len(s) : a \in Jobs(s[i])
  <2>1. PICK x \in Range(s) : a \in Jobs(x)
    BY JobsUnfold DEF Objects
  <2>2. PICK i \in 1..Len(s) : x = s[i]
    BY <1>1, InRange
  <2> QED
    BY <2>1, <2>2
<1>11. ASSUME Falls(Len(s)), NEW a \in Jobs(m) PROVE \E t \in S : UpTo(n, a, t)
  BY <1>8, <1>10, <1>11 DEF Falls
<1>12. ASSUME Rises(1), NEW a \in Jobs(m) PROVE \E h \in S : UpTo(n, h, a)
  BY <1>9, <1>10, <1>12 DEF Rises
<1>13. /\ (\A a \in Jobs(Last(s)) : \E t \in S : UpTo(n, a, t)) => Falls(Len(s))
       /\ (\A a \in Jobs(Head(s)) : \E h \in S : UpTo(n, h, a)) => Rises(1)
  BY <1>2 DEF Falls, Rises
<1> QED
  BY <1>11, <1>12, <1>13

LEMMA AllSpread ==
  ASSUME Objects, NEW n \in Created, Plain(Visited(n))
  PROVE  \A m \in Visited(n) : Spread(n, m)
<1> DEFINE P == {m \in Node : m \in Visited(n) => Spread(n, m)}
<1>1. ASSUME NEW m \in Node, Below[m] \subseteq P, m \in Visited(n)
      PROVE  Spread(n, m)
  <2>1. CASE m \in Leaf
    BY <2>1, EndsUnfold, JobsUnfold DEF Objects, Spread, TailSpread, HeadSpread, UpTo
  <2>2. CASE m \notin Leaf
    <3>1. m \in Box /\ members[m] \in Seq(Node) /\ Below[m] = Range(members[m])
      BY <2>2 DEF Node, Below, Objects, ObjectsTypeOK
    <3>2. Range(members[m]) \subseteq Visited(n)
      BY <1>1, <3>1, PlainRules
    <3>3. \A x \in Range(members[m]) : Spread(n, x)
      BY <1>1, <3>1, <3>2
    <3>4. CASE kind[m] # "chain"
      <4>1. /\ HeadJobs(m) = UNION {HeadJobs(x) : x \in Range(members[m])}
            /\ TailJobs(m) = UNION {TailJobs(x) : x \in Range(members[m])}
        BY <3>1, <3>4, EndsUnfold DEF Objects
      <4>2. ASSUME NEW a \in Jobs(m)
            PROVE  /\ TailStands(m) => \E t \in TailJobs(m) : UpTo(n, a, t)
                   /\ HeadStands(m) => \E h \in HeadJobs(m) : UpTo(n, h, a)
        <5>1. PICK x \in Range(members[m]) : a \in Jobs(x)
          BY <3>1, JobsUnfold DEF Objects
        <5>2. (TailStands(m) => TailStands(x)) /\ (HeadStands(m) => HeadStands(x))
          BY <1>1, <3>1, <5>1, PlainRules
        <5>3. /\ TailStands(m) => \E t \in TailJobs(x) : UpTo(n, a, t)
              /\ HeadStands(m) => \E h \in HeadJobs(x) : UpTo(n, h, a)
          BY <3>3, <5>1, <5>2 DEF Spread, TailSpread, HeadSpread
        <5> QED
          BY <4>1, <5>3
      <4> QED
        BY <4>2 DEF Spread, TailSpread, HeadSpread
    <3>5. CASE kind[m] = "chain"
      <4>1. ASSUME TailStands(m) PROVE TailSpread(n, m)
        <5>1. TailJobs(m) = Jobs(Last(members[m])) /\ TailJobs(m) \subseteq Leaf
          BY <1>1, <3>1, <3>5, <4>1, PlainRules, JobsType
        <5>2. \A a \in Jobs(Last(members[m])) : \E t \in TailJobs(m) : UpTo(n, a, t)
          BY <5>1 DEF UpTo
        <5> QED
          BY <1>1, <3>1, <3>3, <3>5, <5>1, <5>2, ChainSpread DEF TailSpread
      <4>2. ASSUME HeadStands(m) PROVE HeadSpread(n, m)
        <5>1. HeadJobs(m) = Jobs(Head(members[m])) /\ HeadJobs(m) \subseteq Leaf
          BY <1>1, <3>1, <3>5, <4>2, PlainRules, JobsType
        <5>2. \A a \in Jobs(Head(members[m])) : \E h \in HeadJobs(m) : UpTo(n, h, a)
          BY <5>1 DEF UpTo
        <5> QED
          BY <1>1, <3>1, <3>3, <3>5, <5>1, <5>2, ChainSpread DEF HeadSpread
      <4> QED
        BY <4>1, <4>2 DEF Spread
    <3> QED
      BY <3>4, <3>5
  <2> QED
    BY <2>1, <2>2
<1>2. P \in SUBSET Node /\ \A m \in Node : Below[m] \subseteq P => m \in P
  BY <1>1
<1>3. P = Node
  <2> HIDE DEF P
  <2> QED
    BY <1>2, MembersFirst DEF Objects
<1>4. Visited(n) \subseteq Node
  BY VisitedRules DEF Created, Node, Objects, ObjectsTypeOK
<1> QED
  BY <1>3, <1>4

(* Which jobs are asked to come before which, before the closure.           *)
Asked(order) == UNION {Jobs(e[1]) \X Jobs(e[2]) : e \in order}

LEMMA AskedRules ==
  ASSUME NEW order
  PROVE  /\ Asked(order) \in Relations
         /\ JobOrder(order) = Closure(Asked(order))
         /\ \A a, c : <<a, c>> \in Asked(order)
                        <=> \E e \in order : a \in Jobs(e[1]) /\ c \in Jobs(e[2])
<1>1. Asked(order) \in Relations
  BY JobsType DEF Asked, Relations
<1>2. JobOrder(order) = Closure(Asked(order))
  BY DEF JobOrder, Asked
<1>3. ASSUME NEW a, NEW c
      PROVE  <<a, c>> \in Asked(order)
               <=> \E e \in order : a \in Jobs(e[1]) /\ c \in Jobs(e[2])
  <2>1. <<a, c>> \in Asked(order) <=> \E e \in order : <<a, c>> \in Jobs(e[1]) \X Jobs(e[2])
    BY Zenon DEF Asked
  <2>2. \A e : <<a, c>> \in Jobs(e[1]) \X Jobs(e[2]) <=> a \in Jobs(e[1]) /\ c \in Jobs(e[2])
    OBVIOUS
  <2> QED
    BY <2>1, <2>2, Zenon
<1> QED
  BY <1>1, <1>2, <1>3

(* What comes before a vertex comes before all of its neighbours.           *)
LEMMA LinkBefore ==
  ASSUME Objects, NEW n \in Created, Plain(Visited(n)), NEW m \in Visited(n),
         NEW v \in DOMAIN graph[m], NEW w \in graph[m][v], w \in Visited(n),
         NEW t \in TailJobs(v), NEW a \in Leaf, UpTo(n, a, t), NEW c \in Jobs(w)
  PROVE  Before(n, a, c)
<1>1. Visited(n) \subseteq Node /\ v \in Visited(n)
  BY VisitedRules DEF Created, Node, Objects, ObjectsTypeOK
<1>2. PICK h \in HeadJobs(w) : UpTo(n, h, c)
  BY AllSpread DEF Plain, Spread, HeadSpread
<1>3. Before(n, t, h)
  BY NeighboursBefore
<1>4. t \in Leaf /\ h \in Leaf /\ c \in Leaf
  BY <1>1, <1>2, EndsInside, JobsType
<1> QED
  BY <1>2, <1>3, <1>4, BeforeRules

LEMMA OrderBefore ==
  ASSUME Objects, NEW n \in Created, Plain(Visited(n)), NEW e \in Ordered(Visited(n)),
         NEW a \in Jobs(e[1]), NEW c \in Jobs(e[2])
  PROVE  Before(n, a, c)
<1>1. a \in Leaf /\ c \in Leaf /\ Visited(n) \subseteq Node /\ Visited(n) \subseteq Created
  BY JobsType, VisitedRules DEF Created, Node, Objects, ObjectsTypeOK
<1>2. ASSUME NEW m \in Visited(n) \cap Box, kind[m] = "chain", e \in Consecutive(members[m])
      PROVE  Before(n, a, c)
  <2>1. m \in Node /\ m \notin Leaf /\ members[m] \in Seq(Node)
    BY DelayablesAssumption DEF Objects, ObjectsTypeOK, Node
  <2>2. PICK x, y : e = <<x, y>> /\ <<x, y>> \in Steps(m)
    BY <1>2, <2>1 DEF Steps, Consecutive
  <2>3. x \in Own(m) /\ y \in Own(m) /\ y \in Node
    BY <1>1, <2>1, <2>2, OwnRules DEF Created, Node, Objects, ObjectsTypeOK
  <2>4. x \in DOMAIN graph[m] /\ y \in graph[m][x] /\ x \in Visited(n) /\ y \in Visited(n)
    BY <2>1, <2>2, <2>3, GraphRules, VisitedRules
  <2>5. a \in Jobs(x) /\ c \in Jobs(y)
    BY <2>2
  <2>6. PICK t \in TailJobs(x) : UpTo(n, a, t)
    BY <2>4, <2>5, AllSpread DEF Plain, Spread, TailSpread
  <2> QED
    BY <1>1, <2>4, <2>5, <2>6, LinkBefore
<1>3. ASSUME NEW m \in Visited(n), NEW w, e = <<m, w>>, e \in connected PROVE Before(n, a, c)
  <2>1. m \in Node /\ m \in Created /\ w \in Created /\ w \in Node /\ w \in After(m)
    BY <1>1, <1>3 DEF After, Objects, ObjectsTypeOK, Created, Node
  <2>2. a \in Jobs(m) /\ c \in Jobs(w)
    BY <1>3
  <2>3. ASSUME NEW v \in Feet(m)
        PROVE  v \in DOMAIN graph[m] /\ w \in DOMAIN graph[m] /\ w \in graph[m][v]
    <3>1. v \in Own(m)
      BY <2>1, OwnRules
    <3> QED
      BY <2>1, <3>1, GraphRules
  <2>4. ASSUME NEW v \in Feet(m) PROVE v \in Visited(n) /\ TailSpread(n, v)
    <3>1. TailStands(v) /\ v \in Visited(n)
      BY <1>3, <2>3, VisitedRules DEF Plain
    <3> QED
      BY <3>1, AllSpread DEF Spread
  <2>5. PICK v \in Feet(m) : \E t \in TailJobs(v) : UpTo(n, a, t)
    <3>1. CASE m \in Leaf
      BY <2>2, <3>1, EndsUnfold, JobsUnfold DEF Feet, UpTo, Objects
    <3>2. CASE m \in Box /\ m \notin Leaf /\ kind[m] = "chain"
      <4>1. Feet(m) = {Last(members[m])} /\ members[m] \in Seq(Node)
        BY <3>2 DEF Feet, Objects, ObjectsTypeOK
      <4>2. \A x \in Jobs(Last(members[m])) :
              \E t \in TailJobs(Last(members[m])) : UpTo(n, x, t)
        BY <2>4, <4>1 DEF TailSpread
      <4>3. Last(members[m]) \in Node
        BY <1>1, <2>4, <4>1
      <4>4. TailJobs(Last(members[m])) \in SUBSET Leaf
        BY <4>3, EndsInside, JobsType
      <4>5. Range(members[m]) \subseteq Visited(n)
        BY <1>3, <3>2, PlainRules
      <4>6. \A x \in Range(members[m]) : Spread(n, x)
        BY <4>5, AllSpread
      <4>7. m \in Visited(n) \cap Box
        BY <1>3, <3>2
      <4>8. \A x \in Jobs(m) : \E t \in TailJobs(Last(members[m])) : UpTo(n, x, t)
        BY <3>2, <4>2, <4>4, <4>6, <4>7, ChainSpread
      <4> QED
        BY <2>2, <4>1, <4>8
    <3>3. CASE m \in Box /\ m \notin Leaf /\ kind[m] # "chain"
      <4>1. Feet(m) = Range(members[m])
        BY <3>3 DEF Feet
      <4>2. PICK x \in Range(members[m]) : a \in Jobs(x)
        BY <2>2, <3>3, JobsUnfold DEF Objects
      <4> QED
        BY <2>4, <4>1, <4>2 DEF TailSpread
    <3> QED
      BY <2>1, <3>1, <3>2, <3>3 DEF Node
  <2>6. PICK t \in TailJobs(v) : UpTo(n, a, t)
    BY <2>5
  <2>7. w \in Visited(n)
    BY <1>3, <2>3, VisitedRules
  <2> QED
    BY <1>1, <1>3, <2>2, <2>3, <2>6, <2>7, LinkBefore
<1>4. CASE \E b \in Visited(n) \cap Box : kind[b] = "chain" /\ e \in Consecutive(members[b])
  BY <1>2, <1>4
<1>5. CASE e \in connected /\ e[1] \in Visited(n)
  <2>1. e = <<e[1], e[2]>>
    BY <1>5 DEF Objects, ObjectsTypeOK
  <2> QED
    BY <1>3, <1>5, <2>1
<1> QED
  BY <1>4, <1>5, OrderedRules

(* The graph of jobs that is made of plain shapes has, up to transitivity,  *)
(* exactly the edges that the objects ask for (_merge_graph,                *)
(* _connect_graphs, _head and _tail).                                       *)
THEOREM PlainRequired ==
  ASSUME Objects, NEW n \in Created, Plain(Visited(n))
  PROVE  Required(Visited(n)) = Closure(Edges(ConnectGraphs(n)))
<1> DEFINE order == Ordered(Visited(n))
           E == Edges(ConnectGraphs(n))
<1>1. Asked(order) \in Relations /\ E \in Relations
  BY AskedRules, BeforeRules
<1>2. Asked(order) \subseteq Closure(E)
  <2>1. ASSUME NEW a \in Leaf, NEW c \in Leaf, <<a, c>> \in Asked(order)
        PROVE  <<a, c>> \in Closure(E)
    <3>1. PICK e \in order : a \in Jobs(e[1]) /\ c \in Jobs(e[2])
      BY <2>1, AskedRules
    <3> QED
      BY <3>1, OrderBefore DEF Before
  <2> QED
    BY <1>1, <2>1 DEF Relations
<1>3. E \subseteq Closure(Asked(order))
  <2>1. ASSUME NEW j \in Leaf, NEW c \in Leaf, <<j, c>> \in E
        PROVE  <<j, c>> \in Asked(order)
    <3>1. j \in DOMAIN ConnectGraphs(n) /\ c \in ConnectGraphs(n)[j]
      BY <2>1 DEF Edges
    <3> QED
      BY <3>1, EdgesInOrder, AskedRules
  <2>2. E \subseteq Asked(order)
    BY <1>1, <2>1 DEF Relations
  <2> QED
    BY <1>1, <2>2, ClosureContains
<1>4. Closure(Asked(order)) = Closure(E)
  BY <1>1, <1>2, <1>3, ClosureSame
<1> QED
  BY <1>4, AskedRules DEF Required

(* Whatever the shapes, an edge is asked for by the objects.                *)
LEMMA EdgesAsked ==
  ASSUME Objects, NEW n \in Created
  PROVE  Edges(ConnectGraphs(n)) \subseteq Asked(Ordered(Node))
<1>1. Edges(ConnectGraphs(n)) \in Relations /\ Visited(n) \subseteq Node
  BY BeforeRules, VisitedRules DEF Created, Node, Objects, ObjectsTypeOK
<1>2. ASSUME NEW j \in Leaf, NEW c \in Leaf, <<j, c>> \in Edges(ConnectGraphs(n))
      PROVE  <<j, c>> \in Asked(Ordered(Node))
  <2>1. j \in DOMAIN ConnectGraphs(n) /\ c \in ConnectGraphs(n)[j]
    BY <1>2 DEF Edges
  <2>2. PICK e \in Ordered(Visited(n)) : j \in Jobs(e[1]) /\ c \in Jobs(e[2])
    BY <2>1, EdgesInOrder
  <2>3. e \in Ordered(Node)
    BY <1>1, <2>2, OrderedRules
  <2> QED
    BY <2>2, <2>3, AskedRules
<1> QED
  BY <1>1, <1>2 DEF Relations

-----------------------------------------------------------------------------
(* The order that is asked for grows, and never has a cycle.                *)

Links(b) == IF kind[b] = "chain" THEN Consecutive(members[b]) ELSE {}

InOrder ==
  \A e : e \in Ordered(Node) <=> \/ \E b \in Box : e \in Links(b)
                                 \/ e \in connected /\ e[1] \in Node

LEMMA OrderedNode == InOrder
<1>1. \A b \in Box : b \in Node
  BY DEF Node
<1>2. \A b, e : e \in Links(b) <=> kind[b] = "chain" /\ e \in Consecutive(members[b])
  BY DEF Links
<1> QED
  BY <1>1, <1>2, OrderedRules DEF InOrder

(* The jobs of what is there do not change as long as its members do not.   *)
LEMMA JobsKept ==
  ASSUME Objects, members' \in [Box -> Seq(Node)],
         \A b \in Box \cap Created : members'[b] = members[b]
  PROVE  \A n \in Created : Jobs(n)' = Jobs(n) /\ Jobs(n) \subseteq prepared
<1> DEFINE after == [m \in Node |-> IF m \in Leaf THEN {} ELSE Range(members'[m])]
<1>1. \A b \in Box : Range(members'[b]) \in SUBSET Node
  BY RangeType
<1>2. after \in [Node -> SUBSET Node]
  BY <1>1 DEF Node
<1>3. Below \in [Node -> SUBSET Node] /\ Created \in SUBSET Node
  BY BelowType DEF Created, Node, Objects, ObjectsTypeOK
<1>4. \A v \in Created : Below[v] = after[v] /\ Below[v] \subseteq Created
  BY <1>3 DEF Below, Node, Objects, MembersInv
<1>5. Created \cap Leaf \subseteq prepared
  BY DelayablesAssumption DEF Created
<1>6. ASSUME NEW n \in Created
      PROVE  Reachable(Below, n) = Reachable(after, n) /\ Reachable(Below, n) \subseteq Created
  <2> HIDE DEF after
  <2> QED
    BY <1>2, <1>3, <1>4, ReachableSame, ReachableLeast
<1>7. \A n \in Created : Inside(n) = Reachable(Below, n) /\ Inside(n)' = Reachable(after, n)
  BY DEF Inside, Below
<1> QED
  BY <1>5, <1>6, <1>7 DEF Jobs

(* What is in order is there.                                               *)
LEMMA OrderedCreated ==
  ASSUME Objects
  PROVE  \A e \in Ordered(Node) : e[1] \in Created /\ e[2] \in Created
<1>1. ASSUME NEW b \in Box, NEW e \in Links(b) PROVE e[1] \in Created /\ e[2] \in Created
  <2>1. PICK i \in 1..(Len(members[b]) - 1) : e = <<members[b][i], members[b][i + 1]>>
    BY DEF Links, Consecutive
  <2>2. members[b] \in Seq(Node) /\ i \in 1..Len(members[b]) /\ i + 1 \in 1..Len(members[b])
    BY DEF Objects, ObjectsTypeOK
  <2>3. members[b][i] \in Created /\ members[b][i + 1] \in Created
    BY <2>2, InRange DEF Objects, MembersInv
  <2> QED
    BY <2>1, <2>3
<1>2. \A e \in connected : e[1] \in Created /\ e[2] \in Created
  BY DEF Objects, ObjectsTypeOK
<1> QED
  BY <1>1, <1>2, OrderedNode DEF InOrder

(* The same jobs are asked for by the same order.                           *)
LEMMA AskedSame ==
  ASSUME NEW order, \A e \in order : Jobs(e[1])' = Jobs(e[1]) /\ Jobs(e[2])' = Jobs(e[2])
  PROVE  Asked(order)' = Asked(order)
<1>1. \A e \in order : (Jobs(e[1]) \X Jobs(e[2]))' = Jobs(e[1]) \X Jobs(e[2])
  OBVIOUS
<1> QED
  BY <1>1 DEF Asked

LEMMA OrderOfAdds ==
  ASSUME Objects, NEW b \in Box, NEW k, NEW s, NEW F, Adds(b, k, s, F)
  PROVE  /\ Ordered(Node)' = Ordered(Node) \cup (IF k = "chain" THEN Consecutive(s) ELSE {})
         /\ \A n \in Created : Jobs(n)' = Jobs(n) /\ Jobs(n) \subseteq prepared
<1>1. b \notin Created
  BY AddsCreated DEF Objects
<1>2. members' \in [Box -> Seq(Node)] /\ \A c \in Box \cap Created : members'[c] = members[c]
  BY <1>1 DEF Adds, Objects, ObjectsTypeOK
<1>3. \A n \in Created : Jobs(n)' = Jobs(n) /\ Jobs(n) \subseteq prepared
  BY <1>2, JobsKept
<1>4. \A c \in Box \ {b} : Links(c)' = Links(c)
  BY DEF Links, Adds, Objects, ObjectsTypeOK
<1>5. Links(b) = {} /\ Links(b)' = IF k = "chain" THEN Consecutive(s) ELSE {}
  BY DEF Links, Adds, Objects, ObjectsTypeOK
<1>6. \A e : e \in Ordered(Node)' <=> \/ \E c \in Box : e \in Links(c)'
                                      \/ e \in connected /\ e[1] \in Node
  <2>1. InOrder'
    BY OrderedNode, PTL
  <2>2. Node' = Node /\ connected' = connected
    BY DEF Node, Adds
  <2> QED
    BY <2>1, <2>2 DEF InOrder
<1>7. \A e : e \in Ordered(Node)'
               <=> e \in Ordered(Node) \/ e \in (IF k = "chain" THEN Consecutive(s) ELSE {})
  BY <1>4, <1>5, <1>6, OrderedNode DEF InOrder
<1> QED
  BY <1>3, <1>7

Wants == Asked(Ordered(Node))

OrderInv == \A a \in Leaf : <<a, a>> \notin Closure(Wants)

WantsRules == Wants \in Relations /\ JobOrder(Ordered(Node)) = Closure(Wants)

LEMMA WantsType == WantsRules
BY AskedRules DEF Wants, WantsRules

LEMMA AcyclicRules ==
  ASSUME NEW order
  PROVE  Acyclic(order) <=> \A a \in Leaf : <<a, a>> \notin Closure(Asked(order))
<1>1. JobOrder(order) = Closure(Asked(order)) /\ Closure(Asked(order)) \in Relations
  BY AskedRules, ClosureContains
<1>2. \A a : <<a, a>>[1] = a /\ <<a, a>>[2] = a
  OBVIOUS
<1>3. ASSUME NEW e \in JobOrder(order), e[1] = e[2]
      PROVE  \E a \in Leaf : <<a, a>> \in Closure(Asked(order))
  <2>1. e[1] \in Leaf /\ e = <<e[1], e[1]>>
    BY <1>1, <1>3 DEF Relations
  <2> QED
    BY <1>1, <2>1
<1> QED
  BY <1>1, <1>2, <1>3, Zenon DEF Acyclic

(* An order that goes on from what is there, with jobs that do not change.  *)
LEMMA WantsNext ==
  ASSUME NEW order, Ordered(Node)' = order,
         \A e \in order : Jobs(e[1])' = Jobs(e[1]) /\ Jobs(e[2])' = Jobs(e[2])
  PROVE  Wants' = Asked(order)
<1>1. Asked(order)' = Asked(order)
  BY AskedSame
<1>2. Wants' = Asked(order)'
  BY DEF Wants, Asked
<1> QED
  BY <1>1, <1>2

LEMMA AskedWider ==
  ASSUME NEW order, Ordered(Node) \subseteq order
  PROVE  Wants \subseteq Asked(order)
BY DEF Wants, Asked

LEMMA OrderMade ==
  ASSUME Objects, OrderInv, NEW b \in Box, NEW k, NEW s \in Seq(Created), Adds(b, k, s, {}),
         k = "chain" => Acyclic(Ordered(Node) \cup Consecutive(s))
  PROVE  OrderInv' /\ Wants \subseteq Wants'
<1>1. PICK order : order = Ordered(Node) \cup (IF k = "chain" THEN Consecutive(s) ELSE {})
  OBVIOUS
<1>2. /\ Ordered(Node)' = order
      /\ \A n \in Created : Jobs(n)' = Jobs(n)
  BY <1>1, OrderOfAdds
<1>3. \A e \in Consecutive(s) : e[1] \in Created /\ e[2] \in Created
  BY DEF Consecutive
<1>4. \A e \in order : e[1] \in Created /\ e[2] \in Created
  BY <1>1, <1>3, OrderedCreated
<1>5. Wants' = Asked(order) /\ Wants \subseteq Asked(order)
  BY <1>1, <1>2, <1>4, WantsNext, AskedWider
<1>6. \A a \in Leaf : <<a, a>> \notin Closure(Asked(order))
  <2>1. CASE k = "chain"
    BY <1>1, <2>1, AcyclicRules
  <2>2. CASE k # "chain"
    BY <1>1, <2>2 DEF OrderInv, Wants
  <2> QED
    BY <2>1, <2>2
<1> QED
  BY <1>5, <1>6 DEF OrderInv

LEMMA OrderConnected ==
  ASSUME Objects, OrderInv, NEW n \in Node, NEW child \in Node, ConnectOnDone(n, child)
  PROVE  OrderInv' /\ Wants \subseteq Wants'
<1>1. PICK order : order = Ordered(Node) \cup {<<n, child>>}
  OBVIOUS
<1>2. /\ n \in Created /\ child \in Created /\ Acyclic(order)
      /\ connected' = connected \cup {<<n, child>>}
      /\ members' = members /\ kind' = kind
  BY <1>1 DEF ConnectOnDone, OnDone
<1>3. \A m \in Created : Jobs(m)' = Jobs(m)
  BY <1>2, JobsKept DEF Objects, ObjectsTypeOK
<1>4. Ordered(Node)' = order
  <2>1. InOrder' /\ InOrder
    BY OrderedNode, PTL
  <2>2. \A b \in Box : Links(b)' = Links(b)
    BY <1>2 DEF Links
  <2>3. \A e : e \in Ordered(Node)' <=> \/ \E b \in Box : e \in Links(b)
                                        \/ e \in connected' /\ e[1] \in Node
    <3>1. Node' = Node
      BY DEF Node
    <3> QED
      BY <2>1, <2>2, <3>1 DEF InOrder
  <2>4. \A e : e \in connected' /\ e[1] \in Node
                 <=> (e \in connected /\ e[1] \in Node) \/ e = <<n, child>>
    BY <1>2
  <2> QED
    BY <1>1, <2>1, <2>3, <2>4 DEF InOrder
<1>5. \A e \in order : e[1] \in Created /\ e[2] \in Created
  BY <1>1, <1>2, OrderedCreated
<1>6. Wants' = Asked(order) /\ Wants \subseteq Asked(order)
  BY <1>1, <1>3, <1>4, <1>5, WantsNext, AskedWider
<1> QED
  BY <1>2, <1>6, AcyclicRules DEF OrderInv

(* New jobs one after the other, that nothing else comes before or after,   *)
(* are no cycle.                                                            *)
LEMMA FreshOrder ==
  ASSUME NEW R \in Relations, NEW Q \in Relations, NEW s \in Seq(Leaf), IsInjective(s),
         \A a, c \in Leaf : <<a, c>> \in Q => \/ <<a, c>> \in R
                                             \/ <<a, c>> \in Consecutive(s),
         \A a, c \in Leaf : <<a, c>> \in R => a \notin Range(s) /\ c \notin Range(s),
         \A a \in Leaf : <<a, a>> \notin Closure(R)
  PROVE  \A a \in Leaf : <<a, a>> \notin Closure(Q)
<1> SUFFICES ASSUME NEW a \in Leaf, <<a, a>> \in Closure(Q) PROVE FALSE
  OBVIOUS
<1>1. \A S \in SUBSET Leaf :
        (\A x, y \in Leaf : <<x, y>> \in Q /\ x \in S \cup {a} => y \in S) => a \in S
  <2> SUFFICES ASSUME NEW S \in SUBSET Leaf,
                      \A x, y \in Leaf : <<x, y>> \in Q /\ x \in S \cup {a} => y \in S
               PROVE  a \in S
    OBVIOUS
  <2>1. \A r \in Q : r[1] \in Leaf /\ r[2] \in Leaf /\ r = <<r[1], r[2]>>
    BY DEF Relations
  <2>2. \A r \in Q : r[1] \in S \cup {a} => r[2] \in S
    BY <2>1
  <2> QED
    BY <2>2 DEF Closure
<1>2. \A x, y : <<x, y>> \in Consecutive(s)
                  => \E i \in 1..(Len(s) - 1) : x = s[i] /\ y = s[i + 1]
  BY DEF Consecutive
<1>3. \A i \in 1..Len(s), j \in 1..Len(s) : s[i] = s[j] => i = j
  BY DEF IsInjective
<1>4. CASE a \in Range(s)
  <2>1. PICK i \in 1..Len(s) : a = s[i]
    BY <1>4, InRange
  <2> DEFINE S == {s[j] : j \in {k \in 1..Len(s) : k > i}}
  <2>2. S \in SUBSET Leaf
    OBVIOUS
  <2>3. ASSUME NEW x \in Leaf, NEW y \in Leaf, <<x, y>> \in Q, x \in S \cup {a}
        PROVE  y \in S
    <3>1. PICK k \in 1..Len(s) : x = s[k] /\ k >= i
      BY <2>1, <2>3
    <3>2. x \in Range(s)
      BY <3>1, InRange
    <3>3. PICK j \in 1..(Len(s) - 1) : x = s[j] /\ y = s[j + 1]
      BY <1>2, <2>3, <3>2
    <3>4. j \in 1..Len(s) /\ j + 1 \in 1..Len(s)
      OBVIOUS
    <3>5. j = k
      BY <1>3, <3>1, <3>3, <3>4
    <3> QED
      BY <3>1, <3>3, <3>4, <3>5
  <2>4. a \in S
    <3> HIDE DEF S
    <3> QED
      BY <1>1, <2>2, <2>3
  <2>5. PICK j \in 1..Len(s) : j > i /\ a = s[j]
    BY <2>4
  <2>6. i = j
    BY <1>3, <2>1, <2>5, Zenon
  <2> QED
    BY <2>5, <2>6
<1>5. CASE a \notin Range(s)
  <2>1. ASSUME NEW S \in SUBSET Leaf, \A r \in R : r[1] \in S \cup {a} => r[2] \in S
        PROVE  a \in S
    <3> DEFINE T == S \ Range(s)
    <3>1. ASSUME NEW x \in Leaf, NEW y \in Leaf, <<x, y>> \in Q, x \in T \cup {a}
          PROVE  y \in T
      <4>1. x \notin Range(s)
        BY <1>5, <3>1
      <4>2. <<x, y>> \notin Consecutive(s)
        <5> SUFFICES ASSUME <<x, y>> \in Consecutive(s) PROVE FALSE
          OBVIOUS
        <5>1. PICK i \in 1..(Len(s) - 1) : x = s[i]
          BY <1>2
        <5>2. i \in 1..Len(s)
          OBVIOUS
        <5> QED
          BY <4>1, <5>1, <5>2, InRange
      <4>3. <<x, y>> \in R
        BY <3>1, <4>2
      <4>4. <<x, y>>[1] = x /\ <<x, y>>[2] = y
        OBVIOUS
      <4>5. y \in S /\ y \notin Range(s)
        BY <2>1, <3>1, <4>3, <4>4
      <4> QED
        BY <4>5
    <3>2. T \in SUBSET Leaf
      OBVIOUS
    <3>3. a \in T
      <4> HIDE DEF T
      <4> QED
        BY <1>1, <3>1, <3>2
    <3> QED
      BY <3>3
  <2>2. <<a, a>> \in Closure(R)
    <3>1. <<a, a>>[1] = a /\ <<a, a>>[2] = a /\ <<a, a>> \in Leaf \X Leaf
      OBVIOUS
    <3> QED
      BY <2>1, <3>1, Zenon DEF Closure
  <2> QED
    BY <2>2
<1> QED
  BY <1>4, <1>5

LEMMA OrderSplit ==
  ASSUME Objects, OrderInv, NEW b \in Box, NEW k, NEW s \in Seq(Leaf \ prepared),
         Adds(b, k, s, Range(s)), IsInjective(s)
  PROVE  OrderInv' /\ Wants \subseteq Wants'
<1>1. PICK order : order = Ordered(Node) \cup (IF k = "chain" THEN Consecutive(s) ELSE {})
  OBVIOUS
<1>2. /\ Ordered(Node)' = order
      /\ \A n \in Created : Jobs(n)' = Jobs(n) /\ Jobs(n) \subseteq prepared
  BY <1>1, OrderOfAdds
<1>3. s \in Seq(Leaf) /\ Range(s) \subseteq Leaf \ prepared
  <2>1. \A i \in 1..Len(s) : s[i] \in Leaf
    OBVIOUS
  <2> QED
    BY <2>1, RangeType
<1>4. \A e \in Consecutive(s) : e[1] \in Leaf /\ e[2] \in Leaf /\ e = <<e[1], e[2]>>
  BY <1>3 DEF Consecutive
<1>5. \A j \in Leaf : Jobs(j) = {j} /\ Jobs(j)' = {j}
  <2>1. ObjectsTypeOK /\ ObjectsTypeOK'
    BY AddsKeepsTypes DEF Objects
  <2>2. LeafJobs /\ LeafJobs'
    BY <2>1, LeafJobsOK, PTL
  <2> QED
    BY <2>2 DEF LeafJobs
<1>6. \A e \in order : Jobs(e[1])' = Jobs(e[1]) /\ Jobs(e[2])' = Jobs(e[2])
  BY <1>1, <1>2, <1>4, <1>5, OrderedCreated
<1>7. Wants' = Asked(order) /\ Wants \subseteq Asked(order)
  BY <1>1, <1>2, <1>6, WantsNext, AskedWider
<1>8. \A a, c \in Leaf : <<a, c>> \in Asked(order) => \/ <<a, c>> \in Wants
                                                      \/ <<a, c>> \in Consecutive(s)
  <2> SUFFICES ASSUME NEW a \in Leaf, NEW c \in Leaf, <<a, c>> \in Asked(order)
               PROVE  <<a, c>> \in Wants \/ <<a, c>> \in Consecutive(s)
    OBVIOUS
  <2>1. PICK e \in order : a \in Jobs(e[1]) /\ c \in Jobs(e[2])
    BY AskedRules
  <2>2. CASE e \in Ordered(Node)
    BY <2>1, <2>2, AskedRules DEF Wants
  <2>3. CASE e \in Consecutive(s)
    BY <1>4, <1>5, <2>1, <2>3
  <2> QED
    BY <1>1, <2>2, <2>3
<1>9. \A a, c \in Leaf : <<a, c>> \in Wants => a \notin Range(s) /\ c \notin Range(s)
  <2> SUFFICES ASSUME NEW a \in Leaf, NEW c \in Leaf, <<a, c>> \in Wants
               PROVE  a \in prepared /\ c \in prepared
    BY <1>3
  <2>1. PICK e \in Ordered(Node) : a \in Jobs(e[1]) /\ c \in Jobs(e[2])
    BY AskedRules DEF Wants
  <2> QED
    BY <1>2, <2>1, OrderedCreated
<1>10. Wants \in Relations /\ Asked(order) \in Relations
  BY AskedRules DEF Wants
<1>11. \A a \in Leaf : <<a, a>> \notin Closure(Asked(order))
  BY <1>3, <1>8, <1>9, <1>10, FreshOrder DEF OrderInv
<1> QED
  BY <1>7, <1>11 DEF OrderInv

LEMMA OrderKept ==
  ASSUME Objects, OrderInv, ObjectsKept
  PROVE  OrderInv' /\ Wants \subseteq Wants'
<1>1. /\ members' = members /\ kind' = kind /\ connected' = connected
  BY DEF ObjectsKept, delayableVars
<1>2. \A m \in Created : Jobs(m)' = Jobs(m)
  BY <1>1, JobsKept DEF Objects, ObjectsTypeOK
<1>3. PICK order : order = Ordered(Node)
  OBVIOUS
<1>4. Ordered(Node)' = order
  BY <1>1, <1>3 DEF Ordered, Node
<1>5. Wants' = Asked(order)
  BY <1>2, <1>3, <1>4, WantsNext, OrderedCreated
<1> QED
  BY <1>3, <1>5 DEF OrderInv, Wants

LEMMA OrderStep == Objects /\ OrderInv /\ [Next]_vars => OrderInv' /\ Wants \subseteq Wants'
<1> SUFFICES ASSUME Objects, OrderInv, [Next]_vars PROVE OrderInv' /\ Wants \subseteq Wants'
  OBVIOUS
<1>1. ASSUME NEW b \in Box, MakeChain(b) \/ MakeGroup(b)
      PROVE  OrderInv' /\ Wants \subseteq Wants'
  BY <1>1, MakeAdds, OrderMade
<1>2. ASSUME NEW l \in Leaf, NEW b \in Box, SplitMethod(l, b)
      PROVE  OrderInv' /\ Wants \subseteq Wants'
  BY <1>2, SplitAdds, OrderSplit
<1>3. ASSUME NEW n \in Node, NEW child \in Node, ConnectOnDone(n, child)
      PROVE  OrderInv' /\ Wants \subseteq Wants'
  BY <1>3, OrderConnected
<1>4. CASE \/ \E n \in Node : Delay(n)
           \/ PerformDirect \/ PerformRaises \/ Commit \/ TwinLive \/ TwinStarts
           \/ \E l \in Leaf : Work(l)
           \/ UNCHANGED vars
  BY <1>4, OthersKeepObjects, OrderKept DEF Objects, ObjectsTypeOK
<1> QED
  BY <1>1, <1>2, <1>3, <1>4 DEF Next

LEMMA OrderInit == Init => OrderInv
<1> SUFFICES ASSUME Init PROVE OrderInv
  OBVIOUS
<1>1. kind = [b \in Box |-> "none"] /\ connected = {}
  BY DEF Init, DelayablesInit
<1>2. Wants = {}
  <2>1. Ordered(Node) = {}
    BY <1>1, OrderedNode DEF InOrder, Links
  <2> QED
    BY <2>1 DEF Wants, Asked
<1>3. \A e : e \notin Closure({})
  <2>1. {} \in SUBSET Leaf
    OBVIOUS
  <2> QED
    BY <2>1, Zenon DEF Closure
<1> QED
  BY <1>2, <1>3 DEF OrderInv

-----------------------------------------------------------------------------
(* The jobs in memory and their rows.                                       *)

JobRecord == [state : {"pending", "wait_dependencies"}, depends : SUBSET Leaf,
              children : SUBSET Leaf, graph : GraphUuid \cup {NoGraph}]

RowRecord == [state : {"pending", "wait_dependencies", "done", "failed"}, depends : SUBSET Leaf,
              children : SUBSET Leaf, graph : GraphUuid \cup {NoGraph}, key : {Key, NoKey}]

RowsTypeOK ==
  /\ phase \in {"building", "direct", "committed", "error"}
  /\ identity \in [prepared -> {Key, NoKey}]
  /\ DOMAIN job \in SUBSET prepared /\ job \in [DOMAIN job -> JobRecord]
  /\ DOMAIN row \in SUBSET prepared /\ row \in [DOMAIN row -> RowRecord]

(* There is a uuid for each graph yet to be made.                           *)
UuidsInv == Cardinality(UsedUuids \ {NoGraph}) <= calls

(* While the program builds its graphs, a row is as its job is in memory,   *)
(* but for the jobs that exist already, which are left alone from then on.  *)
JobsInv ==
  phase = "building" =>
    /\ DOMAIN job \subseteq DOMAIN row \cup dropped
    /\ \A l \in DOMAIN row :
         /\ row[l].state # "done"
         /\ l \notin dropped =>
              /\ l \in DOMAIN job
              /\ job[l].state = row[l].state /\ job[l].graph = row[l].graph
              /\ job[l].depends = row[l].depends /\ job[l].children = row[l].children

(* What a row depends on is asked for.                                      *)
RowsInv == \A l \in DOMAIN row : \A p \in row[l].depends : <<p, l>> \in Wants

Rows == RowsTypeOK /\ UuidsInv /\ JobsInv /\ RowsInv /\ DependentsLinked

(* The second transactions are those of jobs that are done, and what they   *)
(* are to release depends on nothing that is not done.                      *)
WorkInv ==
  /\ second \in [Leaf -> {"none", "due", "read", "over", "lost"}]
  /\ releases \in [Leaf -> SUBSET Leaf]
  /\ \A l \in Leaf : second[l] # "none" =>
       phase = "committed" /\ l \in DOMAIN row /\ row[l].state = "done"
  /\ \A l \in Leaf : \A c \in releases[l] :
       /\ second[l] = "read" /\ c \in DOMAIN row
       /\ \A p \in row[c].depends : p \in DOMAIN row /\ row[p].state = "done"

LEMMA BuildJobsRules ==
  ASSUME job \in [DOMAIN job -> JobRecord], NEW V
  PROVE  /\ BuildJobs(V) \in [V \cup DOMAIN job -> JobRecord]
         /\ \A l \in DOMAIN job : BuildJobs(V)[l] = job[l]
         /\ \A l \in V \ DOMAIN job : BuildJobs(V)[l] = NewJob
<1>1. NewJob \in JobRecord
  BY DEF NewJob, JobRecord
<1> QED
  BY <1>1 DEF BuildJobs

LEMMA UsedUuidsType ==
  ASSUME job \in [DOMAIN job -> JobRecord]
  PROVE  UsedUuids \ {NoGraph} \in SUBSET GraphUuid /\ IsFiniteSet(UsedUuids \ {NoGraph})
<1>1. UsedUuids \ {NoGraph} \in SUBSET GraphUuid
  BY DEF UsedUuids, JobRecord
<1> QED
  BY <1>1, FS_Subset, DelayAssumption

(* A set of at most one element.                                            *)
LEMMA OneElement ==
  ASSUME NEW S, IsFiniteSet(S), S # {}, Cardinality(S) <= 1
  PROVE  \E x : S = {x}
<1>1. Cardinality(S) = 1
  BY FS_EmptySet, FS_CardinalityType
<1> QED
  BY <1>1, FS_Singleton

(* The uuid a graph is given: that of the jobs that have one already, ...   *)
UuidGiven(V, u) ==
  /\ Prepared(V) = [l \in V \cup DOMAIN job |->
                      IF l \in V THEN [BuildJobs(V)[l] EXCEPT !.graph = u] ELSE job[l]]
  /\ \A l \in V : BuildJobs(V)[l].graph \in {NoGraph, u}
  /\ u = NoGraph <=> Cardinality(V) = 1

LEMMA SameUuidRules ==
  ASSUME job \in [DOMAIN job -> JobRecord], UuidsInv, calls < MaxCalls, calls \in Nat,
         NEW V \in SUBSET Leaf, ~ UuidRefused(BuildJobs(V), V)
  PROVE  \E u \in GraphUuid \cup {NoGraph} : UuidGiven(V, u)
<1> DEFINE J == BuildJobs(V)
           known == Uuids(J, V)
           pool == IF known = {} THEN GraphUuid \ UsedUuids ELSE known
<1>1. J \in [V \cup DOMAIN job -> JobRecord] /\ \A l \in DOMAIN job : J[l] = job[l]
  BY BuildJobsRules
<1>2. known \in SUBSET GraphUuid /\ \A l \in V : J[l].graph = NoGraph \/ J[l].graph \in known
  BY <1>1 DEF Uuids, JobRecord
<1>3. IsFiniteSet(known)
  BY <1>2, FS_Subset, DelayAssumption
<1>4. Prepared(V) = SameUuid(J, V)
  BY DEF Prepared
<1> HIDE DEF J, known
<1>5. CASE Cardinality(V) = 1
  <2>1. known = {}
    BY <1>5 DEF UuidRefused, J, known
  <2>2. \A l \in V : J[l].graph = NoGraph
    BY <1>2, <2>1
  <2>3. Prepared(V) = J
    BY <1>4, <1>5 DEF SameUuid
  <2>4. \A l \in V : [J[l] EXCEPT !.graph = NoGraph] = J[l]
    BY <1>1, <2>2 DEF JobRecord
  <2>5. J = [l \in V \cup DOMAIN job |->
               IF l \in V THEN [J[l] EXCEPT !.graph = NoGraph] ELSE job[l]]
    BY <1>1, <2>4
  <2> QED
    BY <1>5, <2>2, <2>3, <2>5 DEF J, UuidGiven
<1>6. CASE Cardinality(V) # 1
  <2>1. pool # {}
    <3>1. CASE known = {}
      <4>1. Cardinality(UsedUuids \ {NoGraph}) < Cardinality(GraphUuid)
        <5>1. Cardinality(GraphUuid) \in Nat /\ Cardinality(UsedUuids \ {NoGraph}) \in Nat
          BY UsedUuidsType, FS_CardinalityType, DelayAssumption
        <5> QED
          BY <5>1, DelayAssumption DEF UuidsInv
      <4>2. GraphUuid # UsedUuids \ {NoGraph}
        <5>1. Cardinality(GraphUuid) \in Nat
          BY FS_CardinalityType, DelayAssumption
        <5> QED
          BY <4>1, <5>1
      <4>3. UsedUuids \ {NoGraph} \subseteq GraphUuid
        BY UsedUuidsType
      <4> QED
        BY <3>1, <4>2, <4>3, DelayAssumption
    <3>2. CASE known # {}
      BY <3>2
    <3> QED
      BY <3>1, <3>2
  <2>2. PICK u \in pool : u = CHOOSE x \in pool : TRUE
    BY <2>1
  <2>3. u \in GraphUuid /\ u # NoGraph
    BY <1>2, DelayAssumption
  <2>4. \A l \in V : J[l].graph \in {NoGraph, u}
    <3>1. CASE known = {}
      BY <1>2, <3>1
    <3>2. CASE known # {}
      <4>1. Cardinality(known) \in Nat /\ ~(Cardinality(known) > 1)
        BY <1>3, FS_CardinalityType DEF UuidRefused, J, known
      <4>2. PICK x : known = {x}
        BY <1>3, <3>2, <4>1, OneElement
      <4> QED
        BY <1>2, <2>2, <3>2, <4>2
    <3> QED
      BY <3>1, <3>2
  <2>5. Prepared(V) = [l \in DOMAIN J |->
                         IF l \in V THEN [J[l] EXCEPT !.graph = u] ELSE J[l]]
    BY <1>4, <1>6, <2>2 DEF SameUuid, J, known
  <2>6. Prepared(V) = [l \in V \cup DOMAIN job |->
                         IF l \in V THEN [J[l] EXCEPT !.graph = u] ELSE job[l]]
    BY <1>1, <2>5
  <2> QED
    BY <1>6, <2>3, <2>4, <2>6 DEF J, UuidGiven
<1> QED
  BY <1>5, <1>6

(* The records of jobs that are changed.                                    *)
LEMMA JobRecordGraph ==
  ASSUME NEW r \in JobRecord, NEW u \in GraphUuid \cup {NoGraph}
  PROVE  /\ [r EXCEPT !.graph = u] \in JobRecord
         /\ [r EXCEPT !.graph = u].graph = u
         /\ [r EXCEPT !.graph = u].depends = r.depends
         /\ [r EXCEPT !.graph = u].children = r.children
         /\ [r EXCEPT !.graph = u].state = r.state
BY DEF JobRecord

Linked(r, D, C) ==
  [r EXCEPT !.depends = @ \cup D, !.children = @ \cup C,
            !.state = IF D # {} THEN "wait_dependencies" ELSE @]

LEMMA JobRecordLinks ==
  ASSUME NEW r \in JobRecord, NEW D, NEW C, NEW q, q = Linked(r, D, C)
  PROVE  /\ q.graph = r.graph
         /\ q.depends = r.depends \cup D /\ q.children = r.children \cup C
         /\ q.state = IF D # {} THEN "wait_dependencies" ELSE r.state
         /\ D = {} /\ C = {} => q = r
BY DEF JobRecord, Linked

LEMMA JobRecordLinked ==
  ASSUME NEW r \in JobRecord, NEW D \in SUBSET Leaf, NEW C \in SUBSET Leaf
  PROVE  Linked(r, D, C) \in JobRecord
BY DEF JobRecord, Linked

(* ... and what add_depends makes of them: an edge is known by both its     *)
(* ends, and a job that depends on another waits.                           *)
Parents(g, l) == {p \in DOMAIN g : l \in g[p]}

DependsAdded(V, g, jobs, u) ==
  /\ u = NoGraph <=> Cardinality(V) = 1
  /\ jobs \in [V \cup DOMAIN job -> JobRecord]
  /\ \A l \in DOMAIN job \ V : jobs[l] = job[l]
  /\ \A l \in V :
       /\ BuildJobs(V)[l].graph \in {NoGraph, u}
       /\ jobs[l].graph = u
       /\ jobs[l].depends = BuildJobs(V)[l].depends \cup Parents(g, l)
       /\ jobs[l].children = BuildJobs(V)[l].children \cup g[l]
       /\ jobs[l].state = IF Parents(g, l) # {} THEN "wait_dependencies"
                          ELSE BuildJobs(V)[l].state

LEMMA AddDependsRules ==
  ASSUME job \in [DOMAIN job -> JobRecord], UuidsInv, calls < MaxCalls, calls \in Nat,
         NEW V \in SUBSET Leaf, NEW g \in [V -> SUBSET V], ~ UuidRefused(BuildJobs(V), V),
         NEW jobs, jobs = AddDepends(Prepared(V), g)
  PROVE  \E u \in GraphUuid \cup {NoGraph} : DependsAdded(V, g, jobs, u)
<1> DEFINE old == BuildJobs(V)
<1>0. PICK u \in GraphUuid \cup {NoGraph} : UuidGiven(V, u)
  BY SameUuidRules
<1>1. /\ Prepared(V) = [l \in V \cup DOMAIN job |->
                          IF l \in V THEN [old[l] EXCEPT !.graph = u] ELSE job[l]]
      /\ \A l \in V : old[l].graph \in {NoGraph, u}
      /\ u = NoGraph <=> Cardinality(V) = 1
  BY <1>0, Zenon DEF UuidGiven
<1>2. old \in [V \cup DOMAIN job -> JobRecord]
  BY BuildJobsRules
<1> DEFINE P == Prepared(V)
           parents(l) == Parents(g, l)
           kin(l) == IF l \in V THEN g[l] ELSE {}
           after(l) == Linked(P[l], parents(l), kin(l))
<1>3. P \in [V \cup DOMAIN job -> JobRecord]
  <2>1. \A l \in V : [old[l] EXCEPT !.graph = u] \in JobRecord
    <3> HIDE DEF old
    <3> QED
      BY <1>2, JobRecordGraph
  <2> HIDE DEF old
  <2> QED
    BY <1>1, <2>1
<1>4. jobs = [l \in V \cup DOMAIN job |-> after(l)]
  BY <1>3 DEF AddDepends, Linked, Parents
<1>5. ASSUME NEW l \in V
      PROVE  /\ jobs[l] \in JobRecord
             /\ jobs[l].graph = u
             /\ jobs[l].depends = old[l].depends \cup parents(l)
             /\ jobs[l].children = old[l].children \cup g[l]
             /\ jobs[l].state = IF parents(l) # {} THEN "wait_dependencies" ELSE old[l].state
  <2>1. P[l] = [old[l] EXCEPT !.graph = u] /\ old[l] \in JobRecord
    BY <1>1, <1>2
  <2>2. jobs[l] = after(l)
    BY <1>4
  <2>3. kin(l) = g[l] /\ kin(l) \in SUBSET Leaf /\ parents(l) \in SUBSET Leaf
    BY DEF Parents
  <2>5. P[l] \in JobRecord
    BY <1>3
  <2> HIDE DEF parents, P, old, kin
  <2>4. /\ P[l].graph = u /\ P[l].depends = old[l].depends
        /\ P[l].children = old[l].children /\ P[l].state = old[l].state
    BY <2>1, JobRecordGraph
  <2>6. /\ jobs[l] \in JobRecord /\ jobs[l].graph = P[l].graph
        /\ jobs[l].depends = P[l].depends \cup parents(l)
        /\ jobs[l].children = P[l].children \cup kin(l)
        /\ jobs[l].state = IF parents(l) # {} THEN "wait_dependencies" ELSE P[l].state
    <3>1. PICK r, D, C : r = P[l] /\ D = parents(l) /\ C = kin(l)
      OBVIOUS
    <3>2. r \in JobRecord /\ D \in SUBSET Leaf /\ C \in SUBSET Leaf /\ jobs[l] = Linked(r, D, C)
      BY <2>2, <2>3, <2>5, <3>1
    <3>3. /\ jobs[l].graph = r.graph
          /\ jobs[l].depends = r.depends \cup D
          /\ jobs[l].children = r.children \cup C
          /\ jobs[l].state = IF D # {} THEN "wait_dependencies" ELSE r.state
      BY <3>2, JobRecordLinks
    <3>4. jobs[l] \in JobRecord
      BY <3>2, JobRecordLinked
    <3> QED
      BY <3>1, <3>3, <3>4
  <2> QED
    BY <2>3, <2>4, <2>6
<1>6. ASSUME NEW l \in DOMAIN job \ V PROVE jobs[l] = job[l] /\ jobs[l] \in JobRecord
  <2>1. P[l] = job[l] /\ job[l] \in JobRecord
    BY <1>1
  <2>2. parents(l) = {}
    BY DEF Parents
  <2>3. jobs[l] = after(l)
    BY <1>4
  <2>4. kin(l) = {}
    OBVIOUS
  <2> HIDE DEF parents, P, kin
  <2>5. parents(l) \in SUBSET Leaf /\ kin(l) \in SUBSET Leaf
    BY <2>2, <2>4
  <2>6. jobs[l] = P[l]
    <3>1. PICK r, D, C : r = P[l] /\ D = parents(l) /\ C = kin(l)
      OBVIOUS
    <3>2. r \in JobRecord /\ D = {} /\ C = {} /\ jobs[l] = Linked(r, D, C)
      BY <2>1, <2>2, <2>3, <2>4, <3>1
    <3>3. jobs[l] = r
      BY <3>2, JobRecordLinks
    <3> QED
      BY <3>1, <3>3
  <2> QED
    BY <2>1, <2>6
<1>7. jobs \in [V \cup DOMAIN job -> JobRecord]
  <2>1. \A l \in V \cup DOMAIN job : jobs[l] \in JobRecord
    BY <1>5, <1>6
  <2>2. DOMAIN jobs = V \cup DOMAIN job /\ jobs = [l \in V \cup DOMAIN job |-> jobs[l]]
    BY <1>4
  <2> QED
    BY <2>1, <2>2
<1> HIDE DEF old
<1>8. /\ u = NoGraph <=> Cardinality(V) = 1
      /\ \A l \in V : old[l].graph \in {NoGraph, u}
  BY <1>1
<1>9. \A l \in V :
        /\ old[l].graph \in {NoGraph, u}
        /\ jobs[l].graph = u
        /\ jobs[l].depends = old[l].depends \cup parents(l)
        /\ jobs[l].children = old[l].children \cup g[l]
        /\ jobs[l].state = IF parents(l) # {} THEN "wait_dependencies" ELSE old[l].state
  BY <1>5, <1>8
<1> QED
  BY <1>6, <1>7, <1>8, <1>9, Zenon DEF old, DependsAdded

(* The uuids that are used after a graph was given one.                     *)
LEMMA UuidsNext ==
  ASSUME job \in [DOMAIN job -> JobRecord], UuidsInv, calls \in Nat, calls' = calls + 1,
         NEW V \in SUBSET Leaf, NEW jobs \in [V \cup DOMAIN job -> JobRecord], job' = jobs,
         NEW u, \A l \in V : jobs[l].graph = u,
         \A l \in DOMAIN job \ V : jobs[l] = job[l]
  PROVE  UuidsInv'
<1>1. UsedUuids' \subseteq UsedUuids \cup {u}
  BY DEF UsedUuids
<1>2. UsedUuids' \ {NoGraph} \subseteq (UsedUuids \ {NoGraph}) \cup {u}
  BY <1>1
<1> DEFINE S == UsedUuids \ {NoGraph}
<1>3. IsFiniteSet(S) /\ Cardinality(S) \in Nat
  BY UsedUuidsType, FS_CardinalityType
<1> HIDE DEF S
<1>4. IsFiniteSet(S \cup {u}) /\ Cardinality(S \cup {u}) <= Cardinality(S) + 1
  <2>1. /\ IsFiniteSet(S \cup {u})
        /\ Cardinality(S \cup {u}) = IF u \in S THEN Cardinality(S) ELSE Cardinality(S) + 1
    BY <1>3, FS_AddElement
  <2> QED
    BY <1>3, <2>1
<1>5. Cardinality(S \cup {u}) \in Nat
  BY <1>4, FS_CardinalityType
<1>6. PICK T : T = UsedUuids' \ {NoGraph}
  OBVIOUS
<1>7. T \in SUBSET (S \cup {u})
  BY <1>2, <1>6 DEF S
<1>8. Cardinality(T) \in Nat /\ Cardinality(T) <= Cardinality(S \cup {u})
  BY <1>4, <1>7, FS_Subset, FS_CardinalityType
<1>9. Cardinality(S) <= calls
  BY DEF UuidsInv, S
<1>10. Cardinality(T) <= calls + 1
  BY <1>3, <1>4, <1>5, <1>8, <1>9
<1> QED
  BY <1>6, <1>10 DEF UuidsInv

(* What the row of a job has, if it has one.                                *)
PastDepends(l) == IF l \in DOMAIN row THEN row[l].depends ELSE {}
PastChildren(l) == IF l \in DOMAIN row THEN row[l].children ELSE {}
PastState(l) == IF l \in DOMAIN row THEN row[l].state ELSE "pending"
PastGraph(l) == IF l \in DOMAIN row THEN row[l].graph ELSE NoGraph

(* That is what the job in memory has before its graph is delayed.          *)
LEMMA PastJobs ==
  ASSUME RowsTypeOK, JobsInv, phase = "building", NEW V, V \cap dropped = {}, NEW l \in V
  PROVE  /\ BuildJobs(V)[l].depends = PastDepends(l)
         /\ BuildJobs(V)[l].children = PastChildren(l)
         /\ BuildJobs(V)[l].state = PastState(l)
         /\ BuildJobs(V)[l].graph = PastGraph(l)
<1>1. CASE l \in DOMAIN job
  <2>1. l \in DOMAIN row /\ l \notin dropped
    BY <1>1 DEF JobsInv
  <2>2. BuildJobs(V)[l] = job[l]
    BY <1>1, BuildJobsRules DEF RowsTypeOK
  <2> QED
    BY <2>1, <2>2 DEF JobsInv, PastDepends, PastChildren, PastState, PastGraph
<1>2. CASE l \notin DOMAIN job
  <2>1. l \notin DOMAIN row
    BY <1>2 DEF JobsInv
  <2>2. BuildJobs(V)[l] = NewJob
    BY <1>2, BuildJobsRules DEF RowsTypeOK
  <2> QED
    BY <2>1, <2>2 DEF NewJob, PastDepends, PastChildren, PastState, PastGraph
<1> QED
  BY <1>1, <1>2

(* The graph of jobs that is delayed, and what is asked for.                *)
LEMMA GraphOfJobs ==
  ASSUME Objects, NEW n \in Created, NEW g, g = ConnectGraphs(n), NEW V, V = DOMAIN g
  PROVE  /\ g \in [V -> SUBSET V] /\ V \in SUBSET Leaf /\ V \subseteq prepared
         /\ \A p \in V : \A l \in g[p] : <<p, l>> \in Wants
<1>1. V = Visited(n) \cap Leaf /\ \A j \in V : g[j] \subseteq V
  BY ConnectGraphsType
<1>2. V \subseteq prepared
  BY <1>1, VisitedRules, DelayablesAssumption DEF Created
<1>3. g \in [V -> SUBSET V]
  <2>1. g = [j \in V |-> g[j]]
    BY DEF ConnectGraphs
  <2> QED
    BY <1>1, <2>1
<1>4. ASSUME NEW p \in V, NEW l \in g[p] PROVE <<p, l>> \in Wants
  <2>1. <<p, l>>[1] = p /\ <<p, l>>[2] = l /\ <<p, l>> \in V \X V
    BY <1>1, <1>4
  <2>2. <<p, l>> \in Edges(g)
    BY <2>1, Zenon DEF Edges
  <2> QED
    BY <2>2, EdgesAsked DEF Wants
<1> QED
  BY <1>1, <1>2, <1>3, <1>4

(* The rows after a graph is stored.                                        *)
RowsStored(V, g, u) ==
  /\ u = NoGraph <=> Cardinality(V) = 1
  /\ job' \in [V \cup DOMAIN job -> JobRecord]
  /\ \A l \in DOMAIN job \ V : job'[l] = job[l]
  /\ row' \in [V \cup DOMAIN row -> RowRecord]
  /\ \A l \in DOMAIN row \ V : row'[l] = row[l]
  /\ \A l \in V :
       /\ PastGraph(l) \in {NoGraph, u}
       /\ row'[l].graph = u /\ row'[l].key = identity[l]
       /\ row'[l].depends = PastDepends(l) \cup Parents(g, l)
       /\ row'[l].children = PastChildren(l) \cup g[l]
       /\ row'[l].state = IF Parents(g, l) # {} THEN "wait_dependencies" ELSE PastState(l)
       /\ job'[l].state = row'[l].state /\ job'[l].graph = row'[l].graph
       /\ job'[l].depends = row'[l].depends /\ job'[l].children = row'[l].children

LEMMA StoredRows ==
  ASSUME Objects, Rows, phase = "building", calls < MaxCalls,
         NEW n \in Created, NEW g, g = ConnectGraphs(n), NEW V, V = DOMAIN g,
         V \cap dropped = {}, ~ UuidRefused(BuildJobs(V), V), StoreGraph(n, g)
  PROVE  \E u \in GraphUuid \cup {NoGraph} : RowsStored(V, g, u)
<1>1. g \in [V -> SUBSET V] /\ V \in SUBSET Leaf /\ V \subseteq prepared
  BY GraphOfJobs
<1>2. job \in [DOMAIN job -> JobRecord] /\ UuidsInv /\ calls \in Nat
  BY DEF Rows, RowsTypeOK, Objects, ObjectsTypeOK
<1>3. PICK jobs : jobs = AddDepends(Prepared(V), g)
  OBVIOUS
<1>4. job' = jobs /\ row' = StoreJobs(jobs, V)
  BY <1>3 DEF StoreGraph
<1>5. PICK u \in GraphUuid \cup {NoGraph} : DependsAdded(V, g, jobs, u)
  BY <1>1, <1>2, <1>3, AddDependsRules
<1>6. ASSUME NEW l \in V
      PROVE  /\ PastGraph(l) \in {NoGraph, u}
             /\ jobs[l].graph = u
             /\ jobs[l].depends = PastDepends(l) \cup Parents(g, l)
             /\ jobs[l].children = PastChildren(l) \cup g[l]
             /\ jobs[l].state = IF Parents(g, l) # {} THEN "wait_dependencies" ELSE PastState(l)
  <2>1. /\ BuildJobs(V)[l].depends = PastDepends(l)
        /\ BuildJobs(V)[l].children = PastChildren(l)
        /\ BuildJobs(V)[l].state = PastState(l)
        /\ BuildJobs(V)[l].graph = PastGraph(l)
    BY PastJobs DEF Rows
  <2> QED
    BY <1>5, <2>1, Zenon DEF DependsAdded
<1>7. row' = [l \in DOMAIN row \cup V |->
                IF l \notin V THEN row[l]
                ELSE [state |-> jobs[l].state, depends |-> jobs[l].depends,
                      children |-> jobs[l].children, graph |-> jobs[l].graph, key |-> identity[l]]]
  BY <1>4 DEF StoreJobs
<1>8. ASSUME NEW l \in V
      PROVE  /\ row'[l] \in RowRecord /\ row'[l].key = identity[l]
             /\ row'[l].state = jobs[l].state /\ row'[l].graph = jobs[l].graph
             /\ row'[l].depends = jobs[l].depends /\ row'[l].children = jobs[l].children
  <2>1. jobs[l] \in JobRecord /\ identity[l] \in {Key, NoKey}
    BY <1>1, <1>5 DEF Rows, RowsTypeOK, DependsAdded
  <2>2. row'[l] = [state |-> jobs[l].state, depends |-> jobs[l].depends,
                   children |-> jobs[l].children, graph |-> jobs[l].graph, key |-> identity[l]]
    BY <1>7
  <2> QED
    BY <2>1, <2>2 DEF JobRecord, RowRecord
<1>9. /\ row' \in [V \cup DOMAIN row -> RowRecord]
      /\ \A l \in DOMAIN row \ V : row'[l] = row[l]
  <2>1. row \in [DOMAIN row -> RowRecord]
    BY DEF Rows, RowsTypeOK
  <2>2. \A l \in V : row'[l] \in RowRecord
    BY <1>8, Zenon
  <2>3. \A l \in DOMAIN row \ V : row'[l] = row[l]
    BY <1>7
  <2> HIDE DEF RowRecord
  <2> QED
    BY <1>7, <2>1, <2>2, <2>3
<1>10. \A l \in V :
         /\ PastGraph(l) \in {NoGraph, u}
         /\ row'[l].graph = u /\ row'[l].key = identity[l]
         /\ row'[l].depends = PastDepends(l) \cup Parents(g, l)
         /\ row'[l].children = PastChildren(l) \cup g[l]
         /\ row'[l].state = IF Parents(g, l) # {} THEN "wait_dependencies" ELSE PastState(l)
         /\ job'[l].state = row'[l].state /\ job'[l].graph = row'[l].graph
         /\ job'[l].depends = row'[l].depends /\ job'[l].children = row'[l].children
  <2> SUFFICES ASSUME NEW l \in V
               PROVE  /\ PastGraph(l) \in {NoGraph, u}
                      /\ row'[l].graph = u /\ row'[l].key = identity[l]
                      /\ row'[l].depends = PastDepends(l) \cup Parents(g, l)
                      /\ row'[l].children = PastChildren(l) \cup g[l]
                      /\ row'[l].state = IF Parents(g, l) # {} THEN "wait_dependencies"
                                         ELSE PastState(l)
                      /\ job'[l].state = row'[l].state /\ job'[l].graph = row'[l].graph
                      /\ job'[l].depends = row'[l].depends /\ job'[l].children = row'[l].children
    BY Zenon
  <2> QED
    BY <1>4, <1>6, <1>8
<1>11. /\ u = NoGraph <=> Cardinality(V) = 1
       /\ job' \in [V \cup DOMAIN job -> JobRecord]
       /\ \A l \in DOMAIN job \ V : job'[l] = job[l]
  BY <1>4, <1>5, Zenon DEF DependsAdded
<1> QED
  BY <1>9, <1>10, <1>11, Zenon DEF RowsStored

(* A row only gains by it.                                                  *)
LEMMA StoredGains ==
  ASSUME NEW V, NEW g, NEW u, RowsStored(V, g, u), NEW l \in DOMAIN row
  PROVE  /\ l \in DOMAIN row'
         /\ row[l].depends \subseteq row'[l].depends
         /\ row[l].children \subseteq row'[l].children
         /\ row[l].graph # NoGraph => row'[l].graph = row[l].graph
<1>1. l \in DOMAIN row'
  BY DEF RowsStored
<1>2. CASE l \in V
  BY <1>1, <1>2 DEF RowsStored, PastDepends, PastChildren, PastGraph
<1>3. CASE l \notin V
  BY <1>1, <1>3 DEF RowsStored
<1> QED
  BY <1>2, <1>3

(* What a row depends on afterwards it did before, or by the graph.         *)
LEMMA StoredDepends ==
  ASSUME NEW V, NEW g, NEW u, RowsStored(V, g, u), NEW l \in DOMAIN row',
         NEW p \in row'[l].depends
  PROVE  \/ l \in DOMAIN row /\ p \in row[l].depends
         \/ l \in V /\ p \in Parents(g, l)
<1>1. CASE l \in V
  BY <1>1 DEF RowsStored, PastDepends
<1>2. CASE l \notin V
  BY <1>2 DEF RowsStored
<1> QED
  BY <1>1, <1>2

(* While the program builds its graphs, a row waits if it depends on any.   *)
LEMMA BuildingWaits ==
  ASSUME JobsInv, DependentsLinked, phase = "building", NEW l \in DOMAIN row
  PROVE  row[l].state = "wait_dependencies" <=> row[l].depends # {}
<1>1. \A p \in row[l].depends : p \in DOMAIN row /\ row[p].state # "done"
  BY DEF DependentsLinked, JobsInv
<1> QED
  BY <1>1 DEF DependentsLinked

LEMMA StoreLinks ==
  ASSUME Objects, OrderInv, Rows, phase = "building", NEW n \in Created,
         NEW g, g = ConnectGraphs(n), NEW V, V = DOMAIN g, NEW u, RowsStored(V, g, u)
  PROVE  DependentsLinked' /\ \A l \in DOMAIN row' : row'[l].state # "done"
<1>1. /\ g \in [V -> SUBSET V] /\ V \in SUBSET Leaf
      /\ \A p \in V : \A l \in g[p] : <<p, l>> \in Wants
  BY GraphOfJobs
<1>2. DOMAIN row' = V \cup DOMAIN row
  BY DEF RowsStored
<1>3. ASSUME NEW l \in DOMAIN row', NEW p \in row'[l].depends
      PROVE  /\ p \in DOMAIN row' /\ l \in row'[p].children
             /\ row'[p].graph = row'[l].graph /\ row'[l].graph # NoGraph
  <2>1. CASE l \in DOMAIN row /\ p \in row[l].depends
    <3>1. /\ p \in DOMAIN row /\ l \in row[p].children
          /\ row[p].graph = row[l].graph /\ row[l].graph # NoGraph
      BY <2>1 DEF Rows, DependentsLinked
    <3>2. /\ p \in DOMAIN row' /\ row[p].children \subseteq row'[p].children
          /\ row'[p].graph = row[p].graph
      BY <3>1, StoredGains
    <3>3. row'[l].graph = row[l].graph
      BY <2>1, <3>1, StoredGains
    <3> QED
      BY <3>1, <3>2, <3>3
  <2>2. CASE l \in V /\ p \in Parents(g, l)
    <3>1. p \in V /\ l \in g[p]
      BY <2>2 DEF Parents
    <3>2. l \in row'[p].children /\ row'[p].graph = u /\ row'[l].graph = u
      BY <2>2, <3>1 DEF RowsStored
    <3>3. u # NoGraph
      <4> SUFFICES ASSUME Cardinality(V) = 1 PROVE FALSE
        BY DEF RowsStored
      <4>1. IsFiniteSet(V)
        BY <1>1, FS_Subset, DelayablesAssumption
      <4>2. PICK x : V = {x}
        BY <4>1, FS_Singleton
      <4>3. p = l /\ l \in Leaf
        BY <1>1, <2>2, <3>1, <4>2
      <4>4. <<l, l>> \in Wants
        BY <1>1, <3>1, <4>3
      <4>5. Wants \subseteq Closure(Wants)
        BY WantsType, ClosureContains DEF WantsRules
      <4> QED
        BY <4>3, <4>4, <4>5 DEF OrderInv
    <3> QED
      BY <1>2, <3>1, <3>2, <3>3
  <2> QED
    BY <2>1, <2>2, StoredDepends
<1>4. ASSUME NEW l \in DOMAIN row'
      PROVE  /\ row'[l].state # "done"
             /\ row'[l].state = "wait_dependencies" <=> row'[l].depends # {}
  <2>1. CASE l \in V
    <3>1. /\ row'[l].depends = PastDepends(l) \cup Parents(g, l)
          /\ row'[l].state = IF Parents(g, l) # {} THEN "wait_dependencies" ELSE PastState(l)
      BY <2>1 DEF RowsStored
    <3>2. PastState(l) # "done" /\ (PastState(l) = "wait_dependencies" <=> PastDepends(l) # {})
      BY BuildingWaits DEF Rows, JobsInv, PastState, PastDepends
    <3> QED
      BY <3>1, <3>2
  <2>2. CASE l \notin V
    <3>1. l \in DOMAIN row /\ row'[l] = row[l]
      BY <1>2, <2>2 DEF RowsStored
    <3> QED
      BY <3>1, BuildingWaits DEF Rows, JobsInv
  <2> QED
    BY <2>1, <2>2
<1> QED
  BY <1>3, <1>4 DEF DependentsLinked

(* delay() of a graph that is stored.                                       *)
LEMMA StoreKeepsRows ==
  ASSUME Objects, OrderInv, Rows, Wants \subseteq Wants', phase = "building",
         calls < MaxCalls, calls' = calls + 1, NEW n \in Created,
         DOMAIN ConnectGraphs(n) \cap dropped = {}, Accepted(DOMAIN ConnectGraphs(n)),
         StoreGraph(n, ConnectGraphs(n))
  PROVE  Rows'
<1>1. PICK g, V : g = ConnectGraphs(n) /\ V = DOMAIN g
  OBVIOUS
<1>2. PICK u \in GraphUuid \cup {NoGraph} : RowsStored(V, g, u)
  BY <1>1, StoredRows DEF Accepted
<1>3. /\ g \in [V -> SUBSET V] /\ V \in SUBSET Leaf /\ V \subseteq prepared
      /\ \A p \in V : \A l \in g[p] : <<p, l>> \in Wants
  BY <1>1, GraphOfJobs
<1>4. /\ prepared' = prepared /\ identity' = identity /\ phase' = phase /\ dropped' = dropped
  BY DEF StoreGraph, delayableVars
<1>5. /\ DOMAIN job' = V \cup DOMAIN job /\ job' \in [V \cup DOMAIN job -> JobRecord]
      /\ DOMAIN row' = V \cup DOMAIN row /\ row' \in [V \cup DOMAIN row -> RowRecord]
  BY <1>2 DEF RowsStored
<1>6. DependentsLinked' /\ \A l \in DOMAIN row' : row'[l].state # "done"
  BY <1>1, <1>2, StoreLinks
<1>7. RowsTypeOK'
  BY <1>3, <1>4, <1>5 DEF Rows, RowsTypeOK
<1>8. UuidsInv'
  <2>1. \A l \in V : job'[l].graph = u
    BY <1>2 DEF RowsStored
  <2>2. \A l \in DOMAIN job \ V : job'[l] = job[l]
    BY <1>2 DEF RowsStored
  <2>3. PICK jobs \in [V \cup DOMAIN job -> JobRecord] : jobs = job'
    BY <1>5
  <2>4. /\ job \in [DOMAIN job -> JobRecord] /\ UuidsInv /\ calls \in Nat
        /\ \A l \in V : jobs[l].graph = u
        /\ \A l \in DOMAIN job \ V : jobs[l] = job[l]
        /\ V \in SUBSET Leaf /\ job' = jobs /\ calls' = calls + 1
    BY <1>3, <2>1, <2>2, <2>3 DEF Rows, RowsTypeOK, Objects, ObjectsTypeOK
  <2> QED
    BY <2>4, UuidsNext
<1>9. JobsInv'
  <2>1. DOMAIN job' \subseteq DOMAIN row' \cup dropped'
    BY <1>4, <1>5 DEF Rows, JobsInv
  <2>2. ASSUME NEW l \in DOMAIN row', l \notin dropped
        PROVE  /\ l \in DOMAIN job'
               /\ job'[l].state = row'[l].state /\ job'[l].graph = row'[l].graph
               /\ job'[l].depends = row'[l].depends /\ job'[l].children = row'[l].children
    <3>1. CASE l \in V
      BY <1>2, <1>5, <3>1 DEF RowsStored
    <3>2. CASE l \notin V
      <4>1. l \in DOMAIN row /\ l \in DOMAIN job
        BY <1>5, <2>2, <3>2 DEF Rows, JobsInv
      <4>2. row'[l] = row[l] /\ job'[l] = job[l]
        BY <1>2, <3>2, <4>1 DEF RowsStored
      <4> QED
        BY <1>5, <2>2, <4>1, <4>2 DEF Rows, JobsInv
    <3> QED
      BY <3>1, <3>2
  <2> QED
    BY <1>4, <1>6, <2>1, <2>2 DEF JobsInv
<1>10. RowsInv'
  <2> SUFFICES ASSUME NEW l \in DOMAIN row', NEW p \in row'[l].depends
               PROVE  <<p, l>> \in Wants'
    BY DEF RowsInv
  <2>1. CASE l \in DOMAIN row /\ p \in row[l].depends
    BY <2>1 DEF Rows, RowsInv
  <2>2. CASE l \in V /\ p \in Parents(g, l)
    BY <1>3, <2>2 DEF Parents
  <2> QED
    BY <1>2, <2>1, <2>2, StoredDepends
<1> QED
  BY <1>6, <1>7, <1>8, <1>9, <1>10 DEF Rows

(* The uuids that are used do not change with the jobs as they are.         *)
LEMMA UuidsKept ==
  ASSUME UuidsInv, job \in [DOMAIN job -> JobRecord], calls \in Nat,
         calls' \in {calls, calls + 1}, job' = job
  PROVE  UuidsInv'
<1>1. UsedUuids' = UsedUuids
  BY DEF UsedUuids
<1>2. Cardinality(UsedUuids \ {NoGraph}) \in Nat
  BY UsedUuidsType, FS_CardinalityType
<1> QED
  BY <1>1, <1>2 DEF UuidsInv

(* Nothing else than the objects is changed, or the rows are gone.          *)
LEMMA KeepsRows ==
  ASSUME Rows, Wants \subseteq Wants', calls \in Nat, calls' \in {calls, calls + 1},
         job' = job, row' = row \/ row' = <<>>, prepared \subseteq prepared',
         workVars' = workVars,
         identity' \in [prepared' -> {Key, NoKey}],
         phase' \in {"building", "direct", "committed", "error"},
         phase' = "building" => phase = "building" /\ dropped' = dropped /\ row' = row
  PROVE  Rows'
<1>1. UuidsInv'
  BY UuidsKept DEF Rows, RowsTypeOK
<1>2. CASE row' = row
  <2>1. RowsTypeOK'
    BY <1>2 DEF Rows, RowsTypeOK
  <2>2. JobsInv'
    BY <1>2 DEF Rows, JobsInv
  <2>3. RowsInv' /\ DependentsLinked'
    BY <1>2 DEF Rows, RowsInv, DependentsLinked, workVars
  <2> QED
    BY <1>1, <2>1, <2>2, <2>3 DEF Rows
<1>3. CASE row' = <<>> /\ phase' # "building"
  <2>1. DOMAIN row' = {} /\ row' \in [DOMAIN row' -> RowRecord]
    BY <1>3
  <2>2. RowsTypeOK'
    BY <2>1 DEF Rows, RowsTypeOK
  <2>3. JobsInv' /\ RowsInv' /\ DependentsLinked'
    BY <1>3, <2>1 DEF JobsInv, RowsInv, DependentsLinked
  <2> QED
    BY <1>1, <2>2, <2>3 DEF Rows
<1> QED
  BY <1>2, <1>3

(* delay() of a graph whose jobs exist already, or that is performed.       *)
LEMMA MemoryKeepsRows ==
  ASSUME Objects, Rows, Wants \subseteq Wants', phase = "building",
         calls' = calls + 1, NEW V \in SUBSET Leaf, V \subseteq prepared,
         job' \in [V \cup DOMAIN job -> JobRecord],
         NEW u, \A l \in V : job'[l].graph = u,
         \A l \in DOMAIN job \ V : job'[l] = job[l],
         row' = row, prepared' = prepared, identity' = identity, workVars' = workVars,
         \/ phase' = "direct"
         \/ phase' = "building" /\ dropped' = dropped \cup V
  PROVE  Rows'
<1>1. DOMAIN job' = V \cup DOMAIN job
  OBVIOUS
<1>2. RowsTypeOK'
  BY <1>1 DEF Rows, RowsTypeOK
<1>3. UuidsInv'
  <2>1. PICK jobs \in [V \cup DOMAIN job -> JobRecord] : jobs = job'
    OBVIOUS
  <2> QED
    BY <2>1, UuidsNext DEF Rows, RowsTypeOK, Objects, ObjectsTypeOK
<1>4. JobsInv'
  <2> SUFFICES ASSUME phase' = "building", dropped' = dropped \cup V PROVE JobsInv'
    BY DEF JobsInv
  <2>1. DOMAIN job' \subseteq DOMAIN row' \cup dropped'
    BY <1>1 DEF Rows, JobsInv
  <2>2. \A l \in DOMAIN row \ dropped' : l \in DOMAIN job \ V
    BY DEF Rows, JobsInv
  <2> QED
    BY <1>1, <2>1, <2>2 DEF Rows, JobsInv
<1>5. RowsInv' /\ DependentsLinked'
  BY DEF Rows, RowsInv, DependentsLinked, workVars
<1> QED
  BY <1>2, <1>3, <1>4, <1>5 DEF Rows

LEMMA DelayKeepsRows ==
  ASSUME Objects, OrderInv, Rows, Wants \subseteq Wants', NEW n \in Node, Delay(n)
  PROVE  Rows'
<1>1. PICK g, V : g = ConnectGraphs(n) /\ V = DOMAIN g
  OBVIOUS
<1>2. /\ n \in Created /\ phase = "building" /\ calls < MaxCalls /\ calls' = calls + 1
      /\ calls \in Nat /\ V \cap dropped = {}
  BY <1>1 DEF Delay, Building, Top, Objects, ObjectsTypeOK
<1>3. /\ g \in [V -> SUBSET V] /\ V \in SUBSET Leaf /\ V \subseteq prepared
  BY <1>1, <1>2, GraphOfJobs
<1>4. job \in [DOMAIN job -> JobRecord] /\ UuidsInv
  BY DEF Rows, RowsTypeOK
<1>5. CASE Raise
  BY <1>2, <1>5, KeepsRows DEF Raise, delayableVars, workVars, Rows, RowsTypeOK
<1>6. CASE Accepted(V) /\ UseExisting(g)
  <2>1. ~ UuidRefused(BuildJobs(V), V)
    BY <1>6 DEF Accepted
  <2>2. job' = AddDepends(Prepared(V), g)
    BY <1>1, <1>6 DEF UseExisting
  <2>3. PICK jobs : jobs = job'
    OBVIOUS
  <2>4. PICK u \in GraphUuid \cup {NoGraph} : DependsAdded(V, g, jobs, u)
    BY <1>2, <1>3, <1>4, <2>1, <2>2, <2>3, AddDependsRules
  <2>5. /\ job' \in [V \cup DOMAIN job -> JobRecord]
        /\ \A l \in V : job'[l].graph = u
        /\ \A l \in DOMAIN job \ V : job'[l] = job[l]
    BY <2>3, <2>4 DEF DependsAdded
  <2>6. /\ row' = row /\ prepared' = prepared /\ identity' = identity
        /\ phase' = "building" /\ dropped' = dropped \cup V /\ workVars' = workVars
    BY <1>1, <1>2, <1>6 DEF UseExisting, delayableVars, workVars
  <2> QED
    BY <1>2, <1>3, <2>5, <2>6, MemoryKeepsRows
<1>7. CASE Accepted(V) /\ StoreGraph(n, g)
  BY <1>1, <1>2, <1>7, StoreKeepsRows
<1>8. CASE Accepted(V) /\ ExecuteDirect(n, g)
  <2>1. ~ UuidRefused(BuildJobs(V), V)
    BY <1>8 DEF Accepted
  <2>2. job' = Prepared(V)
    BY <1>1, <1>8 DEF ExecuteDirect
  <2>0. PICK u \in GraphUuid \cup {NoGraph} : UuidGiven(V, u)
    BY <1>2, <1>3, <1>4, <2>1, SameUuidRules
  <2>3. Prepared(V) = [l \in V \cup DOMAIN job |->
                         IF l \in V THEN [BuildJobs(V)[l] EXCEPT !.graph = u] ELSE job[l]]
    BY <2>0, Zenon DEF UuidGiven
  <2>4. ASSUME NEW l \in V PROVE job'[l] \in JobRecord /\ job'[l].graph = u
    <3>1. BuildJobs(V)[l] \in JobRecord
      <4>1. BuildJobs(V) \in [V \cup DOMAIN job -> JobRecord]
        BY <1>4, BuildJobsRules
      <4> QED
        BY <4>1
    <3>2. job'[l] = [BuildJobs(V)[l] EXCEPT !.graph = u]
      BY <2>2, <2>3
    <3> QED
      BY <3>1, <3>2, JobRecordGraph
  <2>5. \A l \in DOMAIN job \ V : job'[l] = job[l] /\ job'[l] \in JobRecord
    BY <1>4, <2>2, <2>3
  <2>6. job' \in [V \cup DOMAIN job -> JobRecord]
    <3>1. job' = [l \in V \cup DOMAIN job |-> job'[l]]
      BY <2>2, <2>3
    <3> QED
      BY <2>4, <2>5, <3>1
  <2>7. /\ row' = row /\ prepared' = prepared /\ identity' = identity /\ phase' = "direct"
        /\ workVars' = workVars
    BY <1>8 DEF ExecuteDirect, delayableVars, workVars
  <2> QED
    BY <1>2, <1>3, <2>4, <2>5, <2>6, <2>7, MemoryKeepsRows
<1> QED
  BY <1>1, <1>5, <1>6, <1>7, <1>8 DEF Delay

(* The workers change nothing of a row but its state: a job that is pending *)
(* is done or fails, one that waits is released.                            *)
StatesOnly ==
  /\ DOMAIN row' = DOMAIN row
  /\ \A c \in DOMAIN row :
       /\ row'[c] \in RowRecord /\ row'[c].depends = row[c].depends
       /\ row'[c].children = row[c].children /\ row'[c].graph = row[c].graph
       /\ row'[c].key = row[c].key

LEMMA StateRecord ==
  ASSUME NEW r \in RowRecord, NEW st \in {"pending", "wait_dependencies", "done", "failed"}
  PROVE  /\ [r EXCEPT !.state = st] \in RowRecord /\ [r EXCEPT !.state = st].state = st
         /\ [r EXCEPT !.state = st].depends = r.depends
         /\ [r EXCEPT !.state = st].children = r.children
         /\ [r EXCEPT !.state = st].graph = r.graph /\ [r EXCEPT !.state = st].key = r.key
BY DEF RowRecord

(* What a step of the worker of l does to the rows.                         *)
Finishes(l, st) ==
  /\ phase = "committed" /\ l \in DOMAIN row /\ row[l].state = "pending"
  /\ row'[l].state = st /\ \A c \in DOMAIN row \ {l} : row'[c].state = row[c].state

Frees(l) ==
  /\ second[l] = "read"
  /\ \A c \in DOMAIN row \cap releases[l] :
       row[c].state = "wait_dependencies" /\ row'[c].state = "pending"
  /\ \A c \in DOMAIN row \ releases[l] : row'[c].state = row[c].state

LEMMA EndRows ==
  ASSUME RowsTypeOK, NEW l \in DOMAIN row, NEW st \in {"done", "failed"},
         row' = [row EXCEPT ![l].state = st]
  PROVE  StatesOnly /\ row'[l].state = st /\ \A c \in DOMAIN row \ {l} : row'[c] = row[c]
<1>1. row[l] \in RowRecord /\ row'[l] = [row[l] EXCEPT !.state = st] /\ DOMAIN row' = DOMAIN row
      /\ \A c \in DOMAIN row \ {l} : row'[c] = row[c] /\ row[c] \in RowRecord
  BY DEF RowsTypeOK
<1>2. PICK r \in RowRecord : r = row[l]
  BY <1>1
<1>3. st \in {"pending", "wait_dependencies", "done", "failed"}
  OBVIOUS
<1>4. row'[l] = [r EXCEPT !.state = st]
  BY <1>1, <1>2
<1>5. /\ row'[l] \in RowRecord /\ row'[l].state = st
      /\ row'[l].depends = row[l].depends /\ row'[l].children = row[l].children
      /\ row'[l].graph = row[l].graph /\ row'[l].key = row[l].key
  BY <1>2, <1>3, <1>4 DEF RowRecord
<1> QED
  BY <1>1, <1>5 DEF StatesOnly

LEMMA ReleaseRows ==
  ASSUME RowsTypeOK, NEW R,
         row' = [c \in DOMAIN row |-> IF c \in R THEN [row[c] EXCEPT !.state = "pending"]
                                      ELSE row[c]]
  PROVE  /\ StatesOnly
         /\ \A c \in DOMAIN row \cap R : row'[c].state = "pending"
         /\ \A c \in DOMAIN row \ R : row'[c] = row[c]
<1>1. DOMAIN row' = DOMAIN row
  OBVIOUS
<1>2. \A c \in DOMAIN row :
        row[c] \in RowRecord /\ row'[c] = IF c \in R THEN [row[c] EXCEPT !.state = "pending"]
                                           ELSE row[c]
  BY DEF RowsTypeOK
<1> QED
  BY <1>1, <1>2, StateRecord DEF StatesOnly

LEMMA WorkRows ==
  ASSUME RowsTypeOK, WorkInv, NEW l \in Leaf, Work(l)
  PROVE  /\ OnlyWork /\ StatesOnly /\ phase = "committed"
         /\ Finishes(l, "done") \/ Finishes(l, "failed") \/ Frees(l) \/ row' = row
<1>1. CASE PerformDone(l)
  BY <1>1, EndRows DEF PerformDone, ToPerform, Finishes
<1>2. CASE PerformFails(l)
  BY <1>2, EndRows DEF PerformFails, ToPerform, Finishes
<1>3. CASE ReleaseDependents(l)
  <2>1. OnlyWork /\ second[l] = "read" /\ phase = "committed"
    BY <1>3 DEF ReleaseDependents, WorkInv
  <2> QED
    BY <1>3, <2>1, ReleaseRows DEF ReleaseDependents, Frees
<1>4. CASE ReadDependents(l) \/ DependentsConflict(l) \/ WorkerCrash(l)
  <2>1. OnlyWork /\ row' = row /\ second[l] # "none"
    BY <1>4 DEF ReadDependents, DependentsConflict, WorkerCrash
  <2>2. StatesOnly
    BY <2>1 DEF StatesOnly, RowsTypeOK
  <2> QED
    BY <2>1, <2>2 DEF WorkInv
<1> QED
  BY <1>1, <1>2, <1>3, <1>4 DEF Work

(* What the transaction of l has yet to release.                            *)
Holds(l, c) == second[l] \in {"due", "lost"} \/ (second[l] = "read" /\ c \in releases[l])

(* The release that a child waits for is not forgotten: it is the step      *)
(* itself, or it is still to come, or it is lost.                           *)
LEMMA WorkHolds ==
  ASSUME Rows, WorkInv, NEW l \in Leaf, Work(l), NEW c \in DOMAIN row, NEW p \in row[c].depends,
         row'[c].state = "wait_dependencies",
         \A q \in row[c].depends : row[q].state = "done", Holds(p, c)
  PROVE  Holds(p, c)'
<1>1. /\ row[c].state = "wait_dependencies" /\ p \in Leaf /\ p \in DOMAIN row
      /\ c \in row[p].children /\ row[p].graph = row[c].graph /\ row[c].graph # NoGraph
      /\ \A q \in row[c].depends : q \in DOMAIN row /\ row[q].graph = row[c].graph
  <2>1. row[c].state = "wait_dependencies"
    BY WorkRows DEF Rows, Finishes, Frees
  <2> QED
    BY <2>1 DEF Rows, RowsTypeOK, RowRecord, DependentsLinked
<1>2. CASE p # l
  <2>1. second'[p] = second[p] /\ releases'[p] = releases[p]
    BY <1>1, <1>2 DEF Work, PerformDone, PerformFails, ReadDependents, ReleaseDependents,
       DependentsConflict, WorkerCrash, workVars, WorkInv
  <2> QED
    BY <2>1 DEF Holds
<1>3. CASE p = l
  <2>1. CASE PerformDone(l) \/ PerformFails(l)
    BY <1>3, <2>1 DEF PerformDone, PerformFails, ToPerform
  <2>2. CASE ReadDependents(l)
    <3>1. c \in Released(row, l)
      BY <1>1, <1>3 DEF Released
    <3> QED
      BY <1>1, <1>3, <2>2, <3>1 DEF ReadDependents, Holds, WorkInv
  <2>3. CASE ReleaseDependents(l)
    <3>1. second[l] = "read" /\ c \in releases[l]
      BY <1>3, <2>3 DEF ReleaseDependents, Holds
    <3>2. row'[c].state = "pending"
      BY <2>3, <3>1, ReleaseRows DEF ReleaseDependents, Rows
    <3> QED
      BY <3>2
  <2>4. CASE DependentsConflict(l) \/ WorkerCrash(l)
    BY <1>1, <1>3, <2>4 DEF DependentsConflict, WorkerCrash, Holds, WorkInv
  <2> QED
    BY <2>1, <2>2, <2>3, <2>4 DEF Work
<1> QED
  BY <1>2, <1>3

(* A step of a worker leaves the rows linked.                               *)
LEMMA WorkKeepsRows ==
  ASSUME Rows, WorkInv, Wants \subseteq Wants', calls \in Nat, NEW l \in Leaf, Work(l)
  PROVE  Rows'
<1>1. /\ StatesOnly /\ phase = "committed" /\ OnlyWork
      /\ Finishes(l, "done") \/ Finishes(l, "failed") \/ Frees(l) \/ row' = row
  BY WorkRows DEF Rows
<1>2. /\ job' = job /\ phase' = phase /\ prepared' = prepared /\ identity' = identity
      /\ calls' = calls
  BY <1>1 DEF OnlyWork, delayableVars
<1>3. RowsTypeOK'
  <2>1. row' \in [DOMAIN row' -> RowRecord]
    <3>1. \A c \in DOMAIN row' : row'[c] \in RowRecord
      BY <1>1 DEF StatesOnly
    <3>2. row' = [c \in DOMAIN row' |-> row'[c]]
      <4>1. row = [c \in DOMAIN row |-> row[c]]
        BY DEF Rows, RowsTypeOK
      <4> QED
        BY <4>1 DEF Work, PerformDone, PerformFails, ReadDependents, ReleaseDependents,
           DependentsConflict, WorkerCrash
    <3> QED
      BY <3>1, <3>2
  <2> QED
    BY <1>1, <1>2, <2>1 DEF Rows, RowsTypeOK, StatesOnly
<1>4. UuidsInv'
  BY <1>2, UuidsKept DEF Rows, RowsTypeOK
<1>5. JobsInv'
  BY <1>1, <1>2 DEF JobsInv
<1>6. RowsInv'
  BY <1>1 DEF Rows, RowsInv, StatesOnly
<1>7. ASSUME NEW c \in DOMAIN row'
      PROVE  /\ \A p \in row'[c].depends :
                  /\ p \in DOMAIN row' /\ c \in row'[p].children
                  /\ row'[p].graph = row'[c].graph /\ row'[c].graph # NoGraph
             /\ \/ row'[c].state = "wait_dependencies"
                \/ \A p \in row'[c].depends : row'[p].state = "done"
             /\ \/ row'[c].state # "wait_dependencies"
                \/ \E p \in row'[c].depends : row'[p].state # "done" \/ Holds(p, c)'
  <2>1. c \in DOMAIN row /\ row'[c].depends = row[c].depends
    BY <1>1 DEF StatesOnly
  <2>2. \A p \in row[c].depends :
          /\ p \in DOMAIN row /\ c \in row[p].children
          /\ row[p].graph = row[c].graph /\ row[c].graph # NoGraph
    BY <2>1 DEF Rows, DependentsLinked
  <2>3. \A p \in row'[c].depends :
          /\ p \in DOMAIN row' /\ c \in row'[p].children
          /\ row'[p].graph = row'[c].graph /\ row'[c].graph # NoGraph
    BY <1>1, <2>1, <2>2 DEF StatesOnly
  <2>4. \A p \in row[c].depends : row[p].state = "done" => row'[p].state = "done"
    BY <1>1, <2>2 DEF Finishes, Frees
  <2>5. ASSUME row'[c].state # "wait_dependencies", NEW p \in row[c].depends
        PROVE  row'[p].state = "done"
    <3>1. CASE row[c].state = "wait_dependencies"
      <4>1. c \in releases[l]
        BY <1>1, <2>1, <2>5, <3>1 DEF Finishes, Frees
      <4> QED
        BY <2>4, <2>5, <4>1 DEF WorkInv
    <3>2. CASE row[c].state # "wait_dependencies"
      BY <2>1, <2>4, <2>5, <3>2 DEF Rows, DependentsLinked
    <3> QED
      BY <3>1, <3>2
  <2>6. ASSUME row'[c].state = "wait_dependencies", \A p \in row[c].depends : row'[p].state = "done"
        PROVE  \E p \in row[c].depends : Holds(p, c)'
    <3>1. row[c].state = "wait_dependencies"
      BY <1>1, <2>1, <2>6 DEF Finishes, Frees
    <3>2. CASE \A p \in row[c].depends : row[p].state = "done"
      <4>1. PICK p \in row[c].depends : Holds(p, c)
        BY <2>1, <3>1, <3>2 DEF Rows, DependentsLinked, Holds
      <4> QED
        BY <2>1, <2>6, <3>2, <4>1, WorkHolds
    <3>3. ASSUME NEW p \in row[c].depends, row[p].state # "done" PROVE Holds(p, c)'
      <4>1. p = l /\ row[p].state = "pending" /\ p \in DOMAIN row
        BY <1>1, <2>2, <2>6, <3>3 DEF Finishes, Frees
      <4>2. PerformDone(l)
        <5>1. ~ PerformFails(l)
          <6> SUFFICES ASSUME PerformFails(l) PROVE FALSE
            OBVIOUS
          <6>1. row'[l].state = "failed"
            BY <4>1, EndRows DEF PerformFails, Rows
          <6> QED
            BY <2>6, <3>3, <4>1, <6>1
        <5>2. second[l] = "none"
          BY <4>1 DEF WorkInv
        <5> QED
          BY <5>1, <5>2 DEF Work, ReadDependents, ReleaseDependents, DependentsConflict, WorkerCrash
      <4> QED
        BY <4>1, <4>2 DEF PerformDone, Holds, WorkInv
    <3> QED
      BY <3>2, <3>3
  <2> QED
    BY <2>1, <2>3, <2>5, <2>6
<1>8. DependentsLinked'
  BY <1>7 DEF DependentsLinked, Holds
<1> QED
  BY <1>3, <1>4, <1>5, <1>6, <1>8 DEF Rows

(* A step of a worker releases nothing that depends on an unfinished job.   *)
LEMMA WorkKeepsWork ==
  ASSUME Objects, Rows, WorkInv, NEW l \in Leaf, Work(l)
  PROVE  WorkInv'
<1>1. /\ StatesOnly /\ phase = "committed" /\ phase' = phase
      /\ Finishes(l, "done") \/ Finishes(l, "failed") \/ Frees(l) \/ row' = row
  BY WorkRows DEF Rows, OnlyWork
<1>2. \A p \in DOMAIN row : row[p].state = "done" => row'[p].state = "done"
  BY <1>1 DEF Finishes, Frees
<1>3. ASSUME NEW m \in Leaf, second[m] # "none"
      PROVE  m \in DOMAIN row' /\ row'[m].state = "done"
  BY <1>1, <1>2, <1>3 DEF WorkInv, StatesOnly
<1>4. ASSUME NEW m \in Leaf, NEW c \in releases[m]
      PROVE  /\ c \in DOMAIN row'
             /\ \A p \in row'[c].depends : p \in DOMAIN row' /\ row'[p].state = "done"
  BY <1>1, <1>2, <1>4 DEF WorkInv, StatesOnly
<1>5. CASE PerformDone(l)
  <2>1. /\ l \in DOMAIN row' /\ row'[l].state = "done"
        /\ second' = [second EXCEPT ![l] = "due"] /\ releases' = releases /\ second[l] = "none"
    BY <1>1, <1>5, EndRows DEF PerformDone, ToPerform, Rows, StatesOnly, WorkInv
  <2> QED
    BY <1>1, <1>3, <1>4, <2>1 DEF WorkInv
<1>6. CASE PerformFails(l)
  BY <1>1, <1>3, <1>4, <1>6 DEF PerformFails, workVars, WorkInv
<1>7. CASE ReadDependents(l)
  <2>1. /\ second' = [second EXCEPT ![l] = "read"] /\ row' = row /\ second[l] = "due"
        /\ releases' = [releases EXCEPT ![l] = Released(row, l)]
    BY <1>7 DEF ReadDependents
  <2>2. ASSUME NEW c \in Released(row, l)
        PROVE  /\ c \in DOMAIN row /\ c \in Leaf
               /\ \A p \in row[c].depends : p \in DOMAIN row /\ row[p].state = "done"
    <3>1. c \in DOMAIN row /\ row[c].graph = row[l].graph
      BY <2>2 DEF Released
    <3>2. \A p \in row[c].depends : p \in DOMAIN row /\ row[p].graph = row[c].graph
      BY <3>1 DEF Rows, DependentsLinked
    <3>3. DOMAIN row \subseteq Leaf
      BY DEF Objects, ObjectsTypeOK, Rows, RowsTypeOK
    <3> QED
      BY <2>2, <3>1, <3>2, <3>3 DEF Released
  <2> QED
    BY <1>1, <1>3, <1>4, <2>1, <2>2 DEF WorkInv
<1>8. CASE ReleaseDependents(l) \/ DependentsConflict(l) \/ WorkerCrash(l)
  <2>1. /\ second[l] # "none"
        /\ second' \in {[second EXCEPT ![l] = "over"], [second EXCEPT ![l] = "lost"]}
        /\ releases' = [releases EXCEPT ![l] = {}]
    BY <1>8 DEF ReleaseDependents, DependentsConflict, WorkerCrash
  <2> QED
    BY <1>1, <1>3, <1>4, <2>1 DEF WorkInv
<1> QED
  BY <1>5, <1>6, <1>7, <1>8 DEF Work

(* The program and the twin do nothing to them.                             *)
LEMMA WorkStep == Objects /\ Rows /\ WorkInv /\ [Next]_vars => WorkInv'
<1> SUFFICES ASSUME Objects, Rows, WorkInv, [Next]_vars PROVE WorkInv'
  OBVIOUS
<1>1. ASSUME workVars' = workVars, phase # "committed" \/ (row' = row /\ phase' = phase)
      PROVE  WorkInv'
  BY <1>1 DEF WorkInv, workVars
<1>2. ASSUME NEW n \in Node, Delay(n) PROVE WorkInv'
  <2>1. workVars' = workVars /\ phase = "building"
    BY <1>2, Zenon DEF Delay, Building, Raise, UseExisting, StoreGraph, ExecuteDirect
  <2> QED
    BY <1>1, <2>1
<1>3. CASE \/ \E b \in Box : MakeChain(b) \/ MakeGroup(b)
           \/ \E n, child \in Node : ConnectOnDone(n, child)
           \/ \E l \in Leaf, b \in Box : SplitMethod(l, b)
  <2>1. NothingDelayed
    BY <1>3 DEF MakeChain, MakeGroup, ConnectOnDone, SplitMethod
  <2> QED
    BY <1>1, <2>1 DEF NothingDelayed
<1>4. CASE PerformDirect \/ PerformRaises \/ Commit \/ TwinLive \/ TwinStarts \/ UNCHANGED vars
  BY <1>1, <1>4 DEF PerformDirect, PerformRaises, Raise, Commit, TwinLive, TwinStarts, vars,
     delayVars
<1>5. ASSUME NEW l \in Leaf, Work(l) PROVE WorkInv'
  BY <1>5, WorkKeepsWork
<1> QED
  BY <1>2, <1>3, <1>4, <1>5 DEF Next

LEMMA RowsStep == Objects /\ OrderInv /\ Rows /\ WorkInv /\ [Next]_vars => Rows'
<1> SUFFICES ASSUME Objects, OrderInv, Rows, WorkInv, [Next]_vars PROVE Rows'
  OBVIOUS
<1>1. Wants \subseteq Wants' /\ calls \in Nat
  BY OrderStep DEF Objects, ObjectsTypeOK
<1>2. ASSUME Building, NothingDelayed, prepared \subseteq prepared',
             identity' \in [prepared' -> {Key, NoKey}]
      PROVE  Rows'
  BY <1>1, <1>2, KeepsRows DEF Building, NothingDelayed, workVars
<1>3. ASSUME NEW b \in Box, MakeChain(b) \/ MakeGroup(b) PROVE Rows'
  <2>1. Building /\ NothingDelayed /\ prepared' = prepared /\ identity' = identity
    BY <1>3 DEF MakeChain, MakeGroup, NewChain, NewGroup, MakeBox
  <2> QED
    BY <1>2, <2>1 DEF Rows, RowsTypeOK
<1>4. ASSUME NEW n \in Node, NEW child \in Node, ConnectOnDone(n, child) PROVE Rows'
  <2>1. Building /\ NothingDelayed /\ prepared' = prepared /\ identity' = identity
    BY <1>4 DEF ConnectOnDone, OnDone
  <2> QED
    BY <1>2, <2>1 DEF Rows, RowsTypeOK
<1>5. ASSUME NEW l \in Leaf, NEW b \in Box, SplitMethod(l, b) PROVE Rows'
  <2>1. Building /\ NothingDelayed /\ l \in prepared
    BY <1>5 DEF SplitMethod
  <2>2. PICK s : /\ prepared' = prepared \cup Range(s)
                 /\ identity' = [m \in prepared \cup Range(s) |->
                                   IF m \in prepared THEN identity[m] ELSE identity[l]]
    BY <1>5 DEF SplitMethod, Split
  <2>3. identity' \in [prepared' -> {Key, NoKey}] /\ prepared \subseteq prepared'
    BY <2>1, <2>2 DEF Rows, RowsTypeOK
  <2> QED
    BY <1>2, <2>1, <2>3
<1>6. ASSUME NEW n \in Node, Delay(n) PROVE Rows'
  BY <1>1, <1>6, DelayKeepsRows
<1>7. ASSUME NEW l \in Leaf, Work(l) PROVE Rows'
  BY <1>1, <1>7, WorkKeepsRows
<1>8. CASE PerformDirect \/ PerformRaises \/ Commit \/ TwinLive \/ TwinStarts \/ UNCHANGED vars
  <2>1. /\ calls' = calls /\ job' = job /\ row' \in {row, <<>>}
        /\ prepared' = prepared /\ identity' = identity /\ workVars' = workVars
    BY <1>8 DEF PerformDirect, PerformRaises, Raise, Commit, TwinLive, TwinStarts, vars,
         delayVars, delayableVars, workVars
  <2>2. /\ phase' \in {"building", "direct", "committed", "error"}
        /\ phase' = "building" => phase = "building" /\ dropped' = dropped /\ row' = row
    BY <1>8 DEF PerformDirect, PerformRaises, Raise, Commit, TwinLive, TwinStarts, vars,
         delayVars, Rows, RowsTypeOK
  <2> QED
    BY <1>1, <2>1, <2>2, KeepsRows DEF Rows, RowsTypeOK
<1> QED
  BY <1>3, <1>4, <1>5, <1>6, <1>7, <1>8 DEF Next

LEMMA RowsInit == Init => Rows
<1> SUFFICES ASSUME Init PROVE Rows
  OBVIOUS
<1>1. /\ job = <<>> /\ row = <<>> /\ phase = "building" /\ calls = 0
      /\ identity \in [prepared -> {Key, NoKey}]
  BY DEF Init
<1>2. DOMAIN job = {} /\ DOMAIN row = {}
  BY <1>1
<1>3. job \in [DOMAIN job -> JobRecord] /\ row \in [DOMAIN row -> RowRecord]
  BY <1>1, <1>2
<1>4. UuidsInv
  <2>1. UsedUuids \ {NoGraph} = {}
    BY <1>2 DEF UsedUuids
  <2> QED
    BY <1>1, <2>1, FS_EmptySet DEF UuidsInv
<1>5. RowsTypeOK
  BY <1>1, <1>2, <1>3 DEF RowsTypeOK
<1>6. JobsInv /\ RowsInv /\ DependentsLinked
  BY <1>2 DEF JobsInv, RowsInv, DependentsLinked
<1> QED
  BY <1>4, <1>5, <1>6 DEF Rows

(* The program's objects, the order they ask for, the rows and what the     *)
(* workers do, together.                                                    *)
Delayed == Objects /\ OrderInv /\ Rows /\ WorkInv

LEMMA DelayedOK == Spec => []Delayed
<1>1. Init => Delayed
  BY ObjectsInit, OrderInit, RowsInit DEF Delayed, Init, WorkInv
<1>2. Delayed /\ [Next]_vars => Delayed'
  BY ObjectsStep, OrderStep, RowsStep, WorkStep DEF Delayed
<1> QED
  BY <1>1, <1>2, PTL DEF Spec

(* Parent and child know each other and have rows of the same graph.  A     *)
(* child is released only when all its parents are done, and as long as it  *)
(* waits although they are, the worker of one of them has its release to    *)
(* commit or has lost it (delay, add_depends, store, enqueue_waiting).      *)
THEOREM DependentsStayLinked == Spec => []DependentsLinked
<1>1. Delayed => DependentsLinked
  BY DEF Delayed, Rows
<1> QED
  BY <1>1, DelayedOK, PTL

(* Among some jobs there is one that comes after none of them.              *)
LEMMA FirstOf ==
  ASSUME NEW R \in Relations, \A a \in Leaf : <<a, a>> \notin Closure(R),
         NEW U \in SUBSET Leaf, U # {}
  PROVE  \E l \in U : \A p \in U : <<p, l>> \notin R
<1> SUFFICES ASSUME \A l \in U : \E p \in U : <<p, l>> \in R PROVE FALSE
  BY Zenon
<1> DEFINE before(l) == {p \in Leaf : <<p, l>> \in Closure(R)}
           sizes == {Cardinality(before(l)) : l \in U}
<1>1. \A l : IsFiniteSet(before(l)) /\ Cardinality(before(l)) \in Nat
  BY FS_Subset, FS_CardinalityType, DelayablesAssumption
<1>2. sizes \in SUBSET Nat /\ sizes # {}
  BY <1>1
<1>3. PICK k \in sizes : \A y \in sizes : k <= y
  <2> HIDE DEF sizes
  <2> QED
    BY <1>2, LeastNatural
<1>4. PICK l \in U : k = Cardinality(before(l))
  BY <1>3
<1>5. PICK p \in U : <<p, l>> \in R
  BY <1>4
<1>6. R \subseteq Closure(R) /\ IsTransitive(Closure(R))
  BY ClosureContains
<1>7. l \in Leaf /\ p \in Leaf /\ <<p, l>> \in Closure(R)
  BY <1>4, <1>5, <1>6
<1>8. before(p) \in SUBSET before(l) /\ p \in before(l) /\ p \notin before(p)
  BY <1>6, <1>7 DEF IsTransitive
<1>9. Cardinality(before(p)) < Cardinality(before(l))
  <2>1. PICK P, Q : P = before(p) /\ Q = before(l)
    OBVIOUS
  <2>2. /\ IsFiniteSet(Q) /\ P \in SUBSET Q /\ P # Q
        /\ Cardinality(P) \in Nat /\ Cardinality(Q) \in Nat
    BY <1>1, <1>8, <2>1
  <2>3. Cardinality(P) <= Cardinality(Q) /\ Cardinality(Q) # Cardinality(P)
    BY <2>2, FS_Subset
  <2> QED
    BY <2>1, <2>2, <2>3
<1>10. k <= Cardinality(before(p))
  BY <1>3, <1>5
<1> HIDE DEF before
<1> QED
  BY <1>1, <1>4, <1>9, <1>10

-----------------------------------------------------------------------------
(* The jobs with the same identity key.                                     *)

(* The transaction sees at most one job with the key, as long as it stores  *)
(* single jobs only, and the twin is one it sees if it did not come later.  *)
IdentityInv ==
  /\ ~ raced /\ twin \in Live => seen \in Live
  /\ alone => \A x, y \in SameIdentity : x = y

LEMMA SameIdentityRules ==
  /\ \A x : x \in SameIdentity <=> \/ x \in DOMAIN row /\ row[x].key = Key /\ row[x].state \in Live
                                   \/ x = Twin /\ seen \in Live
BY DEF SameIdentity

(* Nothing is added to the jobs that are seen.                              *)
LEMMA NothingKeyed ==
  ASSUME IdentityInv, SameIdentity' \subseteq SameIdentity, alone' => alone, seen' = seen,
         \/ raced' = raced /\ (twin' = twin \/ twin' = "started")
         \/ raced' = TRUE
  PROVE  IdentityInv'
<1>1. "started" \notin Live
  BY DEF Live
<1>2. (~ raced /\ twin \in Live => seen \in Live)'
  <2>1. Live' = Live
    BY DEF Live
  <2> QED
    BY <1>1, <2>1 DEF IdentityInv
<1>3. (alone => \A x, y \in SameIdentity : x = y)'
  BY DEF IdentityInv
<1> QED
  BY <1>2, <1>3 DEF IdentityInv

LEMMA StoreKeepsIdentity ==
  ASSUME Objects, Rows, IdentityInv, phase = "building", calls < MaxCalls, NEW n \in Created,
         DOMAIN ConnectGraphs(n) \cap dropped = {}, Accepted(DOMAIN ConnectGraphs(n)),
         StoreGraph(n, ConnectGraphs(n))
  PROVE  IdentityInv'
<1>1. PICK g, V : g = ConnectGraphs(n) /\ V = DOMAIN g
  OBVIOUS
<1>2. PICK u \in GraphUuid \cup {NoGraph} : RowsStored(V, g, u)
  BY <1>1, StoredRows DEF Accepted
<1>3. /\ alone' = (alone /\ Cardinality(V) = 1) /\ seen' = seen /\ twin' = twin /\ raced' = raced
      /\ \A l \in V : identity[l] = Key => SameIdentity = {}
  BY <1>1 DEF StoreGraph
<1>4. V \in SUBSET Leaf /\ V \subseteq prepared
  BY <1>1, GraphOfJobs
<1>5. (~ raced /\ twin \in Live => seen \in Live)'
  BY <1>3 DEF IdentityInv, Live
<1>6. ASSUME alone', NEW x \in SameIdentity', NEW y \in SameIdentity' PROVE x = y
  <2>1. PICK v : V = {v}
    <3>1. IsFiniteSet(V)
      BY <1>4, FS_Subset, DelayablesAssumption
    <3> QED
      BY <1>3, <1>6, <3>1, FS_Singleton
  <2>2. \A z : z \in SameIdentity' <=>
                 \/ z \in DOMAIN row' /\ row'[z].key = Key /\ row'[z].state \in Live
                 \/ z = Twin /\ seen \in Live
    BY <1>3 DEF SameIdentity, Live
  <2>3. row'[v].key = identity[v] /\ DOMAIN row' = V \cup DOMAIN row
    BY <1>2, <2>1 DEF RowsStored
  <2>4. \A z \in DOMAIN row' : z # v => z \in DOMAIN row /\ row'[z] = row[z]
    BY <1>2, <2>1, <2>3 DEF RowsStored
  <2>5. \A z \in SameIdentity' : z # v => z \in SameIdentity
    BY <2>2, <2>4, SameIdentityRules
  <2>6. CASE identity[v] = Key
    <3>1. SameIdentity = {}
      BY <1>3, <2>1, <2>6
    <3> QED
      BY <1>6, <2>5, <3>1
  <2>7. CASE identity[v] # Key
    <3>1. \A z \in SameIdentity' : z \in SameIdentity
      <4> SUFFICES ASSUME v \in SameIdentity' PROVE v \in SameIdentity
        BY <2>5
      <4>1. v = Twin /\ seen \in Live
        BY <2>2, <2>3, <2>7
      <4> QED
        BY <4>1, SameIdentityRules
    <3> QED
      BY <1>3, <1>6, <3>1 DEF IdentityInv
  <2> QED
    BY <2>6, <2>7
<1> QED
  BY <1>5, <1>6 DEF IdentityInv

LEMMA WorkKeepsIdentity ==
  ASSUME Rows, WorkInv, IdentityInv, NEW l \in Leaf, Work(l)
  PROVE  IdentityInv'
<1>1. /\ StatesOnly /\ OnlyWork
      /\ Finishes(l, "done") \/ Finishes(l, "failed") \/ Frees(l) \/ row' = row
  BY WorkRows DEF Rows
<1>2. alone' = alone /\ seen' = seen /\ raced' = raced /\ twin' = twin
  BY <1>1 DEF OnlyWork
<1>3. \A c \in DOMAIN row : row'[c].key = row[c].key /\ (row'[c].state \in Live => row[c].state \in Live)
  BY <1>1 DEF StatesOnly, Finishes, Frees, Live
<1>4. SameIdentity' \subseteq SameIdentity
  <2>1. DOMAIN row' = DOMAIN row
    BY <1>1 DEF StatesOnly
  <2>2. \A z : z \in SameIdentity' <=>
                 \/ z \in DOMAIN row' /\ row'[z].key = Key /\ row'[z].state \in Live
                 \/ z = Twin /\ seen \in Live
    BY <1>2 DEF SameIdentity, Live
  <2> QED
    BY <1>3, <2>1, <2>2, SameIdentityRules
<1> QED
  BY <1>2, <1>4, NothingKeyed

LEMMA IdentityStep == Objects /\ Rows /\ WorkInv /\ IdentityInv /\ [Next]_vars => IdentityInv'
<1> SUFFICES ASSUME Objects, Rows, WorkInv, IdentityInv, [Next]_vars PROVE IdentityInv'
  OBVIOUS
<1>1. ASSUME row' = row \/ row' = <<>>, alone' = alone, seen' = seen,
             \/ raced' = raced /\ (twin' = twin \/ twin' = "started")
             \/ raced' = TRUE
      PROVE  IdentityInv'
  <2>1. SameIdentity' \subseteq SameIdentity
    <3>1. CASE row' = row
      BY <1>1, <3>1 DEF SameIdentity, Live
    <3>2. CASE row' = <<>>
      BY <1>1, <3>2 DEF SameIdentity, Live
    <3> QED
      BY <1>1, <3>1, <3>2
  <2> QED
    BY <1>1, <2>1, NothingKeyed
<1>2. CASE NothingDelayed
  BY <1>1, <1>2 DEF NothingDelayed
<1>3. ASSUME NEW n \in Node, Delay(n) PROVE IdentityInv'
  <2>1. /\ phase = "building" /\ calls < MaxCalls /\ n \in Created
        /\ DOMAIN ConnectGraphs(n) \cap dropped = {}
    BY <1>3 DEF Delay, Building, Top
  <2>2. PICK g : g = ConnectGraphs(n)
    OBVIOUS
  <2>3. CASE Raise
    BY <1>1, <2>3 DEF Raise
  <2>4. CASE UseExisting(g)
    BY <1>1, <2>4 DEF UseExisting
  <2>5. CASE Accepted(DOMAIN g) /\ StoreGraph(n, g)
    BY <2>1, <2>2, <2>5, StoreKeepsIdentity
  <2>6. CASE ExecuteDirect(n, g)
    BY <1>1, <2>6 DEF ExecuteDirect
  <2> QED
    BY <1>3, <2>2, <2>3, <2>4, <2>5, <2>6 DEF Delay
<1>4. ASSUME NEW l \in Leaf, Work(l) PROVE IdentityInv'
  BY <1>4, WorkKeepsIdentity
<1>5. CASE \/ \E b \in Box : MakeChain(b) \/ MakeGroup(b)
           \/ \E n, child \in Node : ConnectOnDone(n, child)
           \/ \E l \in Leaf, b \in Box : SplitMethod(l, b)
  BY <1>2, <1>5 DEF MakeChain, MakeGroup, ConnectOnDone, SplitMethod
<1>6. CASE PerformDirect \/ PerformRaises \/ Commit \/ TwinLive \/ TwinStarts \/ UNCHANGED vars
  <2>1. /\ row' = row \/ row' = <<>>
        /\ alone' = alone /\ seen' = seen
        /\ \/ raced' = raced /\ (twin' = twin \/ twin' = "started")
           \/ raced' = TRUE
    BY <1>6 DEF PerformDirect, PerformRaises, Raise, Commit, TwinLive, TwinStarts, vars, delayVars
  <2> QED
    BY <1>1, <2>1
<1> QED
  BY <1>3, <1>4, <1>5, <1>6 DEF Next

(* Two jobs with the same identity key that are to be performed come from a *)
(* graph of several jobs, or from a transaction the other one did not see   *)
(* (delay, job_record_with_same_identity_key).                              *)
THEOREM OnePerIdentity == Spec => []OneJobPerIdentity
<1>1. Init => IdentityInv
  <2> SUFFICES ASSUME Init PROVE IdentityInv
    OBVIOUS
  <2>1. row = <<>> /\ twin = seen
    BY DEF Init
  <2> QED
    BY <2>1 DEF IdentityInv, SameIdentity
<1>2. Delayed /\ IdentityInv /\ [Next]_vars => IdentityInv'
  BY IdentityStep DEF Delayed
<1>3. IdentityInv => OneJobPerIdentity
  <2> SUFFICES ASSUME IdentityInv, alone, ~ raced,
                      NEW S, S = {l \in DOMAIN row : row[l].key = Key /\ row[l].state \in Live}
                                   \cup (IF twin \in Live THEN {Twin} ELSE {})
               PROVE  Cardinality(S) <= 1
    BY DEF OneJobPerIdentity
  <2>1. S \subseteq SameIdentity
    BY SameIdentityRules DEF IdentityInv
  <2>2. \A x, y \in S : x = y
    BY <2>1 DEF IdentityInv
  <2>3. CASE S = {}
    BY <2>3, FS_EmptySet
  <2>4. CASE S # {}
    <3>1. PICK x \in S : TRUE
      BY <2>4
    <3>2. S = {x}
      BY <2>2, <3>1
    <3>3. Cardinality({x}) = 1
      BY FS_Singleton
    <3> QED
      BY <3>2, <3>3
  <2> QED
    BY <2>3, <2>4
<1> QED
  BY <1>1, <1>2, <1>3, DelayedOK, PTL DEF Spec

-----------------------------------------------------------------------------
(* The order that is stored.                                                *)

DependsOn == UNION {row[l].depends \X {l} : l \in DOMAIN row}

LEMMA DependsOnRules ==
  ASSUME RowsTypeOK, prepared \subseteq Leaf
  PROVE  /\ DependsOn \in Relations /\ StoredOrder = Closure(DependsOn)
         /\ \A p, l : <<p, l>> \in DependsOn <=> l \in DOMAIN row /\ p \in row[l].depends
<1>1. \A e : e \in DependsOn <=> \E l \in DOMAIN row : e \in row[l].depends \X {l}
  BY DEF DependsOn
<1>2. \A p, l, m : <<p, l>> \in row[m].depends \X {m} <=> p \in row[m].depends /\ l = m
  OBVIOUS
<1>3. ASSUME NEW p, NEW l
      PROVE  <<p, l>> \in DependsOn <=> l \in DOMAIN row /\ p \in row[l].depends
  <2>1. <<p, l>> \in DependsOn <=> \E m \in DOMAIN row : <<p, l>> \in row[m].depends \X {m}
    BY <1>1, Zenon
  <2> QED
    BY <1>2, <2>1, Zenon
<1>4. ASSUME NEW l \in DOMAIN row PROVE row[l].depends \subseteq Leaf /\ l \in Leaf
  BY DEF RowsTypeOK, RowRecord
<1>5. DependsOn \in Relations
  BY <1>1, <1>4 DEF Relations
<1> QED
  BY <1>3, <1>5 DEF StoredOrder, DependsOn

(* A graph that is committed goes on as far as it may: when the workers     *)
(* have nothing more to do, each job is done, or failed, or comes after a   *)
(* job that failed or whose worker lost its second transaction (delay,      *)
(* enqueue_waiting).                                                        *)
THEOREM GraphsGoOn == Spec => []GraphGoesOn
<1>1. Delayed => GraphGoesOn
  <2> SUFFICES ASSUME Delayed,
                      \A l \in DOMAIN row : row[l].state # "pending"
                                            /\ second[l] \notin {"due", "read"}
               PROVE  \A l \in DOMAIN row : \/ row[l].state \in {"done", "failed"}
                                            \/ \E p \in Stopped : <<p, l>> \in StoredOrder
    BY DEF GraphGoesOn
  <2> DEFINE open == {l \in DOMAIN row : /\ row[l].state \notin {"done", "failed"}
                                         /\ \A p \in Stopped : <<p, l>> \notin StoredOrder}
  <2> SUFFICES ASSUME open # {} PROVE FALSE
    BY Zenon
  <2>1. \A l \in DOMAIN row : l \in Leaf /\ row[l] \in RowRecord
    BY DEF Delayed, Rows, RowsTypeOK, Objects, ObjectsTypeOK
  <2>2. open \in SUBSET Leaf
    BY <2>1
  <2>3. Wants \in Relations /\ \A a \in Leaf : <<a, a>> \notin Closure(Wants)
    BY WantsType DEF WantsRules, Delayed, OrderInv
  <2>4. /\ DependsOn \in Relations /\ StoredOrder = Closure(DependsOn)
        /\ \A p, l : <<p, l>> \in DependsOn <=> l \in DOMAIN row /\ p \in row[l].depends
    BY DependsOnRules DEF Delayed, Rows, Objects, ObjectsTypeOK
  <2>5. DependsOn \subseteq StoredOrder /\ IsTransitive(StoredOrder)
    BY <2>4, ClosureContains
  <2>6. PICK l \in open : \A p \in open : <<p, l>> \notin Wants
    <3> HIDE DEF open
    <3> QED
      BY <2>2, <2>3, FirstOf
  <2>7. row[l].state = "wait_dependencies" /\ l \in DOMAIN row /\ l \in Leaf
    BY <2>1, <2>6 DEF RowRecord
  <2>8. \A p \in row[l].depends :
          /\ p \in DOMAIN row /\ p \in Leaf /\ <<p, l>> \in Wants /\ <<p, l>> \in StoredOrder
    BY <2>1, <2>4, <2>5, <2>7 DEF Delayed, Rows, DependentsLinked, RowsInv
  <2>9. CASE \A p \in row[l].depends : row[p].state = "done"
    <3>1. PICK p \in row[l].depends : second[p] = "lost"
      BY <2>7, <2>8, <2>9 DEF Delayed, Rows, DependentsLinked
    <3>2. p \in Stopped /\ <<p, l>> \in StoredOrder
      BY <2>8, <3>1 DEF Stopped
    <3> QED
      BY <2>6, <3>2
  <2>10. ASSUME NEW p \in row[l].depends, row[p].state # "done" PROVE FALSE
    <3>1. p \in DOMAIN row /\ p \in Leaf /\ <<p, l>> \in StoredOrder /\ p \notin open
      BY <2>6, <2>8
    <3>2. CASE row[p].state = "failed"
      <4>1. p \in Stopped
        BY <3>1, <3>2 DEF Stopped
      <4> QED
        BY <2>6, <3>1, <4>1
    <3>3. CASE row[p].state # "failed"
      <4>1. PICK q \in Stopped : <<q, p>> \in StoredOrder
        BY <2>10, <3>1, <3>3
      <4>2. q \in Leaf
        BY <2>1 DEF Stopped
      <4>3. <<q, l>> \in StoredOrder
        BY <2>5, <2>7, <3>1, <4>1, <4>2 DEF IsTransitive
      <4> QED
        BY <2>6, <4>1, <4>3
    <3> QED
      BY <3>2, <3>3
  <2> QED
    BY <2>9, <2>10
<1> QED
  BY <1>1, DelayedOK, PTL

(* A graph that is stored adds its edges, and nothing else.                 *)
LEMMA DependsOnStored ==
  ASSUME Objects, Rows, Rows', prepared' \subseteq Leaf, NEW n \in Created,
         NEW g, g = ConnectGraphs(n), NEW V, V = DOMAIN g, NEW u, RowsStored(V, g, u)
  PROVE  DependsOn' = DependsOn \cup Edges(g)
<1>1. /\ DependsOn \in Relations
      /\ \A p, l : <<p, l>> \in DependsOn <=> l \in DOMAIN row /\ p \in row[l].depends
  BY DependsOnRules DEF Rows, Objects, ObjectsTypeOK
<1>2. /\ DependsOn' \in Relations
      /\ \A p, l : <<p, l>> \in DependsOn' <=> l \in DOMAIN row' /\ p \in row'[l].depends
  <2>1. RowsTypeOK' /\ (prepared \subseteq Leaf)'
    BY DEF Rows
  <2>2. (RowsTypeOK /\ prepared \subseteq Leaf =>
          /\ DependsOn \in Relations
          /\ \A p, l : <<p, l>> \in DependsOn <=> l \in DOMAIN row /\ p \in row[l].depends)'
    BY DependsOnRules, PTL
  <2>3. Relations' = Relations
    BY DEF Relations
  <2> QED
    BY <2>1, <2>2, <2>3
<1>3. g \in [V -> SUBSET V] /\ V \in SUBSET Leaf
  BY GraphOfJobs
<1>4. Edges(g) \in Relations
  BY <1>3 DEF Edges, Relations
<1>5. \A p, l : <<p, l>> \in Edges(g) <=> l \in V /\ p \in Parents(g, l)
  BY <1>3 DEF Edges, Parents
<1>6. \A p, l : l \in DOMAIN row' /\ p \in row'[l].depends
                  <=> \/ l \in DOMAIN row /\ p \in row[l].depends
                      \/ l \in V /\ p \in Parents(g, l)
  <2>1. ASSUME NEW l, NEW p, l \in DOMAIN row, p \in row[l].depends
        PROVE  l \in DOMAIN row' /\ p \in row'[l].depends
    BY <2>1, StoredGains
  <2>2. ASSUME NEW l, NEW p, l \in V, p \in Parents(g, l)
        PROVE  l \in DOMAIN row' /\ p \in row'[l].depends
    BY <2>2 DEF RowsStored
  <2> QED
    BY <2>1, <2>2, StoredDepends
<1>7. \A p, l : <<p, l>> \in DependsOn' <=> <<p, l>> \in DependsOn \/ <<p, l>> \in Edges(g)
  BY <1>1, <1>2, <1>5, <1>6, Zenon
<1>8. \A R \in Relations : \A e \in R : e = <<e[1], e[2]>>
  BY DEF Relations
<1> QED
  BY <1>1, <1>2, <1>4, <1>7, <1>8

LEMMA StoreKeepsAsked ==
  ASSUME Objects, Rows, Rows', prepared' \subseteq Leaf, GraphStoredAsAsked,
         phase = "building", calls < MaxCalls, NEW n \in Created,
         DOMAIN ConnectGraphs(n) \cap dropped = {}, Accepted(DOMAIN ConnectGraphs(n)),
         StoreGraph(n, ConnectGraphs(n))
  PROVE  GraphStoredAsAsked'
<1> SUFFICES ASSUME plain' PROVE StoredOrder' = wanted'
  BY DEF GraphStoredAsAsked
<1>1. PICK g, V : g = ConnectGraphs(n) /\ V = DOMAIN g
  OBVIOUS
<1>2. PICK u \in GraphUuid \cup {NoGraph} : RowsStored(V, g, u)
  BY <1>1, StoredRows DEF Accepted
<1>3. /\ wanted' = Closure(wanted \cup Required(Visited(n)))
      /\ plain /\ Plain(Visited(n))
  BY DEF StoreGraph
<1>4. Required(Visited(n)) = Closure(Edges(g))
  BY <1>1, <1>3, PlainRequired
<1>5. wanted = Closure(DependsOn) /\ DependsOn \in Relations
  BY <1>3, DependsOnRules DEF GraphStoredAsAsked, Rows, Objects, ObjectsTypeOK
<1>6. StoredOrder' = Closure(DependsOn')
  <2>1. (StoredOrder = Closure(DependsOn))'
    BY DEF StoredOrder, DependsOn
  <2> QED
    BY <2>1 DEF Closure
<1>7. DependsOn' = DependsOn \cup Edges(g)
  BY <1>1, <1>2, DependsOnStored
<1>8. Edges(g) \in Relations
  BY <1>1, BeforeRules
<1> QED
  BY <1>3, <1>4, <1>5, <1>6, <1>7, <1>8, ClosureUnion

LEMMA AskedStep ==
  Delayed /\ GraphStoredAsAsked /\ [Next]_vars /\ Delayed' => GraphStoredAsAsked'
<1> SUFFICES ASSUME Delayed, GraphStoredAsAsked, [Next]_vars, Delayed'
             PROVE  GraphStoredAsAsked'
  OBVIOUS
<1>1. ASSUME row' = row, plain' = plain, wanted' = wanted,
             phase' \in {"building", "committed"} => phase \in {"building", "committed"}
      PROVE  GraphStoredAsAsked'
  <2>1. StoredOrder' = StoredOrder
    BY <1>1 DEF StoredOrder, Closure
  <2> QED
    BY <1>1, <2>1 DEF GraphStoredAsAsked
<1>2. ASSUME phase' \notin {"building", "committed"} PROVE GraphStoredAsAsked'
  BY <1>2 DEF GraphStoredAsAsked
<1>3. ASSUME NEW n \in Node, Delay(n) PROVE GraphStoredAsAsked'
  <2>1. /\ phase = "building" /\ calls < MaxCalls /\ n \in Created
        /\ DOMAIN ConnectGraphs(n) \cap dropped = {}
    BY <1>3 DEF Delay, Building, Top
  <2>2. PICK g : g = ConnectGraphs(n)
    OBVIOUS
  <2>3. CASE Raise
    BY <1>2, <2>3 DEF Raise
  <2>4. CASE UseExisting(g)
    BY <1>1, <2>4 DEF UseExisting
  <2>5. CASE Accepted(DOMAIN g) /\ StoreGraph(n, g)
    <3>1. prepared' \subseteq Leaf
      BY DEF Delayed, Objects, ObjectsTypeOK
    <3> QED
      BY <2>1, <2>2, <2>5, <3>1, StoreKeepsAsked DEF Delayed
  <2>6. CASE ExecuteDirect(n, g)
    BY <1>2, <2>6 DEF ExecuteDirect
  <2> QED
    BY <1>3, <2>2, <2>3, <2>4, <2>5, <2>6 DEF Delay
<1>4. ASSUME NEW l \in Leaf, Work(l) PROVE GraphStoredAsAsked'
  <2>1. /\ plain' = plain /\ wanted' = wanted /\ phase' = phase
        /\ DOMAIN row' = DOMAIN row /\ \A c \in DOMAIN row : row'[c].depends = row[c].depends
    BY <1>4, WorkRows DEF StatesOnly, OnlyWork, Delayed, Rows
  <2>2. UNION {row'[c].depends \X {c} : c \in DOMAIN row'}
          = UNION {row[c].depends \X {c} : c \in DOMAIN row}
    BY <2>1
  <2>3. StoredOrder' = StoredOrder
    BY <2>2 DEF StoredOrder, Closure
  <2> QED
    BY <2>1, <2>3 DEF GraphStoredAsAsked
<1>5. CASE \/ \E b \in Box : MakeChain(b) \/ MakeGroup(b)
           \/ \E n, child \in Node : ConnectOnDone(n, child)
           \/ \E l \in Leaf, b \in Box : SplitMethod(l, b)
  <2>1. NothingDelayed
    BY <1>5 DEF MakeChain, MakeGroup, ConnectOnDone, SplitMethod
  <2> QED
    BY <1>1, <2>1 DEF NothingDelayed
<1>6. CASE PerformDirect \/ PerformRaises
  <2>1. phase' \notin {"building", "committed"}
    BY <1>6 DEF PerformDirect, PerformRaises, Raise
  <2> QED
    BY <1>2, <2>1
<1>7. CASE Commit \/ TwinLive \/ TwinStarts \/ UNCHANGED vars
  BY <1>1, <1>7 DEF Commit, TwinLive, TwinStarts, vars, delayVars
<1> QED
  BY <1>3, <1>4, <1>5, <1>6, <1>7 DEF Next

(* The jobs that are stored depend on each other as the chains, the groups  *)
(* and the calls of on_done ask for, through any other job and no more than *)
(* that, as long as the shapes are plain (_merge_graph, _connect_graphs,    *)
(* add_depends, store).                                                     *)
THEOREM StoredAsAsked == Spec => []GraphStoredAsAsked
<1>1. Init => GraphStoredAsAsked
  <2> SUFFICES ASSUME Init PROVE GraphStoredAsAsked
    OBVIOUS
  <2>1. row = <<>> /\ wanted = {}
    BY DEF Init
  <2>2. UNION {row[l].depends \X {l} : l \in DOMAIN row} = {}
    BY <2>1
  <2>3. \A e : e \notin Closure({})
    <3>1. {} \in SUBSET Leaf
      OBVIOUS
    <3> QED
      BY <3>1, Zenon DEF Closure
  <2> QED
    BY <2>1, <2>2, <2>3 DEF GraphStoredAsAsked, StoredOrder
<1> QED
  BY <1>1, AskedStep, DelayedOK, PTL DEF Spec

-----------------------------------------------------------------------------
(* topological_sort.                                                        *)

LEMMA SetToSeqsRules ==
  ASSUME NEW S, IsFiniteSet(S), NEW s \in SetToSeqs(S)
  PROVE  s \in Seq(S) /\ IsInjective(s) /\ Range(s) = S
<1>1. PICK k : k = Cardinality(S)
  OBVIOUS
<1>2. k \in Nat
  BY <1>1, FS_CardinalityType
<1>3. s \in [1..k -> S] /\ \A i, j \in 1..k : i # j => s[i] # s[j]
  BY <1>1 DEF SetToSeqs
<1>4. IsInjective(s) /\ s \in Injection(1..k, S)
  BY <1>3 DEF IsInjective, Injection
<1>5. Cardinality(1..k) = k
  BY <1>2, FS_Interval
<1>6. s \in Surjection(1..k, S)
  BY <1>1, <1>4, <1>5, FS_Injection
<1>7. Range(s) = S
  BY <1>3, <1>6 DEF Range, Surjection
<1>8. s \in Seq(S)
  BY <1>2, <1>3
<1> QED
  BY <1>4, <1>7, <1>8

(* q is p with v at its end.                                                *)
IsAppended(S, p, v, q) ==
  /\ q \in Seq(S) /\ Len(q) = Len(p) + 1 /\ q[Len(q)] = v
  /\ \A i \in 1..Len(p) : q[i] = p[i]
  /\ \A x : x \in Range(q) <=> x \in Range(p) \/ x = v
  /\ IsInjective(p) /\ v \notin Range(p) => IsInjective(q)

LEMMA AppendRules ==
  ASSUME NEW S, NEW p \in Seq(S), NEW v \in S
  PROVE  IsAppended(S, p, v, Append(p, v))
<1> SUFFICES ASSUME NEW q, q = Append(p, v) PROVE IsAppended(S, p, v, q)
  OBVIOUS
<1>1. /\ q \in Seq(S) /\ Len(q) = Len(p) + 1 /\ q[Len(q)] = v /\ Len(p) \in Nat
      /\ \A i \in 1..Len(p) : q[i] = p[i]
  OBVIOUS
<1>2. \A i : i \in 1..Len(q) <=> i \in 1..Len(p) \/ i = Len(q)
  BY <1>1
<1>3. \A x : x \in Range(q) <=> x \in Range(p) \/ x = v
  <2>1. \A x : x \in Range(q) <=> \E i \in 1..Len(q) : x = q[i]
    BY <1>1, InRange
  <2>2. \A x : x \in Range(p) <=> \E i \in 1..Len(p) : x = p[i]
    BY InRange
  <2> QED
    BY <1>1, <1>2, <2>1, <2>2
<1>4. ASSUME IsInjective(p), v \notin Range(p) PROVE IsInjective(q)
  <2>1. \A i, j \in 1..Len(p) : p[i] = p[j] => i = j
    BY <1>4, SeqElements DEF IsInjective
  <2>2. \A i \in 1..Len(p) : p[i] # v
    BY <1>4, InRange
  <2>3. \A i, j \in 1..Len(q) : q[i] = q[j] => i = j
    BY <1>1, <1>2, <2>1, <2>2
  <2> QED
    BY <1>1, <2>3, SeqElements DEF IsInjective
<1> QED
  BY <1>1, <1>3, <1>4 DEF IsAppended

(* The queue without its head, and what is added to it.                     *)
TailThen(r, q, s, m, k) ==
  /\ m \in Nat /\ k \in Nat
  /\ DOMAIN q = 1..(m + 1) /\ DOMAIN s = 1..k /\ DOMAIN r = 1..(m + k)
  /\ \A i \in 1..m : r[i] = q[i + 1]
  /\ \A i \in (m + 1)..(m + k) : r[i] = s[i - m]
  /\ Head(q) = q[1]

LEMMA TailThenExists ==
  ASSUME NEW S, NEW q \in Seq(S), q # <<>>, NEW s \in Seq(S)
  PROVE  /\ Tail(q) \o s \in Seq(S)
         /\ \E m, k : TailThen(Tail(q) \o s, q, s, m, k)
<1>1. PICK m, k : m = Len(q) - 1 /\ k = Len(s)
  OBVIOUS
<1>2. m \in Nat /\ k \in Nat /\ Tail(q) \in Seq(S) /\ Len(Tail(q)) = m /\ Len(q) = m + 1
  BY <1>1
<1>3. /\ DOMAIN q = 1..(m + 1) /\ DOMAIN s = 1..k /\ DOMAIN (Tail(q) \o s) = 1..(m + k)
      /\ Tail(q) \o s \in Seq(S) /\ Head(q) = q[1]
  BY <1>1, <1>2
<1>4. \A i \in 1..m : (Tail(q) \o s)[i] = q[i + 1]
  BY <1>1, <1>2
<1>5. \A i \in (m + 1)..(m + k) : (Tail(q) \o s)[i] = s[i - m]
  BY <1>1, <1>2
<1>6. TailThen(Tail(q) \o s, q, s, m, k)
  BY <1>2, <1>3, <1>4, <1>5 DEF TailThen
<1> QED
  BY <1>3, <1>6, Zenon

LEMMA QueueRules ==
  ASSUME NEW q, NEW s, NEW r, NEW m, NEW k, TailThen(r, q, s, m, k),
         IsInjective(q), IsInjective(s), Range(q) \cap Range(s) = {}
  PROVE  /\ IsInjective(r)
         /\ \A x : x \in Range(r) <=> (x \in Range(q) /\ x # Head(q)) \/ x \in Range(s)
<1>2. /\ m \in Nat /\ k \in Nat /\ Head(q) = q[1]
      /\ DOMAIN q = 1..(m + 1) /\ DOMAIN s = 1..k /\ DOMAIN r = 1..(m + k)
      /\ \A i \in 1..m : r[i] = q[i + 1]
      /\ \A i \in (m + 1)..(m + k) : r[i] = s[i - m]
  BY DEF TailThen
<1>3. \A x : x \in Range(q) <=> \E i \in 1..(m + 1) : x = q[i]
  BY <1>2, Zenon DEF Range
<1>4. \A x : x \in Range(s) <=> \E i \in 1..k : x = s[i]
  BY <1>2, Zenon DEF Range
<1>5. \A x : x \in Range(r) <=> \E i \in 1..(m + k) : x = r[i]
  BY <1>2, Zenon DEF Range
<1>6. \A i, j \in 1..(m + 1) : q[i] = q[j] => i = j
  BY <1>2, Zenon DEF IsInjective
<1>7. \A i, j \in 1..k : s[i] = s[j] => i = j
  BY <1>2, Zenon DEF IsInjective
<1>8. \A i \in 1..(m + 1) : \A j \in 1..k : q[i] # s[j]
  BY <1>3, <1>4
<1>9. ASSUME NEW i \in 1..(m + k), NEW j \in 1..(m + k), r[i] = r[j] PROVE i = j
  <2>1. CASE i <= m /\ j <= m
    BY <1>2, <1>6, <1>9, <2>1
  <2>2. CASE i > m /\ j > m
    BY <1>2, <1>7, <1>9, <2>2
  <2>3. CASE i <= m /\ j > m
    BY <1>2, <1>8, <1>9, <2>3
  <2>4. CASE i > m /\ j <= m
    BY <1>2, <1>8, <1>9, <2>4
  <2> QED
    BY <1>2, <2>1, <2>2, <2>3, <2>4
<1>10. IsInjective(r)
  <2>1. DOMAIN r = 1..(m + k)
    BY <1>2
  <2> QED
    BY <1>9, <2>1, Zenon DEF IsInjective
<1>11. ASSUME NEW x
       PROVE  x \in Range(r) <=> (x \in Range(q) /\ x # Head(q)) \/ x \in Range(s)
  <2>1. ASSUME x \in Range(r) PROVE (x \in Range(q) /\ x # Head(q)) \/ x \in Range(s)
    <3>1. PICK i \in 1..(m + k) : x = r[i]
      BY <1>5, <2>1
    <3>2. CASE i <= m
      <4>1. x = q[i + 1] /\ i + 1 \in 1..(m + 1) /\ 1 \in 1..(m + 1) /\ i + 1 # 1
        BY <1>2, <3>1, <3>2
      <4> QED
        BY <1>2, <1>3, <1>6, <4>1
    <3>3. CASE i > m
      <4>1. x = s[i - m] /\ i - m \in 1..k
        BY <1>2, <3>1, <3>3
      <4> QED
        BY <1>4, <4>1
    <3> QED
      BY <1>2, <3>2, <3>3
  <2>2. ASSUME x \in Range(q), x # Head(q) PROVE x \in Range(r)
    <3>1. PICK i \in 1..(m + 1) : x = q[i]
      BY <1>3, <2>2
    <3>2. i # 1
      BY <1>2, <2>2, <3>1
    <3>3. i - 1 \in 1..m /\ i - 1 \in 1..(m + k) /\ r[i - 1] = q[(i - 1) + 1] /\ (i - 1) + 1 = i
      BY <1>2, <3>1, <3>2
    <3> QED
      BY <1>5, <3>1, <3>3
  <2>3. ASSUME x \in Range(s) PROVE x \in Range(r)
    <3>1. PICK i \in 1..k : x = s[i]
      BY <1>4, <2>3
    <3>2. i + m \in (m + 1)..(m + k) /\ i + m \in 1..(m + k) /\ (i + m) - m = i
      BY <1>2, <3>1
    <3> QED
      BY <1>2, <1>5, <3>1, <3>2
  <2> QED
    BY <2>1, <2>2, <2>3
<1> QED
  BY <1>10, <1>11

(* The edges to l that are not counted yet when P is yielded.               *)
Open(g, P, l) == {e \in Edges(g) : e[2] = l /\ e[1] \notin P}

JobGraph(g) == g \in [DOMAIN g -> SUBSET DOMAIN g] /\ DOMAIN g \in SUBSET Leaf

(* In the middle of the sort the queue has the vertices that are not        *)
(* yielded while their parents are, and depends_per_node counts what the    *)
(* others wait for; a vertex is yielded after its parents.                  *)
Sorting(g, q, w, p) ==
  /\ q \in Seq(DOMAIN g) /\ IsInjective(q)
  /\ p \in Seq(DOMAIN g) /\ IsInjective(p)
  /\ DOMAIN w = DOMAIN g /\ \A l \in DOMAIN g : w[l] = Cardinality(Open(g, Range(p), l))
  /\ \A l \in DOMAIN g : l \in Range(q) <=> l \notin Range(p) /\ Open(g, Range(p), l) = {}
  /\ \A e \in Edges(g) : \A k \in DOMAIN p :
       p[k] = e[2] => \E i \in DOMAIN p : i < k /\ p[i] = e[1]

LEMMA OpenRules ==
  ASSUME NEW g, JobGraph(g), NEW P, NEW l
  PROVE  /\ IsFiniteSet(Open(g, P, l)) /\ Cardinality(Open(g, P, l)) \in Nat
         /\ Open(g, P, l) = {} <=> \A v \in DOMAIN g : l \in g[v] => v \in P
<1>1. IsFiniteSet(Edges(g))
  <2>1. IsFiniteSet(DOMAIN g)
    BY FS_Subset, DelayablesAssumption DEF JobGraph
  <2>2. IsFiniteSet((DOMAIN g) \X (DOMAIN g))
    BY <2>1, FS_Product
  <2> QED
    BY <2>2, FS_Subset DEF Edges
<1>2. IsFiniteSet(Open(g, P, l))
  BY <1>1, FS_Subset DEF Open
<1>3. Open(g, P, l) = {} <=> \A v \in DOMAIN g : l \in g[v] => v \in P
  <2>1. ASSUME Open(g, P, l) = {}, NEW v \in DOMAIN g, l \in g[v], v \notin P PROVE FALSE
    <3>1. <<v, l>>[1] = v /\ <<v, l>>[2] = l /\ <<v, l>> \in (DOMAIN g) \X (DOMAIN g)
      BY <2>1 DEF JobGraph
    <3>2. <<v, l>> \in Open(g, P, l)
      BY <2>1, <3>1, Zenon DEF Open, Edges
    <3> QED
      BY <2>1, <3>2
  <2>2. ASSUME NEW e \in Open(g, P, l), \A v \in DOMAIN g : l \in g[v] => v \in P PROVE FALSE
    BY <2>2 DEF Open, Edges
  <2> QED
    BY <2>1, <2>2
<1> QED
  BY <1>2, <1>3, FS_CardinalityType

(* Yielding v counts its edges.                                             *)
LEMMA OpenNext ==
  ASSUME NEW g, JobGraph(g), NEW P, NEW v \in DOMAIN g, v \notin P, NEW Q, Q = P \cup {v},
         NEW l
  PROVE  IF l \in g[v] THEN Cardinality(Open(g, Q, l)) = Cardinality(Open(g, P, l)) - 1
                       ELSE Open(g, Q, l) = Open(g, P, l)
<1>1. CASE l \in g[v]
  <2>1. <<v, l>>[1] = v /\ <<v, l>>[2] = l /\ <<v, l>> \in (DOMAIN g) \X (DOMAIN g)
    BY <1>1 DEF JobGraph
  <2>2. <<v, l>> \in Open(g, P, l)
    BY <1>1, <2>1, Zenon DEF Open, Edges
  <2>3. \A e \in Edges(g) : e = <<e[1], e[2]>>
    BY DEF Edges
  <2>4. Open(g, Q, l) = Open(g, P, l) \ {<<v, l>>}
    BY <2>1, <2>3 DEF Open
  <2>5. IsFiniteSet(Open(g, P, l))
    BY OpenRules
  <2> HIDE DEF Open
  <2> QED
    BY <1>1, <2>2, <2>4, <2>5, FS_RemoveElement
<1>2. CASE l \notin g[v]
  <2>1. \A e \in Open(g, P, l) : e[1] # v
    BY <1>2 DEF Open, Edges
  <2> QED
    BY <1>2, <2>1 DEF Open
<1> QED
  BY <1>1, <1>2

LEMMA SortingStart ==
  ASSUME NEW g, JobGraph(g), NEW q \in SetToSeqs(RootVertices(g)), NEW w,
         w = [l \in DOMAIN g |-> Cardinality({e \in Edges(g) : e[2] = l})]
  PROVE  Sorting(g, q, w, <<>>)
<1>1. \A l \in DOMAIN g : l \in RootVertices(g) <=> \A v \in DOMAIN g : l \notin g[v]
  BY DEF RootVertices, Range
<1>2. RootVertices(g) \in SUBSET DOMAIN g /\ IsFiniteSet(RootVertices(g))
  <2>1. RootVertices(g) \in SUBSET DOMAIN g /\ DOMAIN g \in SUBSET Leaf
    BY DEF RootVertices, JobGraph
  <2> QED
    BY <2>1, FS_Subset, DelayablesAssumption
<1>3. q \in Seq(RootVertices(g)) /\ IsInjective(q) /\ Range(q) = RootVertices(g)
  BY <1>2, SetToSeqsRules
<1>4. q \in Seq(DOMAIN g)
  BY <1>2, <1>3
<1>5. <<>> \in Seq(DOMAIN g) /\ IsInjective(<<>>) /\ Range(<<>>) = {} /\ DOMAIN <<>> = {}
  BY DEF IsInjective, Range
<1>6. \A l : Open(g, {}, l) = {e \in Edges(g) : e[2] = l}
  BY DEF Open
<1>7. \A l \in DOMAIN g : Open(g, {}, l) = {} <=> \A v \in DOMAIN g : l \notin g[v]
  BY OpenRules
<1>8. \A l \in DOMAIN g : l \in Range(q) <=> Open(g, {}, l) = {}
  BY <1>1, <1>3, <1>7
<1>9. DOMAIN w = DOMAIN g /\ \A l \in DOMAIN g : w[l] = Cardinality(Open(g, {}, l))
  BY <1>6
<1> QED
  BY <1>3, <1>4, <1>5, <1>8, <1>9 DEF Sorting

LEMMA SortingStep ==
  ASSUME NEW g, JobGraph(g), NEW q, NEW w, NEW p, Sorting(g, q, w, p), q # <<>>,
         NEW v, v = Head(q), NEW s \in SetToSeqs({c \in g[v] : w[c] = 1}),
         NEW w2, w2 = [l \in DOMAIN w |-> IF l \in g[v] THEN w[l] - 1 ELSE w[l]]
  PROVE  Sorting(g, Tail(q) \o s, w2, Append(p, v))
<1> DEFINE V == DOMAIN g
           P == Range(p)
           freed == {c \in g[v] : w[c] = 1}
<1>1. /\ q \in Seq(V) /\ IsInjective(q) /\ p \in Seq(V) /\ IsInjective(p) /\ DOMAIN w = V
      /\ \A l \in V : w[l] = Cardinality(Open(g, P, l))
      /\ \A l \in V : l \in Range(q) <=> l \notin P /\ Open(g, P, l) = {}
      /\ \A e \in Edges(g) : \A k \in DOMAIN p :
           p[k] = e[2] => \E i \in DOMAIN p : i < k /\ p[i] = e[1]
  BY DEF Sorting
<1>2. v \in V /\ v \notin P /\ Open(g, P, v) = {} /\ v \in Range(q)
  <2>1. v \in Range(q)
    BY <1>1, EndsOfSeq
  <2>2. v \in V
    BY <1>1, <2>1, RangeType
  <2> QED
    BY <1>1, <2>1, <2>2
<1>3. g[v] \subseteq V /\ V \in SUBSET Leaf
  BY <1>2 DEF JobGraph
<1>4. freed \subseteq V /\ IsFiniteSet(freed)
  <2>1. freed \in SUBSET Leaf /\ freed \subseteq V
    BY <1>3
  <2> QED
    BY <2>1, FS_Subset, DelayablesAssumption
<1>5. s \in Seq(V) /\ IsInjective(s) /\ Range(s) = freed
  <2>1. s \in Seq(freed) /\ IsInjective(s) /\ Range(s) = freed
    BY <1>4, SetToSeqsRules
  <2> HIDE DEF freed
  <2> QED
    BY <1>4, <2>1
<1>6. PICK p2 : p2 = Append(p, v) /\ IsAppended(V, p, v, p2)
  <2>1. IsAppended(V, p, v, Append(p, v))
    BY <1>1, <1>2, AppendRules
  <2> QED
    BY <2>1
<1>7. PICK Q : Q = Range(p2)
  OBVIOUS
<1>8. /\ p2 \in Seq(V) /\ Len(p2) = Len(p) + 1 /\ p2[Len(p2)] = v
      /\ \A i \in 1..Len(p) : p2[i] = p[i]
      /\ Q = P \cup {v} /\ IsInjective(p2)
  <2>1. /\ p2 \in Seq(V) /\ Len(p2) = Len(p) + 1 /\ p2[Len(p2)] = v
        /\ \A i \in 1..Len(p) : p2[i] = p[i]
        /\ \A x : x \in Range(p2) <=> x \in Range(p) \/ x = v
        /\ IsInjective(p) /\ v \notin Range(p) => IsInjective(p2)
    BY <1>6, Zenon DEF IsAppended
  <2>2. \A x : x \in Q <=> x \in P \/ x = v
    BY <1>7, <2>1, Zenon
  <2>3. Q = P \cup {v}
    BY <2>2
  <2> QED
    BY <1>1, <1>2, <2>1, <2>3, Zenon
<1>9. \A l \in V : IF l \in g[v] THEN Cardinality(Open(g, Q, l)) = w[l] - 1
                                 ELSE Open(g, Q, l) = Open(g, P, l)
  BY <1>1, <1>2, <1>8, OpenNext
<1>10. \A l \in V : /\ Cardinality(Open(g, Q, l)) \in Nat
                    /\ Open(g, Q, l) = {} <=> Cardinality(Open(g, Q, l)) = 0
                    /\ Open(g, P, l) = {} <=> \A u \in V : l \in g[u] => u \in P
  BY OpenRules, FS_EmptySet
<1>11. \A l \in V : w2[l] = Cardinality(Open(g, Q, l))
  BY <1>1, <1>9
<1>12. DOMAIN w2 = V
  BY <1>1
<1>13. \A c \in V : c \in freed <=> c \in g[v] /\ Open(g, Q, c) = {}
  <2>1. \A c \in V : w[c] \in Nat
    BY <1>1, OpenRules
  <2> QED
    BY <1>3, <1>9, <1>10, <2>1
<1>14. \A l \in V : l \in g[v] => l \notin Range(q) /\ l \notin P /\ l # v
  <2>0. SUFFICES ASSUME NEW l \in V, l \in g[v] PROVE l \notin Range(q) /\ l \notin P /\ l # v
    OBVIOUS
  <2>1. l \notin Range(q)
    <3> SUFFICES ASSUME l \in Range(q) PROVE FALSE
      OBVIOUS
    <3>1. Open(g, P, l) = {}
      BY <1>1
    <3>2. v \in P
      BY <1>2, <1>10, <2>0, <3>1
    <3> QED
      BY <1>2, <3>2
  <2>2. l \notin P
    <3> SUFFICES ASSUME l \in P PROVE FALSE
      OBVIOUS
    <3>1. PICK k \in 1..Len(p) : l = p[k]
      BY <1>1, InRange
    <3>2. <<v, l>> \in Edges(g) /\ <<v, l>>[1] = v /\ <<v, l>>[2] = l
      <4>1. <<v, l>>[1] = v /\ <<v, l>>[2] = l /\ <<v, l>> \in V \X V
        BY <1>2
      <4> QED
        BY <2>0, <4>1, Zenon DEF Edges
    <3>3. \E i \in DOMAIN p : p[i] = v
      BY <1>1, <3>1, <3>2, SeqElements
    <3> QED
      BY <1>2, <3>3 DEF Range
  <2> QED
    BY <1>2, <2>1, <2>2
<1>15. PICK q2 : q2 = Tail(q) \o s
  OBVIOUS
<1>16. /\ q2 \in Seq(V) /\ IsInjective(q2)
       /\ \A x : x \in Range(q2) <=> (x \in Range(q) /\ x # v) \/ x \in freed
  <2>1. q2 \in Seq(V) /\ \E m, k : TailThen(q2, q, s, m, k)
    BY <1>1, <1>5, <1>15, TailThenExists
  <2>2. PICK m, k : TailThen(q2, q, s, m, k)
    BY <2>1
  <2>3. Range(q) \cap Range(s) = {}
    BY <1>3, <1>5, <1>14
  <2>4. /\ IsInjective(q2)
        /\ \A x : x \in Range(q2) <=> (x \in Range(q) /\ x # v) \/ x \in Range(s)
    BY <1>1, <1>5, <2>2, <2>3, QueueRules
  <2> QED
    BY <1>5, <2>1, <2>4
<1> HIDE DEF freed
<1>17. \A l \in V : l \in Range(q2) <=> l \notin Q /\ Open(g, Q, l) = {}
  <2> SUFFICES ASSUME NEW l \in V
               PROVE  l \in Range(q2) <=> l \notin Q /\ Open(g, Q, l) = {}
    OBVIOUS
  <2>1. CASE l \in g[v]
    BY <1>8, <1>13, <1>14, <1>16, <2>1
  <2>2. CASE l \notin g[v]
    BY <1>1, <1>8, <1>9, <1>13, <1>16, <2>2
  <2> QED
    BY <2>1, <2>2
<1>18. ASSUME NEW e \in Edges(g), NEW k \in DOMAIN p2, p2[k] = e[2]
       PROVE  \E i \in DOMAIN p2 : i < k /\ p2[i] = e[1]
  <2>1. DOMAIN p = 1..Len(p) /\ DOMAIN p2 = 1..(Len(p) + 1) /\ Len(p) \in Nat
    BY <1>1, <1>8, SeqElements
  <2>2. CASE k \in 1..Len(p)
    <3>1. p[k] = e[2]
      BY <1>8, <1>18, <2>2
    <3>2. PICK i \in DOMAIN p : i < k /\ p[i] = e[1]
      BY <1>1, <2>1, <2>2, <3>1
    <3> QED
      BY <1>8, <2>1, <3>2
  <2>3. CASE k = Len(p) + 1
    <3>1. e[2] = v /\ e[1] \in V /\ v \in g[e[1]]
      BY <1>8, <1>18, <2>3 DEF Edges
    <3>2. e[1] \in P
      BY <1>2, <1>10, <3>1
    <3>3. PICK i \in DOMAIN p : e[1] = p[i]
      BY <3>2 DEF Range
    <3> QED
      BY <1>8, <2>1, <2>3, <3>3
  <2> QED
    BY <2>1, <2>2, <2>3
<1>19. Sorting(g, q2, w2, p2)
  BY <1>7, <1>8, <1>11, <1>12, <1>16, <1>17, <1>18 DEF Sorting
<1> QED
  BY <1>6, <1>15, <1>19

(* What is yielded comes after all that the closure has before it.          *)
LEMMA SortingOrder ==
  ASSUME NEW g, JobGraph(g), NEW q, NEW w, NEW p, Sorting(g, q, w, p)
  PROVE  \A i, k \in DOMAIN p : i <= k => <<p[k], p[i]>> \notin Closure(Edges(g))
<1> DEFINE T == {e \in Leaf \X Leaf : \A k \in DOMAIN p :
                   p[k] = e[2] => \E i \in DOMAIN p : i < k /\ p[i] = e[1]}
<1>1. DOMAIN p \in SUBSET Nat /\ IsInjective(p)
  <2>1. DOMAIN p = 1..Len(p) /\ Len(p) \in Nat
    BY SeqElements DEF Sorting
  <2> QED
    BY <2>1 DEF Sorting
<1>2. \A a, b : <<a, b>> \in T <=> /\ a \in Leaf /\ b \in Leaf
                                  /\ \A k \in DOMAIN p :
                                       p[k] = b => \E i \in DOMAIN p : i < k /\ p[i] = a
  OBVIOUS
<1>3. Edges(g) \in Relations /\ Edges(g) \subseteq T
  <2>1. Edges(g) \subseteq Leaf \X Leaf
    BY DEF JobGraph, Edges
  <2> QED
    BY <2>1 DEF Sorting, Relations
<1> HIDE DEF T
<1>4. IsTransitive(T)
  <2> SUFFICES ASSUME NEW a \in Leaf, NEW b \in Leaf, NEW c \in Leaf,
                      <<a, b>> \in T, <<b, c>> \in T, NEW k \in DOMAIN p, p[k] = c
               PROVE  \E i \in DOMAIN p : i < k /\ p[i] = a
    BY <1>2 DEF IsTransitive
  <2>1. PICK j \in DOMAIN p : j < k /\ p[j] = b
    BY <1>2
  <2>2. PICK i \in DOMAIN p : i < j /\ p[i] = a
    BY <1>2, <2>1
  <2> QED
    BY <1>1, <2>1, <2>2
<1>5. Closure(Edges(g)) \subseteq T
  BY <1>3, <1>4, ClosureLeast
<1> SUFFICES ASSUME NEW i \in DOMAIN p, NEW k \in DOMAIN p, i <= k,
                    <<p[k], p[i]>> \in Closure(Edges(g))
             PROVE  FALSE
  OBVIOUS
<1>6. PICK j \in DOMAIN p : j < i /\ p[j] = p[k]
  BY <1>2, <1>5
<1>7. j = k
  BY <1>1, <1>6 DEF IsInjective
<1> QED
  BY <1>1, <1>6, <1>7

(* With nothing in the queue all vertices are yielded.                      *)
LEMMA SortingAll ==
  ASSUME NEW g, JobGraph(g), NEW w, NEW p, Sorting(g, <<>>, w, p),
         \A a \in Leaf : <<a, a>> \notin Closure(Edges(g))
  PROVE  Range(p) = DOMAIN g
<1> DEFINE U == DOMAIN g \ Range(p)
<1>1. Range(p) \subseteq DOMAIN g /\ DOMAIN g \in SUBSET Leaf
  BY RangeType DEF Sorting, JobGraph
<1> SUFFICES ASSUME U # {} PROVE FALSE
  BY <1>1
<1>2. Edges(g) \in Relations
  BY <1>1 DEF Edges, Relations
<1>3. U \in SUBSET Leaf
  BY <1>1
<1>4. PICK l \in U : \A v \in U : <<v, l>> \notin Edges(g)
  <2> HIDE DEF U
  <2> QED
    BY <1>2, <1>3, FirstOf
<1>5. Open(g, Range(p), l) # {}
  BY <1>4, RangeOfEmpty DEF Sorting
<1>6. PICK v \in DOMAIN g : l \in g[v] /\ v \notin Range(p)
  BY <1>5, OpenRules
<1>7. <<v, l>> \in Edges(g)
  <2>1. <<v, l>>[1] = v /\ <<v, l>>[2] = l /\ <<v, l>> \in (DOMAIN g) \X (DOMAIN g)
    BY <1>4
  <2> QED
    BY <1>6, <2>1, Zenon DEF Edges
<1> QED
  BY <1>4, <1>6, <1>7

(* The jobs are performed in the middle of the sort of a graph without      *)
(* cycles, whose order is the one asked for.                                *)
DirectInv ==
  /\ phase = "building" => performed = <<>>
  /\ phase = "direct" =>
       /\ JobGraph(direct) /\ Sorting(direct, queue, waits, performed)
       /\ \A a \in Leaf : <<a, a>> \notin Closure(Edges(direct))
       /\ plain => wanted = Closure(Edges(direct))

LEMMA DirectStarts ==
  ASSUME Objects, OrderInv, DirectInv, phase = "building", NEW n \in Created,
         ExecuteDirect(n, ConnectGraphs(n))
  PROVE  DirectInv'
<1>1. PICK g : g = ConnectGraphs(n)
  OBVIOUS
<1>2. /\ direct' = g /\ queue' \in SetToSeqs(RootVertices(g)) /\ phase' = "direct"
      /\ waits' = [l \in DOMAIN g |-> Cardinality({e \in Edges(g) : e[2] = l})]
      /\ wanted' = Required(Visited(n)) /\ plain' = Plain(Visited(n)) /\ performed' = <<>>
  BY <1>1 DEF ExecuteDirect, DirectInv
<1>3. JobGraph(g)
  BY <1>1, GraphOfJobs DEF JobGraph
<1>4. Sorting(g, queue', waits', <<>>)
  BY <1>2, <1>3, SortingStart
<1>5. \A a \in Leaf : <<a, a>> \notin Closure(Edges(g))
  <2>1. Edges(g) \in Relations /\ Edges(g) \subseteq Wants
    BY <1>1, EdgesAsked, BeforeRules DEF Wants
  <2>2. Wants \in Relations /\ Wants \subseteq Closure(Wants)
    BY WantsType, ClosureContains DEF WantsRules
  <2>3. Closure(Edges(g)) \subseteq Closure(Wants)
    BY <2>1, <2>2, ClosureMonotone
  <2> QED
    BY <2>3 DEF OrderInv
<1>6. plain' => wanted' = Closure(Edges(g))
  BY <1>1, <1>2, PlainRequired
<1>7. (\A a \in Leaf : <<a, a>> \notin Closure(Edges(direct)))'
      /\ (plain => wanted = Closure(Edges(direct)))'
  BY <1>2, <1>5, <1>6 DEF Closure, Edges
<1>8. JobGraph(direct)' /\ Sorting(direct, queue, waits, performed)'
  BY <1>2, <1>3, <1>4 DEF JobGraph, Sorting, Open, Edges
<1> QED
  BY <1>2, <1>7, <1>8 DEF DirectInv

LEMMA DirectGoesOn ==
  ASSUME DirectInv, PerformDirect
  PROVE  DirectInv'
<1>1. PICK g, q, w, p, v : g = direct /\ q = queue /\ w = waits /\ p = performed /\ v = Head(q)
  OBVIOUS
<1>2. /\ JobGraph(g) /\ Sorting(g, q, w, p) /\ q # <<>> /\ phase = "direct"
      /\ \A a \in Leaf : <<a, a>> \notin Closure(Edges(g))
      /\ plain => wanted = Closure(Edges(g))
  BY <1>1 DEF DirectInv, PerformDirect
<1>3. PICK s \in SetToSeqs({c \in g[v] : w[c] = 1}) : queue' = Tail(q) \o s
  BY <1>1 DEF PerformDirect
<1>4. PICK w2 : w2 = [l \in DOMAIN w |-> IF l \in g[v] THEN w[l] - 1 ELSE w[l]]
  OBVIOUS
<1>5. performed' = Append(p, v) /\ waits' = w2
  BY <1>1, <1>4 DEF PerformDirect
<1>6. direct' = g /\ phase' = phase /\ plain' = plain /\ wanted' = wanted
  BY <1>1 DEF PerformDirect
<1>7. Sorting(g, Tail(q) \o s, w2, Append(p, v))
  BY <1>1, <1>2, <1>4, SortingStep
<1>8. JobGraph(direct)' /\ Sorting(direct, queue, waits, performed)'
  <2>1. PICK q2, p2 : q2 = Tail(q) \o s /\ p2 = Append(p, v)
    OBVIOUS
  <2>2. Sorting(g, q2, w2, p2) /\ queue' = q2 /\ performed' = p2 /\ waits' = w2 /\ direct' = g
    BY <1>3, <1>5, <1>6, <1>7, <2>1
  <2> QED
    BY <1>2, <2>2 DEF JobGraph, Sorting, Open, Edges
<1>9. (\A a \in Leaf : <<a, a>> \notin Closure(Edges(direct)))'
      /\ (plain => wanted = Closure(Edges(direct)))'
  BY <1>2, <1>6 DEF Closure, Edges
<1> QED
  BY <1>2, <1>6, <1>8, <1>9 DEF DirectInv

LEMMA DirectStep == Delayed /\ DirectInv /\ [Next]_vars => DirectInv'
<1> SUFFICES ASSUME Delayed, DirectInv, [Next]_vars PROVE DirectInv'
  OBVIOUS
<1>1. ASSUME phase' \notin {"building", "direct"} PROVE DirectInv'
  BY <1>1 DEF DirectInv
<1>2. ASSUME phase' = "building", phase = "building", performed' = performed PROVE DirectInv'
  BY <1>2 DEF DirectInv
<1>3. ASSUME NEW n \in Node, Delay(n) PROVE DirectInv'
  <2>1. phase = "building" /\ n \in Created
    BY <1>3 DEF Delay, Building, Top
  <2>2. PICK g : g = ConnectGraphs(n)
    OBVIOUS
  <2>3. CASE Raise
    BY <1>1, <2>3 DEF Raise
  <2>4. CASE UseExisting(g)
    BY <1>2, <2>1, <2>4 DEF UseExisting
  <2>5. CASE StoreGraph(n, g)
    BY <1>2, <2>1, <2>5 DEF StoreGraph
  <2>6. CASE ExecuteDirect(n, g)
    BY <2>1, <2>2, <2>6, DirectStarts DEF Delayed
  <2> QED
    BY <1>3, <2>2, <2>3, <2>4, <2>5, <2>6 DEF Delay
<1>4. CASE PerformDirect
  BY <1>4, DirectGoesOn
<1>5. CASE \/ \E b \in Box : MakeChain(b) \/ MakeGroup(b)
           \/ \E n, child \in Node : ConnectOnDone(n, child)
           \/ \E l \in Leaf, b \in Box : SplitMethod(l, b)
  <2>1. NothingDelayed /\ phase = "building"
    BY <1>5 DEF MakeChain, MakeGroup, ConnectOnDone, SplitMethod, Building
  <2> QED
    BY <1>2, <2>1 DEF NothingDelayed
<1>6. CASE PerformRaises \/ Commit \/ TwinLive \/ TwinStarts \/ \E l \in Leaf : Work(l)
  <2>1. CASE PerformRaises \/ Commit \/ TwinLive \/ TwinStarts
    BY <1>1, <2>1 DEF PerformRaises, Raise, Commit, TwinLive, TwinStarts
  <2>2. ASSUME NEW l \in Leaf, Work(l) PROVE DirectInv'
    BY <1>1, <2>2, WorkRows DEF OnlyWork, Delayed, Rows
  <2> QED
    BY <1>6, <2>1, <2>2
<1>7. CASE UNCHANGED vars
  <2>1. /\ phase' = phase /\ performed' = performed /\ direct' = direct /\ queue' = queue
        /\ waits' = waits /\ plain' = plain /\ wanted' = wanted
    BY <1>7 DEF vars, delayVars
  <2> QED
    BY <2>1 DEF DirectInv, JobGraph, Sorting, Open, Edges, Closure
<1> QED
  BY <1>3, <1>4, <1>5, <1>6, <1>7 DEF Next

(* With the jobs run without delay, none is performed before a job it has   *)
(* to come after, and when there is nothing more to do all are performed    *)
(* (topological_sort, _execute_graph_direct).                               *)
THEOREM DirectOrder == Spec => []DirectInOrder
<1>1. Init => DirectInv
  BY DEF Init, DirectInv
<1>2. DirectInv => DirectInOrder
  <2> SUFFICES ASSUME DirectInv, phase = "direct", plain
               PROVE  /\ \A i, k \in DOMAIN performed :
                           i <= k => <<performed[k], performed[i]>> \notin wanted
                      /\ queue = <<>> => Range(performed) = DOMAIN direct
    BY DEF DirectInOrder
  <2>1. PICK g, q, w, p : g = direct /\ q = queue /\ w = waits /\ p = performed
    OBVIOUS
  <2>2. /\ JobGraph(g) /\ Sorting(g, q, w, p) /\ wanted = Closure(Edges(g))
        /\ \A a \in Leaf : <<a, a>> \notin Closure(Edges(g))
    BY <2>1 DEF DirectInv
  <2>3. \A i, k \in DOMAIN p : i <= k => <<p[k], p[i]>> \notin wanted
    BY <2>2, SortingOrder
  <2>4. ASSUME q = <<>> PROVE Range(p) = DOMAIN g
    BY <2>2, <2>4, SortingAll
  <2> QED
    BY <2>1, <2>3, <2>4
<1> QED
  BY <1>1, <1>2, DirectStep, DelayedOK, PTL DEF Spec


(* Job a and job b are stored, and b waits for as long as a is not done. *)
StoredInOrder(a, b) ==
  /\ a \in DOMAIN row
  /\ b \in DOMAIN row
  /\ (row[b].state # "wait_dependencies" => row[a].state = "done")

(* The jobs of a committed graph stand in the order that was asked for,   *)
(* between jobs that others separate too.                                 *)
DoneInOrder ==
  phase = "committed" /\ plain => \A e \in wanted : StoredInOrder(e[1], e[2])

(* Once a graph is committed, a job is ready to be performed, or done, only *)
(* when all the jobs that are asked to come before it, through any others,  *)
(* are done (delay, store, enqueue_waiting).                                *)
THEOREM JobsDoneInOrder == Spec => []DoneInOrder
<1>1. Delayed /\ GraphStoredAsAsked => DoneInOrder
  <2> SUFFICES ASSUME Delayed, GraphStoredAsAsked, phase = "committed", plain
               PROVE  \A e \in wanted : StoredInOrder(e[1], e[2])
    BY DEF DoneInOrder
  <2> DEFINE T == {e \in Leaf \X Leaf : StoredInOrder(e[1], e[2])}
  <2>1. DependsOn \in Relations /\ wanted = Closure(DependsOn)
    BY DependsOnRules DEF GraphStoredAsAsked, Delayed, Rows, Objects, ObjectsTypeOK
  <2>2. \A p, l : <<p, l>> \in DependsOn <=> l \in DOMAIN row /\ p \in row[l].depends
    BY DependsOnRules DEF Delayed, Rows, Objects, ObjectsTypeOK
  <2>3. \A a, b : <<a, b>> \in T <=> a \in Leaf /\ b \in Leaf /\ StoredInOrder(a, b)
    <3> SUFFICES ASSUME NEW a, NEW b
                 PROVE  <<a, b>> \in T <=> a \in Leaf /\ b \in Leaf /\ StoredInOrder(a, b)
      OBVIOUS
    <3>1. <<a, b>>[1] = a /\ <<a, b>>[2] = b
      OBVIOUS
    <3>2. <<a, b>> \in Leaf \X Leaf <=> a \in Leaf /\ b \in Leaf
      OBVIOUS
    <3>3. <<a, b>> \in T <=> <<a, b>> \in Leaf \X Leaf /\ StoredInOrder(<<a, b>>[1], <<a, b>>[2])
      BY Zenon
    <3> QED
      BY <3>1, <3>2, <3>3, Zenon
  <2>4. \A e \in T : StoredInOrder(e[1], e[2])
    BY Zenon
  <2>5. T \subseteq Leaf \X Leaf
    OBVIOUS
  <2> HIDE DEF T
  <2>6. \A e \in DependsOn : e = <<e[1], e[2]>> /\ e[1] \in Leaf /\ e[2] \in Leaf
    BY <2>1 DEF Relations
  <2>7. DependsOn \subseteq T
    <3> SUFFICES ASSUME NEW p \in Leaf, NEW l \in Leaf, <<p, l>> \in DependsOn
                 PROVE  <<p, l>> \in T
      BY <2>6
    <3>1. l \in DOMAIN row /\ p \in row[l].depends
      BY <2>2
    <3>2. p \in DOMAIN row /\ (row[l].state # "wait_dependencies" => row[p].state = "done")
      BY <3>1 DEF Delayed, Rows, DependentsLinked
    <3>3. StoredInOrder(p, l)
      BY <3>1, <3>2 DEF StoredInOrder
    <3> QED
      BY <2>3, <3>3
  <2>8. IsTransitive(T)
    <3> SUFFICES ASSUME NEW a, NEW b, NEW c, <<a, b>> \in T, <<b, c>> \in T
                 PROVE  <<a, c>> \in T
      BY DEF IsTransitive
    <3>1. a \in Leaf /\ c \in Leaf /\ StoredInOrder(a, b) /\ StoredInOrder(b, c)
      BY <2>3
    <3>2. StoredInOrder(a, c)
      BY <3>1 DEF StoredInOrder
    <3> QED
      BY <2>3, <3>1, <3>2
  <2>9. wanted \subseteq T
    BY <2>1, <2>5, <2>7, <2>8, ClosureLeast
  <2> QED
    BY <2>4, <2>9
<1> QED
  BY <1>1, DelayedOK, StoredAsAsked, PTL
=============================================================================
