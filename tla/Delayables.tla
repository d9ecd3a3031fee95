----------------------------- MODULE Delayables -----------------------------
(***************************************************************************)
(* The objects a program builds before it delays them (delay.py): one      *)
(* Delayable per job to be, and the chains and groups of delayables, each  *)
(* with a graph of its own whose vertices are delayables, chains and       *)
(* groups alike.  on_done and the constructors only touch the graph of     *)
(* their own object; _connect_graphs makes one graph of jobs of them all.  *)
(***************************************************************************)
EXTENDS Naturals, FiniteSets, SequencesExt

CONSTANTS
  Leaf,       \* the Delayable objects
  Box,        \* the DelayableChain and DelayableGroup objects
  Records,    \* how many records a program delays a method of
  MaxMembers  \* bound: the members of a chain or group

ASSUME DelayablesAssumption ==
  /\ IsFiniteSet(Leaf) /\ Leaf \cap Box = {}
  /\ Records \in Nat /\ MaxMembers \in Nat

VARIABLES
  prepared,   \* the leaves that are there: a method is delayed by each
  kind,       \* kind[b]: "none" before b is there, then "chain" or "group"
  members,    \* members[b]: the delayables b was built from
  graph,      \* graph[n]: the _graph of n, its vertices with their neighbours
  connected   \* the pairs on_done was called for, for the properties only

delayableVars == <<prepared, kind, members, graph, connected>>

Node == Leaf \cup Box

(* The objects the program has in its hands. *)
Created == prepared \cup {b \in Box : kind[b] # "none"}

-----------------------------------------------------------------------------
(* Graph: a dictionary from each vertex to the set of its neighbours.       *)

AddVertex(g, v) == [w \in DOMAIN g \cup {v} |-> IF w \in DOMAIN g THEN g[w] ELSE {}]

(* add_edge from each of the parents to the child. *)
AddEdges(g, parents, child) ==
  IF parents = {} THEN g
  ELSE [v \in DOMAIN g \cup parents \cup {child} |->
          (IF v \in DOMAIN g THEN g[v] ELSE {}) \cup {c \in {child} : v \in parents}]

Edges(g) == {e \in (DOMAIN g) \X (DOMAIN g) : e[2] \in g[e[1]]}

RootVertices(g) == DOMAIN g \ UNION Range(g)

-----------------------------------------------------------------------------
(* _head and _tail: the jobs that stand for the beginning and for the end  *)
(* of an object.  The _head of a chain is the _tail of its first member,   *)
(* its _tail the _head of its last one.                                    *)
Ends[e \in Node \X {"head", "tail"}] ==
  LET n == e[1]
      side == e[2]
  IN IF n \in Leaf THEN {n}
     ELSE IF kind[n] # "chain" THEN UNION {Ends[<<m, side>>] : m \in Range(members[n])}
     ELSE IF side = "head" THEN Ends[<<Head(members[n]), "tail">>]
                           ELSE Ends[<<Last(members[n]), "head">>]

HeadJobs(n) == Ends[<<n, "head">>]
TailJobs(n) == Ends[<<n, "tail">>]

(* What is reached from n, by going from each v to all of next[v]. *)
Reachable(next, n) ==
  {m \in DOMAIN next : \A S \in SUBSET DOMAIN next :
     (n \in S /\ \A v \in S : next[v] \subseteq S) => m \in S}

(* The objects whose graphs are visited from n, vertex after vertex. *)
Visited(n) == Reachable([m \in Node |-> DOMAIN graph[m]], n)

(* _connect_graphs: every graph visited is merged into one of jobs only,   *)
(* from the tails of each vertex to the heads of its neighbours.           *)
ConnectGraphs(n) ==
  LET arcs == UNION {{<<v, m>> : v \in DOMAIN graph[m]} : m \in Visited(n)}
  IN [job \in UNION {TailJobs(arc[1]) : arc \in arcs} |->
        UNION {UNION {HeadJobs(c) : c \in graph[arc[2]][arc[1]]} :
                 arc \in {a \in arcs : job \in TailJobs(a[1])}}]

-----------------------------------------------------------------------------
(* The calls of a program.  It gives a delayable to at most one chain or   *)
(* group, and never asks for a cycle: the code expects neither.            *)

Member(n) == \E b \in Box : n \in Range(members[b])

ChainGraph(s) ==
  [v \in Range(s) |-> {s[i + 1] : i \in {k \in 1..(Len(s) - 1) : s[k] = v}}]

GroupGraph(s) == [v \in Range(s) |-> {}]

MakeBox(b, k, s) ==
  /\ kind[b] = "none"
  /\ kind' = [kind EXCEPT ![b] = k]
  /\ members' = [members EXCEPT ![b] = s]
  /\ graph' = [graph EXCEPT ![b] = IF k = "chain" THEN ChainGraph(s) ELSE GroupGraph(s)]
  /\ UNCHANGED <<prepared, connected>>

(* chain(...), which wants a first member, and group(...). *)
NewChain(b, s) == s # <<>> /\ MakeBox(b, "chain", s)
NewGroup(b, s) == MakeBox(b, "group", s)

(* Mutant: what depends on a chain depends on its first member.             *)
FirstMemberMutant(n, child) ==
  LET parents == IF n \in Leaf THEN {n}
                 ELSE IF kind[n] = "chain" THEN {Head(members[n])} ELSE Range(members[n])
  IN AddEdges(graph[n], parents, child)

(* on_done: an edge from the delayable itself, from the last member of a   *)
(* chain, from every member of a group.                                    *)
Connect(n, child) ==
  LET parents == IF n \in Leaf THEN {n}
                 ELSE IF kind[n] = "chain" THEN {Last(members[n])} ELSE Range(members[n])
  IN AddEdges(graph[n], parents, child)

OnDone(n, child) ==
  /\ connected' = connected \cup {<<n, child>>}
  /\ graph' = [graph EXCEPT ![n] = Connect(n, child)]
  /\ UNCHANGED <<prepared, kind, members>>

(* split: a new delayable for each batch of size records, the last one     *)
(* with what is left, in a chain or a group; of no records there is an     *)
(* empty group, but no chain.                                              *)
Batches(records, size) == (records + size - 1) \div size

Split(records, size, k, b, s) ==
  /\ kind[b] = "none"
  /\ Len(s) = Batches(records, size)
  /\ k = "chain" => s # <<>>
  /\ prepared' = prepared \cup Range(s)
  /\ kind' = [kind EXCEPT ![b] = k]
  /\ members' = [members EXCEPT ![b] = s]
  /\ graph' = [n \in Node |->
                 IF n \in Range(s) THEN AddVertex(<<>>, n)
                 ELSE IF n # b THEN graph[n]
                 ELSE IF k = "chain" THEN ChainGraph(s) ELSE GroupGraph(s)]
  /\ UNCHANGED connected

(* The program begins with some delayables of one job each; it makes them  *)
(* when it needs them, which nothing depends on.                           *)
DelayablesInit ==
  /\ prepared \in SUBSET Leaf
  /\ kind = [b \in Box |-> "none"]
  /\ members = [b \in Box |-> <<>>]
  /\ graph = [n \in Node |-> IF n \in prepared THEN AddVertex(<<>>, n) ELSE <<>>]
  /\ connected = {}

-----------------------------------------------------------------------------
(* What the documentation says of these objects, by their structure alone. *)

(* The object n with its members, their members and so on, ... *)
Inside(n) == Reachable([m \in Node |-> IF m \in Leaf THEN {} ELSE Range(members[m])], n)

(* ... and the jobs among them. *)
Jobs(n) == Inside(n) \cap Leaf

Consecutive(s) == {<<s[i], s[i + 1]>> : i \in 1..(Len(s) - 1)}

(* In a chain each member comes before the next one; x.on_done(y) says     *)
(* that x comes before y.                                                  *)
Ordered(S) ==
  {e \in connected : e[1] \in S}
    \cup UNION {Consecutive(members[b]) : b \in {c \in S \cap Box : kind[c] = "chain"}}

(* The transitive closure of a relation of jobs. *)
Closure(R) ==
  {e \in Leaf \X Leaf : \A S \in SUBSET Leaf :
     (\A r \in R : r[1] \in S \cup {e[1]} => r[2] \in S) => e[2] \in S}

(* Which job has to be done before which, by an order of objects. *)
JobOrder(order) == Closure(UNION {Jobs(e[1]) \X Jobs(e[2]) : e \in order})

Required(S) == JobOrder(Ordered(S))

Acyclic(order) == \A e \in JobOrder(order) : e[1] # e[2]

(* Of n all jobs are heads and tails: its chains have one job each. *)
Flat(n) == \A b \in Inside(n) \cap Box : kind[b] = "chain" => Cardinality(Jobs(b)) = 1

(* The _head of n is what it begins with, the _tail what it ends with,     *)
(* although a chain takes the wrong end of its first and its last member.  *)
HeadStands(n) == \A b \in Inside(n) \cap Box : kind[b] = "chain" => Flat(Head(members[b]))
TailStands(n) == \A b \in Inside(n) \cap Box : kind[b] = "chain" => Flat(Last(members[b]))

(* No chain or group is empty, and what is connected is what has the right *)
(* end where it is: all shapes without chains of chains, chain(a, chain(b, *)
(* c)) too, but not chain(a, chain(chain(b, c), d)).                       *)
Plain(S) ==
  /\ \A b \in S \cap Box : Jobs(b) # {}
  /\ \A n \in S : \A v \in DOMAIN graph[n] : \A w \in graph[n][v] :
       TailStands(v) /\ HeadStands(w)
=============================================================================
