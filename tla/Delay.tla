-------------------------------- MODULE Delay --------------------------------
(***************************************************************************)
(* DelayableGraph.delay: the jobs of a graph are made, linked and stored   *)
(* in the transaction of the program that delays them, unless jobs with    *)
(* the same identity keys are there already, or performed at once where    *)
(* jobs must run without delay.  When the transaction commits the workers  *)
(* perform the jobs that are ready, in one transaction, and release those  *)
(* that wait for them in a second one, which may come too late or never.   *)
(*                                                                         *)
(* The transaction reads its own rows and its snapshot.  All that others   *)
(* do is one more job, the twin, with an identity key of the program's:    *)
(* it is in the snapshot in one of the states, or is created, started or   *)
(* requeued by another transaction at any time after the snapshot.         *)
(***************************************************************************)
EXTENDS Delayables

CONSTANTS
  Key,       \* the identity key some delayables are given
  NoKey,     \* no identity key
  GraphUuid, \* the uuids of graphs; as many as there may be calls
  NoGraph,   \* the graph_uuid of a single job
  Twin,      \* a job of another transaction, with the identity key Key
  MaxCalls   \* bound: the calls the program makes before it commits

ASSUME DelayAssumption ==
  /\ NoKey # Key /\ Twin \notin Leaf
  /\ MaxCalls \in Nat
  /\ NoGraph \notin GraphUuid /\ IsFiniteSet(GraphUuid) /\ Cardinality(GraphUuid) >= MaxCalls

VARIABLES
  identity,  \* identity[l]: the identity_key of the delayable l
  generated, \* generated[l]: _generated_job: "none", "job", "record" or "split"
  job,       \* job[l]: the Job in memory, for the delayables that have one
  row,       \* row[l]: the row of queue_job, for the jobs that have one
  twin,      \* the state of the twin, or "absent"
  seen,      \* the same in the program's snapshot
  phase,     \* what the program does
  calls,     \* the calls of the program so far
  queue,     \* topological_sort: the vertices whose parents are all yielded
  waits,     \* topological_sort: depends_per_node
  performed, \* the jobs performed directly, in their order
  direct,    \* the graph that is performed directly
  wanted,    \* the order asked for by the graphs that are stored, ...
  plain,     \* ... whether those graphs have only plain shapes ...
  alone,     \* ... and whether each of them is a single job
  dropped,   \* the delayables of graphs not stored as their jobs exist
  raced,     \* whether the twin was made live after the snapshot
  second,    \* second[l]: the second transaction of the worker of l: "none"
             \* before l is done, then "due", "read", "over" or "lost"
  releases   \* releases[l]: the children that transaction is to release

delayVars == <<identity, generated, job, row, twin, seen, phase, calls, queue, waits,
               performed, direct, wanted, plain, alone, dropped, raced>>

workVars == <<second, releases>>

vars == <<delayableVars, delayVars, workVars>>

Live == {"wait_dependencies", "pending", "enqueued"}

-----------------------------------------------------------------------------
(* Job in memory.                                                           *)

(* Job(...): a job waits for nothing and belongs to no graph. *)
NewJob == [state |-> "pending", depends |-> {}, children |-> {}, graph |-> NoGraph]

(* _build_job of every vertex, which keeps the job that is there. *)
BuildJobs(vertices) ==
  [l \in vertices \cup DOMAIN job |-> IF l \in DOMAIN job THEN job[l] ELSE NewJob]

(* The graph uuids the jobs of the vertices have. *)
Uuids(jobs, vertices) == {jobs[l].graph : l \in vertices} \ {NoGraph}

(* _ensure_same_graph_uuid: no vertices, a single job that belongs to a    *)
(* graph, or jobs of several graphs are refused.                           *)
UuidRefused(jobs, vertices) ==
  \/ vertices = {}
  \/ Cardinality(vertices) = 1 /\ Uuids(jobs, vertices) # {}
  \/ Cardinality(Uuids(jobs, vertices)) > 1

UsedUuids == {job[l].graph : l \in DOMAIN job}

(* The graph uuid of a graph of several jobs: theirs, or a new one. *)
SameUuid(jobs, vertices) ==
  LET known == Uuids(jobs, vertices)
      uuid  == CHOOSE u \in (IF known = {} THEN GraphUuid \ UsedUuids ELSE known) : TRUE
  IN IF Cardinality(vertices) = 1 THEN jobs
     ELSE [l \in DOMAIN jobs |->
             IF l \in vertices THEN [jobs[l] EXCEPT !.graph = uuid] ELSE jobs[l]]

(* Mutant: the parents are not told of their children.                      *)
NoChildrenMutant(jobs, g) ==
  [l \in DOMAIN jobs |->
     LET parents == {p \in DOMAIN g : l \in g[p]}
     IN [jobs[l] EXCEPT !.depends = @ \cup parents,
                        !.state = IF parents # {} THEN "wait_dependencies" ELSE @]]

(* add_depends for each edge: no job in memory is done, so that a child    *)
(* waits.                                                                  *)
AddDepends(jobs, g) ==
  [l \in DOMAIN jobs |->
     LET parents == {p \in DOMAIN g : l \in g[p]}
     IN [jobs[l] EXCEPT !.depends = @ \cup parents,
                        !.children = @ \cup (IF l \in DOMAIN g THEN g[l] ELSE {}),
                        !.state = IF parents # {} THEN "wait_dependencies" ELSE @]]

-----------------------------------------------------------------------------
(* Rows.                                                                    *)

(* Mutant: only the jobs of others count.                                   *)
OthersOnlyMutant == IF seen \in Live THEN {Twin} ELSE {}

(* job_record_with_same_identity_key: the jobs the transaction sees. *)
SameIdentity ==
  {l \in DOMAIN row : row[l].key = Key /\ row[l].state \in Live}
    \cup (IF seen \in Live THEN {Twin} ELSE {})

(* store: _store_values of the Job, into its row or into a new one. *)
StoreJobs(jobs, vertices) ==
  [l \in DOMAIN row \cup vertices |->
     IF l \notin vertices THEN row[l]
     ELSE [state |-> jobs[l].state, depends |-> jobs[l].depends,
           children |-> jobs[l].children, graph |-> jobs[l].graph, key |-> identity[l]]]

(* Mutant: a job is released if it waits for nothing else.                  *)
OnlyParentMutant(rows, l) ==
  {c \in rows[l].children \cap DOMAIN rows :
     rows[c].state = "wait_dependencies" /\ rows[c].depends = {l}}

(* enqueue_waiting: the children of the same graph whose parents are done; *)
(* a parent or a child without a row is not joined.                        *)
Released(rows, l) ==
  {c \in rows[l].children \cap DOMAIN rows :
     /\ rows[l].graph # NoGraph
     /\ rows[c].graph = rows[l].graph
     /\ rows[c].state = "wait_dependencies"
     /\ \A p \in rows[c].depends \cap DOMAIN rows :
          rows[p].graph = rows[l].graph => rows[p].state = "done"}

-----------------------------------------------------------------------------
(* The program builds its objects.                                          *)

Building == phase = "building" /\ calls < MaxCalls /\ calls' = calls + 1

(* What is left alone while objects are built and connected. *)
NothingDelayed ==
  UNCHANGED <<job, row, twin, seen, phase, queue, waits, performed, direct,
              wanted, plain, alone, dropped, raced, workVars>>

MemberSeqs ==
  {s \in BoundedSeq({n \in Created : ~Member(n)}, MaxMembers) : IsInjective(s)}

MakeChain(b) ==
  /\ Building
  /\ \E s \in MemberSeqs : NewChain(b, s) /\ Acyclic(Ordered(Node) \cup Consecutive(s))
  /\ UNCHANGED <<identity, generated>> /\ NothingDelayed

MakeGroup(b) ==
  /\ Building
  /\ \E s \in {t \in MemberSeqs : t = SetToSeq(Range(t))} : NewGroup(b, s)
  /\ UNCHANGED <<identity, generated>> /\ NothingDelayed

ConnectOnDone(n, child) ==
  /\ Building
  /\ {n, child} \subseteq Created
  /\ Inside(n) \cap Inside(child) = {}
  /\ Acyclic(Ordered(Node) \cup {<<n, child>>})
  /\ OnDone(n, child)
  /\ UNCHANGED <<identity, generated>> /\ NothingDelayed

(* The batches have the identity key of the delayable that is split, which *)
(* is marked so that it is not missed.                                     *)
SplitMethod(l, b) ==
  /\ Building
  /\ l \in prepared /\ generated[l] = "none"
  /\ \E records \in {Records, 0}, size \in 1..Records, k \in {"chain", "group"},
        s \in {t \in BoundedSeq(Leaf \ prepared, MaxMembers) : IsInjective(t)} :
       /\ Split(records, size, k, b, s)
       /\ identity' = [m \in prepared \cup Range(s) |->
                         IF m \in prepared THEN identity[m] ELSE identity[l]]
       /\ generated' = [m \in prepared \cup Range(s) |->
                          IF m = l THEN "split" ELSE IF m \in prepared THEN generated[m]
                          ELSE "none"]
  /\ NothingDelayed

-----------------------------------------------------------------------------
(* delay().  It is called on the top of what the program has connected; of *)
(* a graph whose jobs exist already nothing is delayed again.              *)

Top(n) == n \in Created /\ ~Member(n) /\ \A e \in connected : e[2] # n

(* The jobs of the graph in memory, after _ensure_same_graph_uuid. *)
Prepared(vertices) == SameUuid(BuildJobs(vertices), vertices)

Accepted(vertices) ==
  /\ \A l \in vertices : generated[l] # "split"
  /\ ~UuidRefused(BuildJobs(vertices), vertices)

GeneratedBy(vertices) ==
  [l \in DOMAIN generated |-> IF l \in vertices THEN "job" ELSE generated[l]]

(* An exception, which rolls the transaction back. *)
Raise ==
  /\ phase' = "error"
  /\ row' = <<>>
  /\ UNCHANGED <<delayableVars, identity, generated, job, twin, seen, queue, waits,
                 performed, direct, wanted, plain, alone, dropped, raced, workVars>>

(* All the jobs with an identity key exist: the first of them takes the    *)
(* place of the generated job, and nothing is stored.                      *)
UseExisting(g) ==
  LET keyed == {l \in DOMAIN g : identity[l] = Key}
  IN /\ keyed # {} /\ SameIdentity # {}
     /\ job' = AddDepends(Prepared(DOMAIN g), g)
     /\ \E l \in keyed : generated' = [GeneratedBy(DOMAIN g) EXCEPT ![l] = "record"]
     /\ dropped' = dropped \cup DOMAIN g
     /\ UNCHANGED <<delayableVars, identity, row, twin, seen, phase, queue, waits,
                    performed, direct, wanted, plain, alone, raced, workVars>>

(* There is no identity key, or no job with it: the graph is stored. *)
StoreGraph(n, g) ==
  LET jobs == AddDepends(Prepared(DOMAIN g), g)
  IN /\ \A l \in DOMAIN g : identity[l] = Key => SameIdentity = {}
     /\ job' = jobs
     /\ generated' = GeneratedBy(DOMAIN g)
     /\ row' = StoreJobs(jobs, DOMAIN g)
     /\ wanted' = Closure(wanted \cup Required(Visited(n)))
     /\ plain' = (plain /\ Plain(Visited(n)))
     /\ alone' = (alone /\ Cardinality(DOMAIN g) = 1)
     /\ UNCHANGED <<delayableVars, identity, twin, seen, phase, queue, waits, performed,
                    direct, dropped, raced, workVars>>

(* _execute_graph_direct: the jobs are performed in the order of           *)
(* topological_sort, which takes sets in any order.                        *)
ExecuteDirect(n, g) ==
  /\ job' = Prepared(DOMAIN g)
  /\ generated' = GeneratedBy(DOMAIN g)
  /\ direct' = g
  /\ waits' = [l \in DOMAIN g |-> Cardinality({e \in Edges(g) : e[2] = l})]
  /\ queue' \in SetToSeqs(RootVertices(g))
  /\ phase' = "direct"
  /\ wanted' = Required(Visited(n))
  /\ plain' = Plain(Visited(n))
  /\ UNCHANGED <<delayableVars, identity, row, twin, seen, performed, alone, dropped, raced,
                 workVars>>

Delay(n) ==
  /\ Building
  /\ Top(n)
  /\ LET g == ConnectGraphs(n)
     IN /\ DOMAIN g \cap dropped = {}
        /\ \/ ~Accepted(DOMAIN g) /\ Raise
           \/ Accepted(DOMAIN g) /\ (UseExisting(g) \/ StoreGraph(n, g) \/ ExecuteDirect(n, g))

(* Mutant: a vertex is yielded after any of its parents.                    *)
AnyParentMutant ==
  /\ phase = "direct" /\ queue # <<>>
  /\ performed' = Append(performed, Head(queue))
  /\ waits' = waits
  /\ \E s \in SetToSeqs(direct[Head(queue)] \ Range(performed)) : queue' = Tail(queue) \o s
  /\ UNCHANGED <<delayableVars, identity, generated, job, row, twin, seen, phase, calls,
                 direct, wanted, plain, alone, dropped, raced, workVars>>

PerformDirect ==
  /\ phase = "direct" /\ queue # <<>>
  /\ LET v     == Head(queue)
         freed == {c \in direct[v] : waits[c] = 1}
     IN /\ performed' = Append(performed, v)
        /\ waits' = [l \in DOMAIN waits |-> IF l \in direct[v] THEN waits[l] - 1 ELSE waits[l]]
        /\ \E s \in SetToSeqs(freed) : queue' = Tail(queue) \o s
  /\ UNCHANGED <<delayableVars, identity, generated, job, row, twin, seen, phase, calls,
                 direct, wanted, plain, alone, dropped, raced, workVars>>

(* A job that fails ends the whole. *)
PerformRaises == phase = "direct" /\ queue # <<>> /\ Raise /\ UNCHANGED calls

Commit ==
  /\ phase = "building" /\ row # <<>>
  /\ phase' = "committed"
  /\ UNCHANGED <<delayableVars, identity, generated, job, row, twin, seen, calls, queue,
                 waits, performed, direct, wanted, plain, alone, dropped, raced, workVars>>

-----------------------------------------------------------------------------
(* Others.  The program does not see what others do after its snapshot, so *)
(* that they may as well do it after its commit.                           *)

(* Another transaction creates the twin, or puts it back to be performed. *)
TwinLive ==
  /\ phase = "committed"
  /\ twin \in {"absent", "started"}
  /\ twin' = "pending"
  /\ raced' = TRUE
  /\ UNCHANGED <<delayableVars, identity, generated, job, row, seen, phase, calls, queue,
                 waits, performed, direct, wanted, plain, alone, dropped, workVars>>

TwinStarts ==
  /\ phase = "committed"
  /\ twin = "pending"
  /\ twin' = "started"
  /\ UNCHANGED <<delayableVars, identity, generated, job, row, seen, phase, calls, queue,
                 waits, performed, direct, wanted, plain, alone, dropped, raced, workVars>>

-----------------------------------------------------------------------------
(* Workers, once the rows are committed.  A job that is postponed or not    *)
(* started yet is one that is pending.                                      *)

OnlyWork == UNCHANGED <<delayableVars, identity, generated, job, twin, seen, phase, calls,
                        queue, waits, performed, direct, wanted, plain, alone, dropped, raced>>

ToPerform(l) == phase = "committed" /\ l \in DOMAIN row /\ row[l].state = "pending"

(* perform, set_done and the commit. *)
PerformDone(l) ==
  /\ ToPerform(l)
  /\ row' = [row EXCEPT ![l].state = "done"]
  /\ second' = [second EXCEPT ![l] = "due"]
  /\ UNCHANGED releases /\ OnlyWork

PerformFails(l) ==
  /\ ToPerform(l)
  /\ row' = [row EXCEPT ![l].state = "failed"]
  /\ UNCHANGED workVars /\ OnlyWork

(* enqueue_waiting reads which children are to be released, ... *)
ReadDependents(l) ==
  /\ second[l] = "due"
  /\ second' = [second EXCEPT ![l] = "read"]
  /\ releases' = [releases EXCEPT ![l] = Released(row, l)]
  /\ UNCHANGED row /\ OnlyWork

(* ... and commits, if none was changed after it was read; ... *)
ReleaseDependents(l) ==
  /\ second[l] = "read"
  /\ \A c \in releases[l] : row[c].state = "wait_dependencies"
  /\ row' = [c \in DOMAIN row |-> IF c \in releases[l] THEN [row[c] EXCEPT !.state = "pending"]
                                   ELSE row[c]]
  /\ second' = [second EXCEPT ![l] = "over"]
  /\ releases' = [releases EXCEPT ![l] = {}]
  /\ OnlyWork

(* ... otherwise the attempts that follow fail in the aborted transaction. *)
DependentsConflict(l) ==
  /\ second[l] = "read"
  /\ \E c \in releases[l] : row[c].state # "wait_dependencies"
  /\ second' = [second EXCEPT ![l] = "lost"]
  /\ releases' = [releases EXCEPT ![l] = {}]
  /\ UNCHANGED row /\ OnlyWork

(* The worker dies between its two commits. *)
WorkerCrash(l) ==
  /\ second[l] \in {"due", "read"}
  /\ second' = [second EXCEPT ![l] = "lost"]
  /\ releases' = [releases EXCEPT ![l] = {}]
  /\ UNCHANGED row /\ OnlyWork

Work(l) ==
  \/ PerformDone(l) \/ PerformFails(l)
  \/ ReadDependents(l) \/ ReleaseDependents(l) \/ DependentsConflict(l)
  \/ WorkerCrash(l)

-----------------------------------------------------------------------------
Init ==
  /\ DelayablesInit
  /\ identity \in [prepared -> {Key, NoKey}]
  /\ generated = [l \in prepared |-> "none"]
  /\ job = <<>> /\ row = <<>>
  /\ seen \in {"absent", "pending"} /\ twin = seen
  /\ phase = "building" /\ calls = 0
  /\ queue = <<>> /\ waits = <<>> /\ performed = <<>> /\ direct = <<>>
  /\ wanted = {} /\ plain = TRUE /\ alone = TRUE /\ dropped = {} /\ raced = FALSE
  /\ second = [l \in Leaf |-> "none"] /\ releases = [l \in Leaf |-> {}]

Next ==
  \/ \E b \in Box : MakeChain(b) \/ MakeGroup(b)
  \/ \E n, child \in Node : ConnectOnDone(n, child)
  \/ \E l \in Leaf, b \in Box : SplitMethod(l, b)
  \/ \E n \in Node : Delay(n)
  \/ PerformDirect \/ PerformRaises
  \/ Commit
  \/ TwinLive \/ TwinStarts
  \/ \E l \in Leaf : Work(l)

Spec == Init /\ [][Next]_vars

-----------------------------------------------------------------------------
(* The rows' depends_on, as a relation. *)
StoredOrder == Closure(UNION {row[l].depends \X {l} : l \in DOMAIN row})

(* The jobs that are stored depend on each other as the chains, the groups *)
(* and the calls of on_done ask for, through any other job and no more     *)
(* than that, as long as the shapes are plain (_merge_graph,               *)
(* _connect_graphs, add_depends, store).                                   *)
GraphStoredAsAsked ==
  phase \in {"building", "committed"} /\ plain => StoredOrder = wanted

(* "A chain represents a sequence of jobs to execute in order"             *)
(* (README.rst:222), whatever its members are, as long as there are two of *)
(* them and none is empty: no job that has to come after another one is    *)
(* stored without depending on it (_head and _tail of DelayableChain).     *)
ChainsInOrder ==
  /\ phase = "building"
  /\ \A b \in Box : kind[b] # "none" =>
       Jobs(b) # {} /\ (kind[b] = "chain" => Len(members[b]) >= 2)
  => wanted \subseteq StoredOrder

(* What enqueue_waiting counts on: parent and child know each other and    *)
(* have rows of the same graph.  A child is released only when all its     *)
(* parents are done; it waits for longer only as far as the worker of one  *)
(* of them has the release still to commit, or has lost it.                *)
DependentsLinked ==
  \A l \in DOMAIN row :
    /\ \A p \in row[l].depends :
         /\ p \in DOMAIN row
         /\ l \in row[p].children
         /\ row[p].graph = row[l].graph /\ row[l].graph # NoGraph
    /\ \/ row[l].state = "wait_dependencies"
       \/ \A p \in row[l].depends : row[p].state = "done"
    /\ \/ row[l].state # "wait_dependencies"
       \/ \E p \in row[l].depends : \/ row[p].state # "done"
                                    \/ second[p] \in {"due", "lost"}
                                    \/ second[p] = "read" /\ l \in releases[p]

(* The jobs whose children nothing will release. *)
Stopped == {p \in DOMAIN row : row[p].state = "failed" \/ second[p] = "lost"}

(* "The other jobs of the graph that do not depend on the failed job       *)
(* continue their execution in any case" (USAGE.rst:100): when the workers *)
(* have nothing more to do, each job of a graph that is committed is done, *)
(* or failed, or comes after a job that failed or whose worker lost its    *)
(* second transaction (delay, enqueue_waiting).                            *)
GraphGoesOn ==
  /\ phase = "committed"
  /\ \A l \in DOMAIN row : row[l].state # "pending" /\ second[l] \notin {"due", "read"}
  => \A l \in DOMAIN row : \/ row[l].state \in {"done", "failed"}
                           \/ \E p \in Stopped : <<p, l>> \in StoredOrder

(* With the jobs run without delay, none is performed before a job it has  *)
(* to come after, and when there is nothing more to do all are performed   *)
(* (topological_sort, _execute_graph_direct).                              *)
DirectInOrder ==
  phase = "direct" /\ plain =>
    /\ \A i, k \in DOMAIN performed : i <= k => <<performed[k], performed[i]>> \notin wanted
    /\ queue = <<>> => Range(performed) = DOMAIN direct

(* Two jobs with the same identity key that are to be performed come from  *)
(* a graph of several jobs, or from a transaction the other one did not    *)
(* see (delay, job_record_with_same_identity_key).                         *)
OneJobPerIdentity ==
  alone /\ ~raced =>
    Cardinality({l \in DOMAIN row : row[l].key = Key /\ row[l].state \in Live}
                  \cup (IF twin \in Live THEN {Twin} ELSE {})) <= 1
=============================================================================
