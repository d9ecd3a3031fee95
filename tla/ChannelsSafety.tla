--------------------------- MODULE ChannelsSafety ---------------------------
(***************************************************************************)
(* The safety of the channels for every tree of channels, every capacity   *)
(* and every throttle: no channel of the tree has more busy jobs than its  *)
(* capacity, a sequential channel is held by its busy and failed jobs, and *)
(* a throttled one keeps its distance.                                     *)
(***************************************************************************)
EXTENDS Channels, FiniteSetTheorems, WellFoundedInduction, TLAPS

(* A job that is queued in a channel on its path runs in the channels it   *)
(* has left behind.                                                        *)
QueuedInv ==
  \A c \in Channel : \A j \in queue[c] \cup etaQueue[c] :
    /\ c \in Path[ChannelOf[j]]
    /\ \A d \in Path[ChannelOf[j]] \ Path[c] : j \in running[d]

(* The busy jobs run in their whole path, as the runner knows them.        *)
BusyRunningInv == phase # "load" => \A c \in Channel : BusyIn(c) \subseteq running[c]

RunningInv ==
  \A c \in Channel : Capacity[c] > 0 => Cardinality(running[c]) <= Capacity[c]

CapacityInv == QueuedInv /\ BusyRunningInv /\ RunningInv /\ TreeCapacity

(* The runner knows of every failed job whose notification it has read.    *)
FailedInv ==
  phase # "load" =>
    \A j \in Job \ notified : row[j] = "failed" => j \in failed[ChannelOf[j]]

(* The pause of a throttled channel is on, or it is over.                  *)
ThrottleInv ==
  \A c \in Channel : lastYield[c] # 0 =>
    \/ pauseUntil[c] = lastYield[c] + Throttle[c]
    \/ now >= lastYield[c] + Throttle[c]

-----------------------------------------------------------------------------
(* The path of a channel goes through its parent to the root.              *)
LEMMA PathFacts ==
  ASSUME NEW c \in Channel
  PROVE  /\ c \in Path[c]
         /\ Root \in Path[c]
         /\ Path[c] \subseteq Channel
         /\ \A d \in Path[c] : Path[d] \subseteq Path[c] /\ (d # Root => Parent[d] \in Path[c])
         /\ c # Root => Path[Parent[c]] = Path[c] \ {c}
<1>1. c \in Path[c] /\ Path[c] \subseteq Channel /\ (c # Root => Path[Parent[c]] = Path[c] \ {c})
  BY TreeAssumption
<1>2. Root \in Path[c] /\ \A d \in Path[c] : Path[d] \subseteq Path[c]
  BY <1>1, PathAssumption
<1>3. ASSUME NEW d \in Path[c], d # Root
      PROVE  Parent[d] \in Path[c]
  <2>1. d \in Channel /\ Parent[d] \in Channel
    BY <1>1, TreeAssumption, d # Root
  <2>2. Parent[d] \in Path[Parent[d]]
    BY <2>1, TreeAssumption
  <2>3. Parent[d] \in Path[d]
    BY <2>1, <2>2, TreeAssumption, d # Root
  <2> QED
    BY <2>3, <1>2
<1> QED
  BY <1>1, <1>2, <1>3

(* A set of naturals that is not empty has a least element.                *)
LessThan == {m \in Nat \X Nat : m[1] < m[2]}

LEMMA LeastNatural ==
  ASSUME NEW S \in SUBSET Nat, S # {}
  PROVE  /\ \E x \in S : \A y \in S : x <= y
         /\ Min(S) \in S
<1>1. IsWellFoundedOn(LessThan, Nat)
  BY NatLessThanWellFounded, Zenon DEF OpToRel, LessThan
<1>2. \E x \in S : \A y \in S : <<y, x>> \notin LessThan
  BY <1>1, WFMin
<1>3. \A x, y \in Nat : <<y, x>> \notin LessThan => x <= y
  <2> SUFFICES ASSUME NEW x \in Nat, NEW y \in Nat, y < x
               PROVE  <<y, x>> \in LessThan
    OBVIOUS
  <2>1. <<y, x>>[1] = y /\ <<y, x>>[2] = x
    OBVIOUS
  <2> QED
    BY <2>1, Zenon DEF LessThan
<1>4. \E x \in S : \A y \in S : x <= y
  BY <1>2, <1>3
<1> QED
  BY <1>4 DEF Min

(* The first job of a set of jobs is one of them.                          *)
LEMMA FirstIsOne ==
  ASSUME NEW S \in SUBSET Job, S # {}
  PROVE  First(S) \in S
<1> DEFINE ranks == {Rank[j] : j \in S}
<1>1. ranks \in SUBSET Nat /\ ranks # {}
  BY JobAssumption
<1>2. \E x \in ranks : \A y \in ranks : x <= y
  BY <1>1, LeastNatural
<1>3. \E j \in S : \A i \in S : Rank[j] <= Rank[i]
  BY <1>2
<1> QED
  BY <1>3 DEF First

(* The jobs a channel considers are its own.                               *)
LEMMA ReadyType ==
  ASSUME TypeOK, NEW c \in Channel
  PROVE  /\ ReadyJobs(c) \in SUBSET Job /\ EtaJobs(c) \in SUBSET Job
         /\ ReadyJobs(c) \subseteq queue[c] \cup etaQueue[c]
         /\ EtaJobs(c) \subseteq etaQueue[c]
         /\ Pops(c) => First(ReadyJobs(c)) \in ReadyJobs(c)
<1>1. queue[c] \in SUBSET Job /\ etaQueue[c] \in SUBSET Job
  BY DEF TypeOK
<1>2. ReadyJobs(c) \in SUBSET Job
  BY <1>1 DEF ReadyJobs, PastEta
<1> QED
  BY <1>1, <1>2, FirstIsOne DEF ReadyJobs, EtaJobs, PastEta, Pops

-----------------------------------------------------------------------------
(* What a notification does to the places of its job and of the others.    *)
PlacesType ==
  [queue : [Channel -> SUBSET Job], etaQueue : [Channel -> SUBSET Job],
   running : [Channel -> SUBSET Job], failed : [Channel -> SUBSET Job]]

QueuedIn(p, j) ==
  \A c \in Channel : j \in p.queue[c] \cup p.etaQueue[c] =>
    /\ c \in Path[ChannelOf[j]]
    /\ \A d \in Path[ChannelOf[j]] \ Path[c] : j \in p.running[d]

(* The other jobs are where they were.                                     *)
OthersKept(p, q, j) ==
  \A c \in Channel :
    /\ q.queue[c] \ {j} = p.queue[c] \ {j}
    /\ q.etaQueue[c] \ {j} = p.etaQueue[c] \ {j}
    /\ q.running[c] \ {j} = p.running[c] \ {j}
    /\ q.failed[c] \ {j} = p.failed[c] \ {j}

Moved(p, q, j) ==
  /\ q \in PlacesType
  /\ OthersKept(p, q, j)
  /\ QueuedIn(p, j) => QueuedIn(q, j)

(* Channel.remove on a part cs of the tree gives places r.                 *)
Removed(p, r, cs, j) ==
  /\ r \in PlacesType
  /\ \A c \in Channel :
       /\ r.queue[c] = IF c \in cs THEN p.queue[c] \ {j} ELSE p.queue[c]
       /\ r.etaQueue[c] = IF c \in cs THEN p.etaQueue[c] \ {j} ELSE p.etaQueue[c]
       /\ r.running[c] = IF c \in cs THEN p.running[c] \ {j} ELSE p.running[c]
       /\ r.failed[c] = IF c \in cs THEN p.failed[c] \ {j} ELSE p.failed[c]

LEMMA RemoveFacts ==
  ASSUME NEW p \in PlacesType, NEW cs \in SUBSET Channel, NEW j \in Job
  PROVE  Removed(p, Remove(p, cs, j), cs, j)
BY DEF Removed, Remove, Without, PlacesType

(* Taken out of its whole path, a job is queued nowhere.                   *)
LEMMA RemoveMoves ==
  ASSUME NEW p \in PlacesType, NEW j \in Job, NEW r, Removed(p, r, Path[ChannelOf[j]], j)
  PROVE  /\ Moved(p, r, j)
         /\ QueuedIn(p, j) => \A c \in Channel : j \notin r.queue[c] /\ j \notin r.etaQueue[c]
<1>1. OthersKept(p, r, j)
  BY DEF OthersKept, Removed
<1>2. QueuedIn(p, j) => \A c \in Channel : j \notin r.queue[c] /\ j \notin r.etaQueue[c]
  BY DEF QueuedIn, Removed
<1> QED
  BY <1>1, <1>2 DEF Moved, QueuedIn, Removed

(* A pending job is queued in its own channel.                             *)
LEMMA SetPendingMoves ==
  ASSUME NEW p \in PlacesType, NEW j \in Job, NEW q, q = SetPending(p, ChannelOf[j], j)
  PROVE  /\ Moved(p, q, j)
         /\ \A c \in Channel : q.running[c] \subseteq p.running[c]
<1> DEFINE c == ChannelOf[j]
           r == Remove(p, Path[c], j)
<1>1. c \in Channel /\ Path[c] \in SUBSET Channel /\ c \in Path[c]
  BY TreeAssumption, JobAssumption
<1>2. CASE j \in p.queue[c] \cup p.etaQueue[c]
  BY <1>2 DEF SetPending, Moved, OthersKept
<1>3. CASE j \notin p.queue[c] \cup p.etaQueue[c]
  <2>1. Removed(p, r, Path[c], j)
    BY <1>1, RemoveFacts
  <2>2. q = IF rowEta[j] = 0 THEN [r EXCEPT !.queue = With(@, {c}, j)]
                             ELSE [r EXCEPT !.etaQueue = With(@, {c}, j)]
    BY <1>3 DEF SetPending
  <2> HIDE DEF r
  <2>3. r \in PlacesType /\ Moved(p, r, j)
    BY <2>1, RemoveMoves DEF Removed
  <2>4. /\ q \in PlacesType /\ q.running = r.running /\ q.failed = r.failed
        /\ \A d \in Channel : d # c => q.queue[d] = r.queue[d] /\ q.etaQueue[d] = r.etaQueue[d]
        /\ q.queue[c] \ {j} = r.queue[c] \ {j}
        /\ q.etaQueue[c] \ {j} = r.etaQueue[c] \ {j}
    BY <1>1, <2>3, <2>2 DEF PlacesType, With
  <2>5. \A d \in Channel : q.running[d] \subseteq p.running[d]
    BY <2>1, <2>4 DEF Removed
  <2>6. OthersKept(p, q, j)
    BY <2>3, <2>4 DEF Moved, OthersKept
  <2>7. QueuedIn(p, j) => QueuedIn(q, j)
    BY <1>1, <2>1, <2>4, RemoveMoves DEF QueuedIn
  <2> QED
    BY <2>4, <2>5, <2>6, <2>7 DEF Moved
<1> QED
  BY <1>2, <1>3

(* A busy job runs in the whole path, and nothing changes if it does.      *)
LEMMA SetRunningMoves ==
  ASSUME NEW p \in PlacesType, NEW j \in Job, NEW q, q = SetRunning(p, ChannelOf[j], j)
  PROVE  /\ Moved(p, q, j)
         /\ (\A d \in Path[ChannelOf[j]] : j \in p.running[d])
              => \A d \in Channel : q.running[d] = p.running[d]
         /\ (\A d \in Path[ChannelOf[j]] : j \notin p.running[d])
              => \A d \in Channel : q.running[d] = IF d \in Path[ChannelOf[j]]
                                                 THEN p.running[d] \cup {j} ELSE p.running[d]
<1> DEFINE c == ChannelOf[j]
           entered == {d \in Path[c] : \A b \in Path[c] : d \in Path[b] => j \notin p.running[b]}
           r == Remove(p, entered, j)
<1>1. c \in Channel /\ Path[c] \in SUBSET Channel /\ c \in Path[c]
  BY TreeAssumption, JobAssumption
<1>2. entered \in SUBSET Channel
  BY <1>1
<1>3. (\A d \in Path[c] : j \in p.running[d]) => entered = {}
  BY <1>1
<1>4. (\A d \in Path[c] : j \notin p.running[d]) => entered = Path[c]
  BY <1>1
<1>5. q = [r EXCEPT !.running = With(@, entered, j)]
  BY DEF SetRunning
<1> HIDE DEF entered
<1>6. Removed(p, r, entered, j)
  BY <1>2, RemoveFacts
<1> HIDE DEF r
<1>7. /\ q \in PlacesType
      /\ q.queue = r.queue /\ q.etaQueue = r.etaQueue /\ q.failed = r.failed
      /\ \A d \in Channel : q.running[d] = IF d \in entered THEN p.running[d] \cup {j} ELSE p.running[d]
  <2>1. r \in PlacesType
    BY <1>6 DEF Removed
  <2>2. /\ q \in PlacesType
        /\ q.queue = r.queue /\ q.etaQueue = r.etaQueue /\ q.failed = r.failed
        /\ \A d \in Channel : q.running[d] = IF d \in entered THEN r.running[d] \cup {j} ELSE r.running[d]
    <3>1. With(r.running, entered, j) \in [Channel -> SUBSET Job]
      BY <1>2, <2>1 DEF PlacesType, With
    <3>2. /\ q \in PlacesType
          /\ q.queue = r.queue /\ q.etaQueue = r.etaQueue /\ q.failed = r.failed
          /\ q.running = With(r.running, entered, j)
      BY <1>5, <2>1, <3>1 DEF PlacesType
    <3> QED
      BY <3>2 DEF With
  <2>3. \A d \in Channel : r.running[d] = IF d \in entered THEN p.running[d] \ {j} ELSE p.running[d]
    BY <1>6 DEF Removed
  <2> QED
    BY <2>2, <2>3
<1>8. OthersKept(p, q, j)
  BY <1>6, <1>7 DEF OthersKept, Removed
<1>9. QueuedIn(p, j) => QueuedIn(q, j)
  <2> SUFFICES ASSUME QueuedIn(p, j), NEW d \in Channel, j \in q.queue[d] \cup q.etaQueue[d]
               PROVE  /\ d \in Path[c]
                      /\ \A b \in Path[c] \ Path[d] : j \in q.running[b]
    BY DEF QueuedIn
  <2>1. j \in p.queue[d] \cup p.etaQueue[d]
    BY <1>6, <1>7 DEF Removed
  <2> QED
    BY <1>1, <1>7, <2>1 DEF QueuedIn
<1> QED
  BY <1>1, <1>3, <1>4, <1>7, <1>8, <1>9 DEF Moved

(* A failed job is put with the failed ones of its channel.                *)
LEMMA SetFailedMoves ==
  ASSUME NEW p \in PlacesType, NEW j \in Job, NEW q, q = SetFailed(p, ChannelOf[j], j)
  PROVE  /\ Moved(p, q, j)
         /\ j \in q.failed[ChannelOf[j]]
         /\ \A c \in Channel : q.running[c] \subseteq p.running[c]
<1> DEFINE c == ChannelOf[j]
           r == Remove(p, Path[c], j)
<1>1. c \in Channel /\ Path[c] \in SUBSET Channel
  BY TreeAssumption, JobAssumption
<1>2. CASE j \in p.failed[c]
  BY <1>2 DEF SetFailed, Moved, OthersKept
<1>3. CASE j \notin p.failed[c]
  <2>1. Removed(p, r, Path[c], j)
    BY <1>1, RemoveFacts
  <2>2. q = [r EXCEPT !.failed = With(@, {c}, j)]
    BY <1>3 DEF SetFailed
  <2> HIDE DEF r
  <2>3. r \in PlacesType /\ Moved(p, r, j)
    BY <2>1, RemoveMoves DEF Removed
  <2>4. /\ q \in PlacesType
        /\ q.queue = r.queue /\ q.etaQueue = r.etaQueue /\ q.running = r.running
        /\ \A d \in Channel : q.failed[d] \ {j} = r.failed[d] \ {j}
        /\ j \in q.failed[c]
    BY <1>1, <2>2, <2>3 DEF PlacesType, With
  <2>5. \A d \in Channel : q.running[d] \subseteq p.running[d]
    BY <2>1, <2>4 DEF Removed
  <2> QED
    BY <2>3, <2>4, <2>5 DEF Moved, OthersKept, QueuedIn
<1> QED
  BY <1>2, <1>3

(* The places a notification of j gives to the jobs.                       *)
LEMMA NotifiedMoves ==
  ASSUME TypeOK, NEW j \in Job, NEW q, q = Notified(j)
  PROVE  /\ Moved(Places, q, j)
         /\ row[j] \notin Busy => \A c \in Channel : q.running[c] \subseteq running[c]
         /\ row[j] \in Busy /\ (\A c \in Path[ChannelOf[j]] : j \in running[c])
              => \A c \in Channel : q.running[c] = running[c]
         /\ row[j] = "failed" => j \in q.failed[ChannelOf[j]]
<1> DEFINE c == ChannelOf[j]
           p == IF jobEta[j] = rowEta[j] THEN Places ELSE Remove(Places, Path[c], j)
<1>1. c \in Channel /\ Path[c] \in SUBSET Channel
  BY TreeAssumption, JobAssumption
<1>2. Places \in PlacesType /\ Places.running = running
  BY DEF Places, PlacesType, TypeOK
<1>3. \/ p = Places
      \/ Removed(Places, p, Path[c], j)
  BY <1>1, <1>2, RemoveFacts
<1>4. q = CASE row[j] \in {"done", "cancelled"} -> Remove(p, Path[c], j)
            [] row[j] = "pending"               -> SetPending(p, c, j)
            [] row[j] \in Busy                  -> SetRunning(p, c, j)
            [] row[j] = "failed"                -> SetFailed(p, c, j)
            [] OTHER                            -> p
  BY DEF Notified
<1> HIDE DEF p
<1>5. p \in PlacesType /\ Moved(Places, p, j) /\ \A d \in Channel : p.running[d] \subseteq running[d]
  BY <1>2, <1>3, RemoveMoves DEF Removed, Moved, OthersKept
<1>6. ASSUME Moved(p, q, j)
      PROVE  Moved(Places, q, j)
  BY <1>5, <1>6 DEF Moved, OthersKept
<1>7. CASE row[j] \in {"done", "cancelled"}
  <2>1. q = Remove(p, Path[c], j)
    BY <1>4, <1>7, Zenon DEF Busy
  <2>2. Removed(p, q, Path[c], j)
    BY <1>1, <1>5, <2>1, RemoveFacts
  <2>3. Moved(p, q, j)
    BY <1>5, <2>2, RemoveMoves
  <2>4. \A d \in Channel : q.running[d] \subseteq running[d]
    BY <1>5, <2>2 DEF Removed
  <2> QED
    BY <1>6, <1>7, <2>3, <2>4 DEF Busy
<1>8. CASE row[j] = "pending"
  <2>1. q = SetPending(p, c, j)
    BY <1>4, <1>8, Zenon DEF Busy
  <2>2. Moved(p, q, j) /\ \A d \in Channel : q.running[d] \subseteq p.running[d]
    BY <1>5, <2>1, SetPendingMoves
  <2> QED
    BY <1>5, <1>6, <1>8, <2>2 DEF Busy
<1>9. CASE row[j] \in Busy
  <2>1. q = SetRunning(p, c, j)
    BY <1>4, <1>9 DEF Busy
  <2>2. Moved(p, q, j)
    BY <1>5, <2>1, SetRunningMoves
  <2>3. ASSUME \A d \in Path[c] : j \in running[d]
        PROVE  \A d \in Channel : q.running[d] = running[d]
    <3>1. CASE p = Places
      BY <1>2, <2>1, <2>3, <3>1, SetRunningMoves
    <3>2. CASE Removed(Places, p, Path[c], j)
      <4>1. \A d \in Channel : p.running[d] = IF d \in Path[c] THEN running[d] \ {j} ELSE running[d]
        BY <1>2, <3>2 DEF Removed
      <4>2. \A d \in Path[c] : j \notin p.running[d]
        BY <1>1, <4>1
      <4>3. \A d \in Channel : q.running[d] = IF d \in Path[c]
                                              THEN p.running[d] \cup {j} ELSE p.running[d]
        BY <1>5, <2>1, <4>2, SetRunningMoves, SMTT(30)
      <4> QED
        BY <1>1, <2>3, <4>1, <4>3
    <3> QED
      BY <1>3, <3>1, <3>2
  <2> QED
    BY <1>6, <1>9, <2>2, <2>3 DEF Busy
<1>10. CASE row[j] = "failed"
  <2>1. q = SetFailed(p, c, j)
    BY <1>4, <1>10 DEF Busy
  <2>2. /\ Moved(p, q, j) /\ j \in q.failed[c]
        /\ \A d \in Channel : q.running[d] \subseteq p.running[d]
    BY <1>5, <2>1, SetFailedMoves
  <2> QED
    BY <1>5, <1>6, <1>10, <2>2 DEF Busy
<1>11. CASE row[j] = "wait_dependencies"
  <2>1. q = p
    BY <1>4, <1>11 DEF Busy
  <2> QED
    BY <1>5, <1>11, <2>1 DEF Busy
<1>12. row[j] \in States
  BY DEF TypeOK
<1> QED
  BY <1>7, <1>8, <1>9, <1>10, <1>11, <1>12 DEF States, Busy

-----------------------------------------------------------------------------
(* The times the runner waits for are on the clock.                        *)
LEMMA WakeupTimesType ==
  ASSUME TypeOK
  PROVE  WakeupTimes \in SUBSET Nat
<1>1. /\ \A c \in Channel : pauseUntil[c] \in Nat
      /\ \A c \in Channel : \A j \in etaQueue[c] : jobEta[j] \in Nat
  BY DEF TypeOK
<1> QED
  BY <1>1 DEF WakeupTimes

LEMMA ForgetPastEtasType ==
  ASSUME TypeOK, NEW c \in Channel, ForgetPastEtas(c)
  PROVE  /\ etaQueue' \in [Channel -> SUBSET Job]
         /\ jobEta' \in [Job -> Nat]
         /\ etaQueue'[c] = EtaJobs(c)
         /\ \A d \in Channel \ {c} : etaQueue'[d] = etaQueue[d]
<1>1. EtaJobs(c) \in SUBSET Job
  BY ReadyType
<1> QED
  BY <1>1 DEF TypeOK, ForgetPastEtas

LEMMA InitTypeOK == Init => TypeOK
<1> SUFFICES ASSUME Init
             PROVE  TypeOK
  OBVIOUS
<1>1. rowEta \in [Job -> Nat]
  BY BoundAssumption DEF Init
<1>2. now \in 1..MaxTime /\ lastYield \in [Channel -> 0..MaxTime]
  BY BoundAssumption DEF Init
<1> QED
  BY <1>1, <1>2 DEF Init, TypeOK, States

LEMMA StepTypeOK == TypeOK /\ [Next]_vars => TypeOK'
<1> SUFFICES ASSUME TypeOK, [Next]_vars
             PROVE  TypeOK'
  OBVIOUS
<1> USE DEF TypeOK
<1>1. CASE Load
  <2>1. \A c \in Channel : BusyIn(c) \in SUBSET Job
    BY DEF BusyIn
  <2> QED
    BY <1>1, <2>1 DEF Load, rowVars
<1>2. CASE StartRun
  BY <1>2, PostOrderAssumption DEF StartRun, rowVars, placeVars
<1>3. CASE Wait
  <2>1. wakeup' \in Nat
    BY <1>3, WakeupTimesType, LeastNatural DEF Wait
  <2> QED
    BY <1>3, <2>1 DEF Wait, rowVars, placeVars
<1>4. CASE Wake
  BY <1>4 DEF Wake, rowVars, placeVars
<1>5. CASE Recover
  BY <1>5 DEF Recover
<1>6. CASE Tick
  <2>1. now' \in 1..MaxTime
    BY <1>6, BoundAssumption DEF Tick
  <2> QED
    BY <1>6, <2>1 DEF Tick, rowVars, placeVars
<1>7. ASSUME NEW j \in Job, Notify(j)
      PROVE  TypeOK'
  <2>1. Notified(j) \in PlacesType
    BY NotifiedMoves DEF Moved
  <2> QED
    BY <1>7, <2>1 DEF Notify, PlacesType
<1>8. ASSUME NEW j \in Job, Change(j)
      PROVE  TypeOK'
  <2>1. rowEta' \in [Job -> Nat]
    BY <1>8, BoundAssumption DEF Change
  <2> QED
    BY <1>8, <2>1 DEF Change, placeVars
<1>9. ASSUME NEW c \in Channel, Visits(c)
      PROVE  Tail(todo) \in Seq(Channel)
  BY <1>9 DEF Visits
<1>10. ASSUME NEW c \in Channel, Skip(c)
       PROVE  TypeOK'
  BY <1>9, <1>10 DEF Skip, rowVars, placeVars
<1>11. ASSUME NEW c \in Channel, Unpause(c)
       PROVE  TypeOK'
  BY <1>11 DEF Unpause, rowVars, placeVars
<1>12. ASSUME NEW c \in Channel, Yield(c)
       PROVE  TypeOK'
  <2> DEFINE j == First(ReadyJobs(c))
  <2>1. j \in Job /\ ReadyJobs(c) \in SUBSET Job
    BY <1>12, ReadyType DEF Yield
  <2>2. queue' \in [Channel -> SUBSET Job] /\ running' \in [Channel -> SUBSET Job]
    BY <1>12, <2>1 DEF Yield
  <2>3. row' \in [Job -> States] /\ notified' \subseteq Job
    BY <1>12, <2>1 DEF Yield, States
  <2>4. etaQueue' \in [Channel -> SUBSET Job] /\ jobEta' \in [Job -> Nat]
    BY <1>12, ForgetPastEtasType DEF Yield
  <2>5. PauseEnd(c) \in Nat /\ now \in 0..MaxTime
    BY ConfigurationAssumption DEF PauseEnd
  <2>6. /\ pauseUntil' \in [Channel -> Nat]
        /\ lastYield' \in [Channel -> 0..MaxTime]
        /\ todo' \in Seq(Channel)
    BY <1>9, <1>12, <2>5 DEF Yield
  <2>7. UNCHANGED <<rowEta, now, failed, phase, wakeup>>
    BY <1>12 DEF Yield
  <2> QED
    BY <2>2, <2>3, <2>4, <2>6, <2>7
<1>13. ASSUME NEW c \in Channel, Leave(c)
       PROVE  TypeOK'
  <2>1. todo' \in Seq(Channel)
    BY <1>9, <1>13 DEF Leave
  <2>2. /\ jobEta' \in [Job -> Nat]
        /\ \A f \in {queue', etaQueue', running', failed'} : f \in [Channel -> SUBSET Job]
    <3>1. CASE UNCHANGED placeVars
      BY <3>1 DEF placeVars
    <3>2. CASE /\ queue' = [queue EXCEPT ![c] = ReadyJobs(c)]
               /\ ForgetPastEtas(c)
               /\ UNCHANGED <<running, failed>>
      BY <3>2, ReadyType, ForgetPastEtasType
    <3> QED
      BY <1>13, <3>1, <3>2 DEF Leave
  <2> QED
    BY <1>13, <2>1, <2>2 DEF Leave, rowVars
<1>14. CASE UNCHANGED vars
  BY <1>14 DEF vars, rowVars, placeVars
<1> QED
  BY <1>1, <1>2, <1>3, <1>4, <1>5, <1>6, <1>7, <1>8, <1>10, <1>11, <1>12, <1>13, <1>14
  DEF Next

(* Type correctness: the channels, the clock and the runner's loop keep to *)
(* their types.                                                            *)
THEOREM ChannelsTypeCorrect == Spec => []TypeOK
<1>1. Init => TypeOK
  BY InitTypeOK
<1>2. TypeOK /\ [Next]_vars => TypeOK'
  BY StepTypeOK
<1> QED
  BY <1>1, <1>2, PTL DEF Spec

-----------------------------------------------------------------------------
(* The sets of jobs are finite, and their cardinals those of finite sets.  *)
LEMMA JobSets ==
  ASSUME NEW S \in SUBSET Job
  PROVE  /\ IsFiniteSet(S) /\ Cardinality(S) \in Nat
         /\ \A T \in SUBSET S : IsFiniteSet(T) /\ Cardinality(T) <= Cardinality(S)
         /\ \A j \in Job : Cardinality(S \cup {j}) <= Cardinality(S) + 1
         /\ Cardinality(S) = 0 <=> S = {}
<1>1. IsFiniteSet(S)
  BY JobAssumption, FS_Subset
<1>2. Cardinality(S) \in Nat
  BY <1>1, FS_CardinalityType
<1>3. \A T \in SUBSET S : IsFiniteSet(T) /\ Cardinality(T) <= Cardinality(S)
  BY <1>1, FS_Subset
<1>4. ASSUME NEW j \in Job
      PROVE  Cardinality(S \cup {j}) <= Cardinality(S) + 1
  <2>1. Cardinality(S \cup {j}) = IF j \in S THEN Cardinality(S) ELSE Cardinality(S) + 1
    BY <1>1, FS_AddElement
  <2> QED
    BY <1>2, <2>1
<1>5. Cardinality(S) = 0 <=> S = {}
  BY <1>1, FS_EmptySet
<1> QED
  BY <1>1, <1>2, <1>3, <1>4, <1>5

LEMMA BusyInType ==
  ASSUME NEW c \in Channel
  PROVE  BusyIn(c) \in SUBSET Job
BY DEF BusyIn

(* The rows that are busy afterwards were so before.                       *)
LEMMA FewerBusy ==
  ASSUME TreeCapacity, \A c \in Channel : BusyIn(c)' \subseteq BusyIn(c)
  PROVE  TreeCapacity'
<1> SUFFICES ASSUME NEW c \in Channel, Capacity[c] > 0
             PROVE  Cardinality(BusyIn(c)') <= Capacity[c]
  BY DEF TreeCapacity
<1>1. Cardinality(BusyIn(c)) <= Capacity[c] /\ Capacity[c] \in Nat
  BY ConfigurationAssumption DEF TreeCapacity
<1>2. Cardinality(BusyIn(c)') <= Cardinality(BusyIn(c))
  BY BusyInType, JobSets
<1>3. Cardinality(BusyIn(c)) \in Nat /\ Cardinality(BusyIn(c)') \in Nat
  <2>1. BusyIn(c) \in SUBSET Job /\ BusyIn(c)' \in SUBSET Job
    BY BusyInType
  <2> QED
    BY <2>1, JobSets
<1> QED
  BY <1>1, <1>2, <1>3

(* The capacity of the channels bounds the jobs that run in them, hence    *)
(* the busy ones.                                                          *)
LEMMA BoundedByRunning ==
  ASSUME TypeOK', RunningInv', BusyRunningInv', phase' # "load"
  PROVE  TreeCapacity'
<1> SUFFICES ASSUME NEW c \in Channel, Capacity[c] > 0
             PROVE  Cardinality(BusyIn(c)') <= Capacity[c]
  BY DEF TreeCapacity
<1>1. running'[c] \in SUBSET Job /\ BusyIn(c)' \subseteq running'[c]
  BY DEF TypeOK, BusyRunningInv
<1>2. Cardinality(running'[c]) <= Capacity[c] /\ Capacity[c] \in Nat
  BY ConfigurationAssumption DEF RunningInv
<1>3. /\ Cardinality(BusyIn(c)') <= Cardinality(running'[c])
      /\ Cardinality(running'[c]) \in Nat
  BY <1>1, JobSets
<1>4. Cardinality(BusyIn(c)') \in Nat
  <2>1. BusyIn(c)' \in SUBSET Job
    BY <1>1
  <2> QED
    BY <2>1, JobSets
<1> QED
  BY <1>2, <1>3, <1>4

(* A step that changes neither the rows nor the places of the jobs.        *)
LEMMA PlacesKept ==
  ASSUME CapacityInv, UNCHANGED <<row, placeVars>>, phase' # "load" => phase # "load"
  PROVE  CapacityInv'
<1>1. \A c \in Channel : BusyIn(c)' = BusyIn(c)
  BY DEF BusyIn
<1>2. TreeCapacity'
  BY <1>1, FewerBusy DEF CapacityInv
<1> QED
  BY <1>1, <1>2 DEF CapacityInv, QueuedInv, BusyRunningInv, RunningInv, placeVars

LEMMA LoadCapacity ==
  ASSUME TypeOK, CapacityInv, Load
  PROVE  CapacityInv'
<1>1. \A c \in Channel : running'[c] = BusyIn(c) /\ BusyIn(c)' = BusyIn(c)
  BY DEF Load, BusyIn, rowVars
<1>2. QueuedInv'
  <2>1. \A c \in Channel : \A j \in queue'[c] \cup etaQueue'[c] : j \in Job /\ ChannelOf[j] = c
    BY DEF Load
  <2> QED
    BY <2>1, PathFacts DEF QueuedInv
<1>3. RunningInv'
  BY <1>1 DEF RunningInv, CapacityInv, TreeCapacity
<1>4. TreeCapacity'
  BY <1>1, FewerBusy DEF CapacityInv
<1> QED
  BY <1>1, <1>2, <1>3, <1>4 DEF CapacityInv, BusyRunningInv

LEMMA NotifyCapacity ==
  ASSUME TypeOK, CapacityInv, NEW j \in Job, Notify(j)
  PROVE  CapacityInv'
<1> DEFINE q == Notified(j)
<1>1. /\ Moved(Places, q, j)
      /\ row[j] \notin Busy => \A c \in Channel : q.running[c] \subseteq running[c]
      /\ row[j] \in Busy /\ (\A c \in Path[ChannelOf[j]] : j \in running[c])
           => \A c \in Channel : q.running[c] = running[c]
  BY NotifiedMoves
<1>2. /\ queue' = q.queue /\ etaQueue' = q.etaQueue
      /\ running' = q.running /\ failed' = q.failed
      /\ row' = row /\ phase = "notify" /\ phase' = "notify"
  BY DEF Notify
<1> HIDE DEF q
<1>3. \A c \in Channel : BusyIn(c)' = BusyIn(c)
  BY <1>2 DEF BusyIn
<1>4. \A c \in Channel : /\ queue'[c] \ {j} = queue[c] \ {j}
                         /\ etaQueue'[c] \ {j} = etaQueue[c] \ {j}
                         /\ running'[c] \ {j} = running[c] \ {j}
  BY <1>1, <1>2 DEF Moved, OthersKept, Places
<1>5. QueuedInv'
  <2>1. QueuedIn(Places, j)
    BY DEF QueuedIn, Places, CapacityInv, QueuedInv
  <2>2. QueuedIn(q, j)
    BY <1>1, <2>1 DEF Moved
  <2> SUFFICES ASSUME NEW c \in Channel, NEW i \in queue'[c] \cup etaQueue'[c]
               PROVE  /\ c \in Path[ChannelOf[i]]
                      /\ \A d \in Path[ChannelOf[i]] \ Path[c] : i \in running'[d]
    BY DEF QueuedInv
  <2>3. CASE i = j
    BY <1>2, <2>2, <2>3 DEF QueuedIn
  <2>4. CASE i # j
    <3>1. i \in queue[c] \cup etaQueue[c] /\ i \in Job
      BY <1>4, <2>4 DEF TypeOK
    <3>2. /\ c \in Path[ChannelOf[i]]
          /\ \A d \in Path[ChannelOf[i]] \ Path[c] : i \in running[d]
      BY <3>1 DEF CapacityInv, QueuedInv
    <3>3. Path[ChannelOf[i]] \subseteq Channel
      BY <3>1, JobAssumption, TreeAssumption
    <3> QED
      BY <1>4, <2>4, <3>2, <3>3
  <2> QED
    BY <2>3, <2>4
<1>6. row[j] \in Busy => \A c \in Channel : running'[c] = running[c]
  <2> SUFFICES ASSUME row[j] \in Busy
               PROVE  \A c \in Path[ChannelOf[j]] : j \in running[c]
    BY <1>1, <1>2
  <2>1. \A c \in Channel : BusyIn(c) \subseteq running[c]
    BY <1>2 DEF CapacityInv, BusyRunningInv
  <2> QED
    BY <2>1, JobAssumption, TreeAssumption DEF BusyIn
<1>7. \A c \in Channel : running'[c] \subseteq running[c]
  BY <1>1, <1>2, <1>6
<1>8. BusyRunningInv'
  <2> SUFFICES ASSUME NEW c \in Channel, NEW i \in BusyIn(c)
               PROVE  i \in running'[c]
    BY <1>3 DEF BusyRunningInv
  <2>1. i \in running[c]
    BY <1>2 DEF CapacityInv, BusyRunningInv
  <2> QED
    BY <1>4, <1>6, <2>1 DEF BusyIn
<1>9. RunningInv'
  <2> SUFFICES ASSUME NEW c \in Channel, Capacity[c] > 0
               PROVE  Cardinality(running'[c]) <= Capacity[c]
    BY DEF RunningInv
  <2>1. /\ running[c] \in SUBSET Job /\ running'[c] \in SUBSET running[c]
        /\ Cardinality(running[c]) <= Capacity[c] /\ Capacity[c] \in Nat
    BY <1>7, ConfigurationAssumption DEF TypeOK, CapacityInv, RunningInv
  <2>2. /\ Cardinality(running'[c]) <= Cardinality(running[c])
        /\ Cardinality(running[c]) \in Nat
    BY <2>1, JobSets
  <2>3. Cardinality(running'[c]) \in Nat
    <3>1. running'[c] \in SUBSET Job
      BY <2>1
    <3> QED
      BY <3>1, JobSets
  <2> QED
    BY <2>1, <2>2, <2>3
<1>10. TreeCapacity'
  BY <1>3, FewerBusy DEF CapacityInv
<1> QED
  BY <1>5, <1>8, <1>9, <1>10 DEF CapacityInv

LEMMA ChangeCapacity ==
  ASSUME TypeOK, CapacityInv, NEW j \in Job, Change(j)
  PROVE  CapacityInv'
<1>1. UNCHANGED <<placeVars, phase>>
  BY DEF Change
<1>2. PICK s \in States : <<row[j], s>> \in Moves /\ row' = [row EXCEPT ![j] = s]
  BY DEF Change
<1>3. s \in Busy => row[j] \in Busy
  BY <1>2, MovesAssumption DEF Busy
<1>4. \A i \in Job : row'[i] \in Busy => row[i] \in Busy
  BY <1>2, <1>3 DEF TypeOK
<1>5. \A c \in Channel : BusyIn(c)' \subseteq BusyIn(c)
  BY <1>4 DEF BusyIn
<1>6. TreeCapacity'
  BY <1>5, FewerBusy DEF CapacityInv
<1>7. BusyRunningInv'
  BY <1>1, <1>5 DEF BusyRunningInv, CapacityInv, placeVars
<1> QED
  BY <1>1, <1>6, <1>7 DEF CapacityInv, QueuedInv, RunningInv, placeVars

LEMMA RecoverCapacity ==
  ASSUME TypeOK, CapacityInv, Recover
  PROVE  CapacityInv'
<1>1. \A c \in Channel : BusyIn(c)' = BusyIn(c)
  BY DEF Recover, BusyIn
<1>2. TreeCapacity'
  BY <1>1, FewerBusy DEF CapacityInv
<1>3. RunningInv'
  BY FS_EmptySet, ConfigurationAssumption DEF Recover, RunningInv
<1> QED
  BY <1>2, <1>3 DEF Recover, CapacityInv, QueuedInv, BusyRunningInv

LEMMA LeaveCapacity ==
  ASSUME TypeOK, CapacityInv, NEW c \in Channel, Leave(c)
  PROVE  CapacityInv'
<1>1. UNCHANGED <<row, running, phase>>
  BY DEF Leave, rowVars, placeVars
<1>2. \A d \in Channel : queue'[d] \cup etaQueue'[d] \subseteq queue[d] \cup etaQueue[d]
  <2>1. CASE UNCHANGED placeVars
    BY <2>1 DEF placeVars
  <2>2. CASE queue' = [queue EXCEPT ![c] = ReadyJobs(c)] /\ ForgetPastEtas(c)
    <3>1. /\ queue'[c] = ReadyJobs(c)
          /\ \A d \in Channel \ {c} : queue'[d] = queue[d]
      BY <2>2 DEF TypeOK
    <3> QED
      BY <2>2, <3>1, ReadyType, ForgetPastEtasType
  <2> QED
    BY <2>1, <2>2 DEF Leave
<1>3. \A d \in Channel : BusyIn(d)' = BusyIn(d)
  BY <1>1 DEF BusyIn
<1>4. TreeCapacity'
  BY <1>3, FewerBusy DEF CapacityInv
<1>5. QueuedInv'
  BY <1>1, <1>2 DEF CapacityInv, QueuedInv
<1> QED
  BY <1>1, <1>3, <1>4, <1>5 DEF CapacityInv, BusyRunningInv, RunningInv

(* A channel that passes a job down has room for it, and the job that      *)
(* reaches the root runs in its whole path already.                        *)
LEMMA YieldCapacity ==
  ASSUME TypeOK, TypeOK', CapacityInv, NEW c \in Channel, Yield(c)
  PROVE  CapacityInv'
<1> DEFINE j == First(ReadyJobs(c))
<1>1. /\ j \in ReadyJobs(c) /\ ReadyJobs(c) \in SUBSET Job
      /\ ReadyJobs(c) \subseteq queue[c] \cup etaQueue[c]
      /\ EtaJobs(c) \subseteq etaQueue[c]
  BY ReadyType DEF Yield
<1>2. /\ j \in Job /\ ChannelOf[j] \in Channel
      /\ c \in Path[ChannelOf[j]]
      /\ \A d \in Path[ChannelOf[j]] \ Path[c] : j \in running[d]
  BY <1>1, JobAssumption DEF CapacityInv, QueuedInv
<1>3. /\ queue' = [d \in Channel |-> IF d = c THEN ReadyJobs(c) \ {j}
                    ELSE IF c # Root /\ d = Parent[c] THEN queue[d] \cup {j}
                    ELSE queue[d]]
      /\ running' = [running EXCEPT ![c] = @ \cup {j}]
      /\ row' = IF c = Root THEN [row EXCEPT ![j] = "enqueued"] ELSE row
      /\ HasCapacity(c)
      /\ phase = "run" /\ phase' = "run"
  BY DEF Yield, Visits
<1>4. etaQueue'[c] = EtaJobs(c) /\ \A d \in Channel \ {c} : etaQueue'[d] = etaQueue[d]
  BY ForgetPastEtasType DEF Yield
<1> HIDE DEF j
<1>5. /\ running'[c] = running[c] \cup {j}
      /\ \A d \in Channel \ {c} : running'[d] = running[d]
      /\ \A d \in Channel : running[d] \subseteq running'[d]
  BY <1>3 DEF TypeOK
<1>6. QueuedInv'
  <2> SUFFICES ASSUME NEW d \in Channel, NEW i \in queue'[d] \cup etaQueue'[d]
               PROVE  /\ d \in Path[ChannelOf[i]]
                      /\ \A e \in Path[ChannelOf[i]] \ Path[d] : i \in running'[e]
    BY DEF QueuedInv
  <2>1. CASE i \in queue[d] \cup etaQueue[d]
    <3>1. i \in Job
      BY <2>1 DEF TypeOK
    <3>2. /\ d \in Path[ChannelOf[i]]
          /\ \A e \in Path[ChannelOf[i]] \ Path[d] : i \in running[e]
      BY <2>1 DEF CapacityInv, QueuedInv
    <3>3. Path[ChannelOf[i]] \subseteq Channel
      BY <3>1, JobAssumption, TreeAssumption
    <3> QED
      BY <1>5, <3>2, <3>3
  <2>2. CASE i \notin queue[d] \cup etaQueue[d]
    <3>1. c # Root /\ d = Parent[c] /\ i = j
      BY <1>1, <1>3, <1>4, <2>2
    <3>2. d \in Path[ChannelOf[j]] /\ Path[d] = Path[c] \ {c}
      BY <1>2, <3>1, PathFacts
    <3>3. ASSUME NEW e \in Path[ChannelOf[j]] \ Path[d]
          PROVE  j \in running'[e]
      <4>1. e \in Channel
        BY <1>2, TreeAssumption
      <4> QED
        BY <1>2, <1>5, <3>2, <4>1
    <3> QED
      BY <3>1, <3>2, <3>3
  <2> QED
    BY <2>1, <2>2
<1>7. BusyRunningInv'
  <2>1. \A d \in Channel : BusyIn(d) \subseteq running'[d]
    BY <1>3, <1>5 DEF CapacityInv, BusyRunningInv
  <2>2. CASE c # Root
    BY <1>3, <2>1, <2>2 DEF BusyRunningInv, BusyIn
  <2>3. CASE c = Root
    <3> SUFFICES ASSUME NEW d \in Channel, NEW i \in Job, row'[i] \in Busy, d \in Path[ChannelOf[i]]
                 PROVE  i \in running'[d]
      BY DEF BusyRunningInv, BusyIn
    <3>1. CASE i = j
      BY <1>2, <1>5, <2>3, <3>1, TreeAssumption
    <3>2. CASE i # j
      <4>1. row'[i] = row[i]
        BY <1>3, <3>2 DEF TypeOK
      <4> QED
        BY <2>1, <4>1 DEF BusyIn
    <3> QED
      BY <3>1, <3>2
  <2> QED
    BY <2>2, <2>3
<1>8. RunningInv'
  <2> SUFFICES ASSUME NEW d \in Channel, Capacity[d] > 0
               PROVE  Cardinality(running'[d]) <= Capacity[d]
    BY DEF RunningInv
  <2>1. CASE d # c
    BY <1>5, <2>1 DEF CapacityInv, RunningInv
  <2>2. CASE d = c
    <3>1. running[c] \in SUBSET Job /\ Capacity[c] \in Nat
      BY ConfigurationAssumption DEF TypeOK
    <3>2. Cardinality(running[c]) < Capacity[c]
      BY <1>3, <2>2, <3>1 DEF HasCapacity
    <3>3. /\ Cardinality(running[c]) \in Nat
          /\ Cardinality(running[c] \cup {j}) <= Cardinality(running[c]) + 1
      BY <1>2, <3>1, JobSets
    <3>4. Cardinality(running[c] \cup {j}) \in Nat
      <4>1. running[c] \cup {j} \in SUBSET Job
        BY <1>2, <3>1
      <4> QED
        BY <4>1, JobSets
    <3> QED
      BY <1>5, <2>2, <3>1, <3>2, <3>3, <3>4
  <2> QED
    BY <2>1, <2>2
<1>9. TreeCapacity'
  BY <1>3, <1>7, <1>8, BoundedByRunning
<1> QED
  BY <1>6, <1>7, <1>8, <1>9 DEF CapacityInv

LEMMA InitCapacity == Init => CapacityInv
<1> SUFFICES ASSUME Init
             PROVE  CapacityInv
  OBVIOUS
<1>1. \A c \in Channel : BusyIn(c) = {}
  BY DEF Init, BusyIn, Busy
<1>2. Cardinality({}) = 0
  BY FS_EmptySet
<1>3. \A c \in Channel : Capacity[c] > 0 => Cardinality({}) <= Capacity[c]
  BY <1>2, ConfigurationAssumption
<1> QED
  BY <1>1, <1>3 DEF Init, CapacityInv, QueuedInv, BusyRunningInv, RunningInv, TreeCapacity

LEMMA StepCapacity == TypeOK /\ CapacityInv /\ [Next]_vars => CapacityInv'
<1> SUFFICES ASSUME TypeOK, CapacityInv, [Next]_vars
             PROVE  CapacityInv'
  OBVIOUS
<1>1. TypeOK'
  BY StepTypeOK
<1>2. CASE StartRun \/ Wait \/ Wake \/ Tick \/ UNCHANGED vars
  BY <1>2, PlacesKept DEF StartRun, Wait, Wake, Tick, vars, rowVars
<1>3. ASSUME NEW c \in Channel, Skip(c) \/ Unpause(c)
      PROVE  CapacityInv'
  BY <1>3, PlacesKept DEF Skip, Unpause, rowVars
<1>4. ASSUME NEW j \in Job, Notify(j) \/ Change(j)
      PROVE  CapacityInv'
  BY <1>4, NotifyCapacity, ChangeCapacity
<1>5. ASSUME NEW c \in Channel, Yield(c) \/ Leave(c)
      PROVE  CapacityInv'
  BY <1>1, <1>5, YieldCapacity, LeaveCapacity
<1> QED
  BY <1>2, <1>3, <1>4, <1>5, LoadCapacity, RecoverCapacity DEF Next

(* No channel of the tree has more busy jobs, its own and those of the     *)
(* channels that flow into it, than its capacity.                          *)
THEOREM CapacityRespected == Spec => []TreeCapacity
<1>1. Init => TypeOK /\ CapacityInv
  BY InitTypeOK, InitCapacity
<1>2. TypeOK /\ CapacityInv /\ [Next]_vars => TypeOK' /\ CapacityInv'
  BY StepTypeOK, StepCapacity
<1>3. CapacityInv => TreeCapacity
  BY DEF CapacityInv
<1> QED
  BY <1>1, <1>2, <1>3, PTL DEF Spec

-----------------------------------------------------------------------------
(* Only Yield passes a job of a channel down.                              *)
LEMMA OnlyYield ==
  ASSUME TypeOK, [Next]_vars, NEW c \in Channel, PassesDown(c)
  PROVE  Yield(c)
<1>1. phase = "run" /\ phase' = "run" /\ running'[c] # running[c]
  BY DEF PassesDown
<1>2. ~ Load /\ ~ StartRun /\ ~ Wait /\ ~ Wake /\ ~ Recover /\ ~ Tick
  BY <1>1 DEF Load, StartRun, Wait, Wake, Recover, Tick
<1>3. ASSUME NEW j \in Job
      PROVE  ~ Notify(j) /\ ~ Change(j)
  BY <1>1 DEF Notify, Change, placeVars
<1>4. ASSUME NEW d \in Channel
      PROVE  ~ Skip(d) /\ ~ Unpause(d) /\ ~ Leave(d)
  BY <1>1 DEF Skip, Unpause, Leave, placeVars
<1>5. ASSUME NEW d \in Channel, Yield(d)
      PROVE  d = c
  <2>1. running' = [running EXCEPT ![d] = @ \cup {First(ReadyJobs(d))}]
    BY <1>5 DEF Yield
  <2> QED
    BY <1>1, <2>1 DEF TypeOK
<1>6. ~ UNCHANGED vars
  BY <1>1 DEF vars, placeVars
<1> QED
  BY <1>2, <1>3, <1>4, <1>5, <1>6 DEF Next

LEMMA StepFailed == TypeOK /\ FailedInv /\ [Next]_vars => FailedInv'
<1> SUFFICES ASSUME TypeOK, FailedInv, [Next]_vars, phase' # "load",
                    NEW j \in Job, j \notin notified', row'[j] = "failed"
             PROVE  j \in failed'[ChannelOf[j]]
  BY DEF FailedInv
<1>1. ChannelOf[j] \in Channel
  BY JobAssumption
<1>2. ASSUME UNCHANGED <<row, notified, failed>>, phase # "load"
      PROVE  j \in failed'[ChannelOf[j]]
  BY <1>2 DEF FailedInv
<1>3. CASE Load
  BY <1>1, <1>3 DEF Load, rowVars
<1>4. CASE StartRun \/ Wait \/ Wake \/ Tick \/ UNCHANGED vars
  BY <1>2, <1>4 DEF StartRun, Wait, Wake, Tick, vars, rowVars, placeVars
<1>5. CASE Recover
  BY <1>5 DEF Recover
<1>6. ASSUME NEW i \in Job, Notify(i)
      PROVE  j \in failed'[ChannelOf[j]]
  <2> DEFINE q == Notified(i)
  <2>1. /\ OthersKept(Places, q, i)
        /\ row[i] = "failed" => i \in q.failed[ChannelOf[i]]
    BY NotifiedMoves DEF Moved
  <2>2. /\ failed' = q.failed /\ row' = row
        /\ phase = "notify" /\ notified' = notified \ {i}
    BY <1>6 DEF Notify
  <2> HIDE DEF q
  <2>3. CASE j = i
    BY <2>1, <2>2, <2>3
  <2>4. CASE j # i
    <3>1. j \in failed[ChannelOf[j]]
      BY <2>2, <2>4 DEF FailedInv
    <3>2. failed'[ChannelOf[j]] \ {i} = failed[ChannelOf[j]] \ {i}
      BY <1>1, <2>1, <2>2 DEF OthersKept, Places
    <3> QED
      BY <2>4, <3>1, <3>2
  <2> QED
    BY <2>3, <2>4
<1>7. ASSUME NEW i \in Job, Change(i)
      PROVE  j \in failed'[ChannelOf[j]]
  <2>1. /\ notified' = notified \cup {i}
        /\ \E s \in States : row' = [row EXCEPT ![i] = s]
        /\ UNCHANGED <<failed, phase>>
    BY <1>7 DEF Change, placeVars
  <2>2. j # i /\ row[j] = "failed" /\ j \notin notified
    BY <2>1 DEF TypeOK
  <2> QED
    BY <2>1, <2>2 DEF FailedInv
<1>8. ASSUME NEW c \in Channel, Skip(c) \/ Unpause(c) \/ Leave(c)
      PROVE  j \in failed'[ChannelOf[j]]
  BY <1>2, <1>8 DEF Skip, Unpause, Leave, Visits, rowVars, placeVars
<1>9. ASSUME NEW c \in Channel, Yield(c)
      PROVE  j \in failed'[ChannelOf[j]]
  <2>1. /\ \/ UNCHANGED <<row, notified>>
           \/ row' = [row EXCEPT ![First(ReadyJobs(c))] = "enqueued"]
        /\ notified \subseteq notified'
        /\ UNCHANGED <<failed, phase>> /\ phase = "run"
    BY <1>9 DEF Yield, Visits
  <2>2. row[j] = "failed" /\ j \notin notified
    BY <2>1 DEF TypeOK
  <2> QED
    BY <2>1, <2>2 DEF FailedInv
<1> QED
  BY <1>3, <1>4, <1>5, <1>6, <1>7, <1>8, <1>9 DEF Next

(* A sequential channel passes no job down while another of its jobs that  *)
(* the runner knows of is enqueued, started or failed.                     *)
THEOREM SequentialChannelsHeld == Spec => SequentialHeld
<1> DEFINE Held == \A c \in Sequential : PassesDown(c) =>
                     \A j \in Job \ notified :
                       ChannelOf[j] = c => row[j] \notin Busy \cup {"failed"}
           Inv == TypeOK /\ CapacityInv /\ FailedInv
<1>1. Init => Inv
  BY InitTypeOK, InitCapacity DEF Init, FailedInv
<1>2. Inv /\ [Next]_vars => Inv'
  BY StepTypeOK, StepCapacity, StepFailed
<1>3. Inv /\ [Next]_vars => Held
  <2> SUFFICES ASSUME TypeOK, CapacityInv, FailedInv, [Next]_vars,
                      NEW c \in Sequential, PassesDown(c),
                      NEW j \in Job \ notified, ChannelOf[j] = c
               PROVE  row[j] \notin Busy \cup {"failed"}
    OBVIOUS
  <2>1. c \in Channel /\ Capacity[c] = 1
    BY ConfigurationAssumption
  <2>2. Yield(c) /\ phase = "run"
    BY <2>1, OnlyYield DEF PassesDown
  <2>3. failed[c] = {} /\ Cardinality(running[c]) < 1
    BY <2>1, <2>2 DEF Yield, HasCapacity
  <2>4. running[c] \in SUBSET Job
    BY <2>1 DEF TypeOK
  <2>5. running[c] = {}
    <3>1. Cardinality(running[c]) \in Nat /\ (Cardinality(running[c]) = 0 <=> running[c] = {})
      BY <2>4, JobSets
    <3> QED
      BY <2>3, <3>1
  <2>6. row[j] \notin Busy
    <3>1. BusyIn(c) = {}
      BY <2>1, <2>2, <2>5 DEF CapacityInv, BusyRunningInv
    <3>2. c \in Path[c]
      BY <2>1, PathFacts
    <3> QED
      BY <3>1, <3>2 DEF BusyIn
  <2>7. row[j] # "failed"
    BY <2>2, <2>3 DEF FailedInv
  <2> QED
    BY <2>6, <2>7
<1> HIDE DEF Inv, Held
<1>4. Spec => [][Held]_vars
  BY <1>1, <1>2, <1>3, PTL DEF Spec
<1> QED
  BY <1>4 DEF Held, SequentialHeld

LEMMA StepThrottle == TypeOK /\ ThrottleInv /\ [Next]_vars => ThrottleInv'
<1> SUFFICES ASSUME TypeOK, ThrottleInv, [Next]_vars,
                    NEW c \in Channel, lastYield'[c] # 0
             PROVE  \/ pauseUntil'[c] = lastYield'[c] + Throttle[c]
                    \/ now' >= lastYield'[c] + Throttle[c]
  BY DEF ThrottleInv
<1>1. /\ now \in Nat /\ lastYield[c] \in Nat /\ Throttle[c] \in Nat /\ pauseUntil[c] \in Nat
  BY ConfigurationAssumption DEF TypeOK
<1>2. ASSUME lastYield'[c] = lastYield[c], pauseUntil'[c] = pauseUntil[c], now' >= now, now' \in Nat
      PROVE  \/ pauseUntil'[c] = lastYield'[c] + Throttle[c]
             \/ now' >= lastYield'[c] + Throttle[c]
  BY <1>1, <1>2 DEF ThrottleInv
<1>3. CASE UNCHANGED <<lastYield, pauseUntil, now>>
  BY <1>1, <1>2, <1>3
<1>4. CASE Load \/ StartRun \/ Wait \/ Wake \/ Recover \/ UNCHANGED vars
  BY <1>3, <1>4 DEF Load, StartRun, Wait, Wake, Recover, vars
<1>5. CASE Tick
  BY <1>1, <1>2, <1>5 DEF Tick
<1>6. ASSUME NEW j \in Job, Notify(j) \/ Change(j)
      PROVE  UNCHANGED <<lastYield, pauseUntil, now>>
  BY <1>6 DEF Notify, Change
<1>7. ASSUME NEW d \in Channel, Skip(d) \/ Leave(d)
      PROVE  UNCHANGED <<lastYield, pauseUntil, now>>
  BY <1>7 DEF Skip, Leave
<1>8. ASSUME NEW d \in Channel, Unpause(d)
      PROVE  \/ pauseUntil'[c] = lastYield'[c] + Throttle[c]
             \/ now' >= lastYield'[c] + Throttle[c]
  <2>1. /\ pauseUntil[d] <= now
        /\ pauseUntil' = [pauseUntil EXCEPT ![d] = 0]
        /\ UNCHANGED <<lastYield, now>>
    BY <1>1, <1>8 DEF Unpause, TypeOK
  <2>2. CASE d = c
    BY <1>1, <2>1, <2>2 DEF ThrottleInv
  <2>3. CASE d # c
    BY <1>1, <1>2, <2>1, <2>3 DEF TypeOK
  <2> QED
    BY <2>2, <2>3
<1>9. ASSUME NEW d \in Channel, Yield(d)
      PROVE  \/ pauseUntil'[c] = lastYield'[c] + Throttle[c]
             \/ now' >= lastYield'[c] + Throttle[c]
  <2>1. /\ \/ UNCHANGED <<lastYield, pauseUntil>>
           \/ /\ pauseUntil' = [pauseUntil EXCEPT ![d] = now + Throttle[d]]
              /\ lastYield' = [lastYield EXCEPT ![d] = now]
        /\ UNCHANGED now
    BY <1>9 DEF Yield, PauseEnd
  <2>2. CASE UNCHANGED <<lastYield, pauseUntil>>
    BY <1>3, <2>1, <2>2
  <2>3. CASE /\ pauseUntil' = [pauseUntil EXCEPT ![d] = now + Throttle[d]]
             /\ lastYield' = [lastYield EXCEPT ![d] = now]
    <3>1. CASE d = c
      BY <2>3, <3>1 DEF TypeOK
    <3>2. CASE d # c
      BY <1>1, <1>2, <2>1, <2>3, <3>2 DEF TypeOK
    <3> QED
      BY <3>1, <3>2
  <2> QED
    BY <2>1, <2>2, <2>3
<1> QED
  BY <1>3, <1>4, <1>5, <1>6, <1>7, <1>8, <1>9 DEF Next

(* A channel with a throttle passes two jobs down at least that many       *)
(* seconds apart, whatever errors the runner recovers from between.        *)
THEOREM ThrottledChannelsPause == Spec => ThrottleRespected
<1> DEFINE Apart == \A c \in Channel : PassesDown(c) /\ lastYield[c] # 0 =>
                      now >= lastYield[c] + Throttle[c]
           Inv == TypeOK /\ ThrottleInv
<1>1. Init => Inv
  BY InitTypeOK DEF Init, ThrottleInv
<1>2. Inv /\ [Next]_vars => Inv'
  BY StepTypeOK, StepThrottle
<1>3. Inv /\ [Next]_vars => Apart
  <2> SUFFICES ASSUME TypeOK, ThrottleInv, [Next]_vars,
                      NEW c \in Channel, PassesDown(c), lastYield[c] # 0
               PROVE  now >= lastYield[c] + Throttle[c]
    OBVIOUS
  <2>1. pauseUntil[c] = 0
    BY OnlyYield DEF Yield
  <2>2. lastYield[c] \in Nat /\ Throttle[c] \in Nat
    BY ConfigurationAssumption DEF TypeOK
  <2> QED
    BY <2>1, <2>2 DEF ThrottleInv
<1> HIDE DEF Inv, Apart
<1>4. Spec => [][Apart]_vars
  BY <1>1, <1>2, <1>3, PTL DEF Spec
<1> QED
  BY <1>4 DEF Apart, ThrottleRespected
=============================================================================
