--------------------------- MODULE ChannelsPlaces ---------------------------
(***************************************************************************)
(* Where the jobs are in the channels, for every tree of channels.  A job  *)
(* has one of four shapes: it is nowhere; it is queued in a channel of its *)
(* path and runs in those above; it runs in its whole path; or it is among *)
(* the failed jobs of its channel.  Notifications, passes of the runner    *)
(* and restarts go from one shape to another, and the shape fits the row   *)
(* when its notifications are processed.                                   *)
(*                                                                         *)
(* And the runner never sleeps through the moment at which it could pass a *)
(* job down.  A pass leaves every channel settled: paused, without room,   *)
(* or with no job to pass down before an eta is past; and the time it asks *)
(* to be woken up at comes before the ends of the pauses and the etas that *)
(* could change this.                                                      *)
(***************************************************************************)
EXTENDS ChannelsSafety

PathOf(j) == Path[ChannelOf[j]]

InQueue(p, c, j) == j \in p.queue[c] \cup p.etaQueue[c]

Nowhere(p, j) ==
  \A c \in Channel : ~ InQueue(p, c, j) /\ j \notin p.running[c] /\ j \notin p.failed[c]

QueuedAt(p, j, d) ==
  \A c \in Channel : /\ InQueue(p, c, j) <=> c = d
                     /\ j \notin p.queue[c] \cap p.etaQueue[c]
                     /\ j \in p.running[c] <=> c \in PathOf(j) \ Path[d]
                     /\ j \notin p.failed[c]

Queued(p, j) == \E d \in PathOf(j) : QueuedAt(p, j, d)

RunsInPath(p, j) ==
  \A c \in Channel : /\ ~ InQueue(p, c, j)
                     /\ j \in p.running[c] <=> c \in PathOf(j)
                     /\ j \notin p.failed[c]

FailedAt(p, j) ==
  \A c \in Channel : /\ ~ InQueue(p, c, j)
                     /\ j \notin p.running[c]
                     /\ j \in p.failed[c] <=> c = ChannelOf[j]

Shaped(p, j) == Nowhere(p, j) \/ Queued(p, j) \/ RunsInPath(p, j) \/ FailedAt(p, j)

(* The shape that fits a row in state s.                                   *)
Fits(p, j, s) ==
  /\ s \in {"done", "cancelled"} => Nowhere(p, j)
  /\ s = "pending" => Queued(p, j)
  /\ s \in Busy => RunsInPath(p, j)
  /\ s = "failed" => FailedAt(p, j)

ShapeInv ==
  /\ \A j \in Job : Shaped(Places, j)
  /\ phase = "load" => \A j \in Job : Nowhere(Places, j)
  /\ phase # "load" => \A j \in Job \ notified : Fits(Places, j, row[j])

-----------------------------------------------------------------------------
LEMMA JobPath ==
  ASSUME NEW j \in Job
  PROVE  /\ ChannelOf[j] \in Channel /\ ChannelOf[j] \in PathOf(j) /\ PathOf(j) \subseteq Channel
         /\ Root \in PathOf(j)
         /\ \A d \in PathOf(j) : Path[d] \subseteq PathOf(j)
BY JobAssumption, PathFacts DEF PathOf

(* Two places records that agree on a job give it the same shape.          *)
Agree(p, q, j) ==
  \A c \in Channel : /\ InQueue(q, c, j) <=> InQueue(p, c, j)
                     /\ j \in q.queue[c] \cap q.etaQueue[c] => j \in p.queue[c] \cap p.etaQueue[c]
                     /\ j \in q.running[c] <=> j \in p.running[c]
                     /\ j \in q.failed[c] <=> j \in p.failed[c]

LEMMA AgreeShape ==
  ASSUME NEW p, NEW q, NEW j \in Job, Agree(p, q, j)
  PROVE  /\ Shaped(p, j) => Shaped(q, j)
         /\ Nowhere(p, j) => Nowhere(q, j)
         /\ \A s : Fits(p, j, s) => Fits(q, j, s)
<1>1. /\ Nowhere(p, j) => Nowhere(q, j)
      /\ RunsInPath(p, j) => RunsInPath(q, j)
      /\ FailedAt(p, j) => FailedAt(q, j)
  BY DEF Agree, Nowhere, RunsInPath, FailedAt
<1>2. Queued(p, j) => Queued(q, j)
  BY DEF Agree, Queued, QueuedAt
<1> QED
  BY <1>1, <1>2 DEF Shaped, Fits

LEMMA OthersAgree ==
  ASSUME NEW p, NEW q, NEW j \in Job, OthersKept(p, q, j), NEW i \in Job, i # j
  PROVE  Agree(p, q, i)
BY DEF OthersKept, Agree, InQueue

(* Taken out of its path, a job is nowhere.                                *)
LEMMA RemovedNowhere ==
  ASSUME NEW p \in PlacesType, NEW j \in Job, NEW r, Shaped(p, j),
         Removed(p, r, Path[ChannelOf[j]], j)
  PROVE  Nowhere(r, j)
<1>1. \A c \in Channel \ PathOf(j) :
        ~ InQueue(p, c, j) /\ j \notin p.running[c] /\ j \notin p.failed[c]
  BY JobPath DEF Shaped, Nowhere, Queued, QueuedAt, RunsInPath, FailedAt
<1> QED
  BY <1>1 DEF Nowhere, Removed, InQueue, PathOf

LEMMA SetPendingShape ==
  ASSUME NEW p \in PlacesType, NEW j \in Job, Shaped(p, j),
         NEW q, q = SetPending(p, ChannelOf[j], j)
  PROVE  Queued(q, j)
<1> DEFINE c == ChannelOf[j]
           r == Remove(p, Path[c], j)
<1>1. c \in Channel /\ Path[c] \in SUBSET Channel /\ c \in Path[c] /\ Path[c] = PathOf(j)
  BY JobPath DEF PathOf
<1>2. CASE j \in p.queue[c] \cup p.etaQueue[c]
  <2>1. q = p
    BY <1>2 DEF SetPending
  <2>2. InQueue(p, c, j)
    BY <1>2 DEF InQueue
  <2>3. ~ Nowhere(p, j) /\ ~ RunsInPath(p, j) /\ ~ FailedAt(p, j)
    BY <1>1, <2>2 DEF Nowhere, RunsInPath, FailedAt
  <2> QED
    BY <2>1, <2>3 DEF Shaped
<1>3. CASE j \notin p.queue[c] \cup p.etaQueue[c]
  <2>1. Removed(p, r, Path[c], j)
    BY <1>1, RemoveFacts
  <2>2. q = IF rowEta[j] = 0 THEN [r EXCEPT !.queue = With(@, {c}, j)]
                             ELSE [r EXCEPT !.etaQueue = With(@, {c}, j)]
    BY <1>3 DEF SetPending
  <2> HIDE DEF r
  <2>3. r \in PlacesType /\ Nowhere(r, j)
    <3>1. Nowhere(r, j)
      BY <2>1, RemovedNowhere
    <3> QED
      BY <2>1, <3>1 DEF Removed
  <2>4. /\ q.running = r.running /\ q.failed = r.failed
        /\ \A d \in Channel : d # c => q.queue[d] = r.queue[d] /\ q.etaQueue[d] = r.etaQueue[d]
        /\ j \in q.queue[c] \cup q.etaQueue[c]
        /\ q.queue[c] = r.queue[c] \/ q.etaQueue[c] = r.etaQueue[c]
    BY <1>1, <2>3, <2>2 DEF PlacesType, With
  <2>5. QueuedAt(q, j, c)
    BY <1>1, <2>3, <2>4 DEF QueuedAt, Nowhere, InQueue
  <2> QED
    BY <1>1, <2>5 DEF Queued
<1> QED
  BY <1>2, <1>3

LEMMA SetFailedShape ==
  ASSUME NEW p \in PlacesType, NEW j \in Job, Shaped(p, j),
         NEW q, q = SetFailed(p, ChannelOf[j], j)
  PROVE  FailedAt(q, j)
<1> DEFINE c == ChannelOf[j]
           r == Remove(p, Path[c], j)
<1>1. c \in Channel /\ Path[c] \in SUBSET Channel /\ Path[c] = PathOf(j)
  BY JobPath DEF PathOf
<1>2. CASE j \in p.failed[c]
  <2>1. q = p
    BY <1>2 DEF SetFailed
  <2>2. ~ Nowhere(p, j) /\ ~ RunsInPath(p, j) /\ ~ Queued(p, j)
    BY <1>1, <1>2 DEF Nowhere, RunsInPath, Queued, QueuedAt
  <2> QED
    BY <2>1, <2>2 DEF Shaped
<1>3. CASE j \notin p.failed[c]
  <2>1. Removed(p, r, Path[c], j)
    BY <1>1, RemoveFacts
  <2>2. q = [r EXCEPT !.failed = With(@, {c}, j)]
    BY <1>3 DEF SetFailed
  <2> HIDE DEF r
  <2>3. r \in PlacesType /\ Nowhere(r, j)
    <3>1. Nowhere(r, j)
      BY <2>1, RemovedNowhere
    <3> QED
      BY <2>1, <3>1 DEF Removed
  <2>4. /\ q.queue = r.queue /\ q.etaQueue = r.etaQueue /\ q.running = r.running
        /\ \A d \in Channel \ {c} : q.failed[d] = r.failed[d]
        /\ j \in q.failed[c]
    BY <1>1, <2>2, <2>3 DEF PlacesType, With
  <2> QED
    BY <1>1, <2>3, <2>4 DEF FailedAt, Nowhere, InQueue
<1> QED
  BY <1>2, <1>3

(* A job that runs in its path stays, one that is nowhere enters it all.   *)
LEMMA SetRunningShape ==
  ASSUME NEW p \in PlacesType, NEW j \in Job, RunsInPath(p, j) \/ Nowhere(p, j),
         NEW q, q = SetRunning(p, ChannelOf[j], j)
  PROVE  RunsInPath(q, j)
<1> DEFINE c == ChannelOf[j]
           entered == {d \in Path[c] : \A b \in Path[c] : d \in Path[b] => j \notin p.running[b]}
           r == Remove(p, entered, j)
<1>1. c \in Channel /\ Path[c] \in SUBSET Channel /\ c \in Path[c] /\ Path[c] = PathOf(j)
  BY JobPath DEF PathOf
<1>2. /\ RunsInPath(p, j) => entered = {}
      /\ Nowhere(p, j) => entered = Path[c]
  BY <1>1 DEF RunsInPath, Nowhere
<1>3. entered \in SUBSET Channel
  BY <1>1
<1>4. q = [r EXCEPT !.running = With(@, entered, j)]
  BY DEF SetRunning
<1> HIDE DEF entered
<1>5. Removed(p, r, entered, j)
  BY <1>3, RemoveFacts
<1> HIDE DEF r
<1>6. r \in PlacesType /\ With(r.running, entered, j) \in [Channel -> SUBSET Job]
  BY <1>3, <1>5 DEF Removed, PlacesType, With
<1>7. /\ q.queue = r.queue /\ q.etaQueue = r.etaQueue /\ q.failed = r.failed
      /\ q.running = With(r.running, entered, j)
  BY <1>4, <1>6 DEF PlacesType
<1>8. \A d \in Channel :
        q.running[d] = IF d \in entered THEN r.running[d] \cup {j} ELSE r.running[d]
  BY <1>7 DEF With
<1>9. CASE RunsInPath(p, j)
  <2>1. \A d \in Channel : /\ q.running[d] = p.running[d] /\ q.failed[d] = p.failed[d]
                           /\ q.queue[d] = p.queue[d] /\ q.etaQueue[d] = p.etaQueue[d]
    BY <1>2, <1>5, <1>7, <1>8, <1>9 DEF Removed
  <2> QED
    BY <1>9, <2>1 DEF RunsInPath, InQueue
<1>10. CASE Nowhere(p, j)
  <2>1. \A d \in Channel : j \notin p.running[d] /\ j \notin p.failed[d]
                           /\ j \notin p.queue[d] /\ j \notin p.etaQueue[d]
    BY <1>10 DEF Nowhere, InQueue
  <2>2. \A d \in Channel : j \notin r.running[d] /\ j \notin r.failed[d]
                           /\ j \notin r.queue[d] /\ j \notin r.etaQueue[d]
    BY <1>5, <2>1 DEF Removed
  <2>3. \A d \in Channel : j \in q.running[d] <=> d \in Path[c]
    BY <1>2, <1>8, <1>10, <2>2
  <2> QED
    BY <1>1, <1>7, <2>2, <2>3 DEF RunsInPath, InQueue
<1> QED
  BY <1>9, <1>10

(* The notification of j gives it the shape that fits its row.             *)
LEMMA NotifiedShape ==
  ASSUME TypeOK, NEW j \in Job, Shaped(Places, j),
         row[j] \in Busy => \A c \in Path[ChannelOf[j]] : j \in running[c],
         NEW q, q = Notified(j)
  PROVE  Shaped(q, j) /\ Fits(q, j, row[j])
<1> DEFINE c == ChannelOf[j]
           p == IF jobEta[j] = rowEta[j] THEN Places ELSE Remove(Places, Path[c], j)
<1>1. c \in Channel /\ Path[c] \in SUBSET Channel /\ Path[c] = PathOf(j) /\ Root \in Path[c]
  BY JobPath DEF PathOf
<1>2. Places \in PlacesType /\ Places.running = running
  BY DEF Places, PlacesType, TypeOK
<1>3. \/ p = Places
      \/ Removed(Places, p, Path[c], j)
  BY <1>1, <1>2, RemoveFacts
<1>4. q = CASE row[j] \in {"done", "cancelled"} -> Remove(p, Path[c], j)
            [] row[j] = "pending"               -> SetPending(p, c, j)
            [] row[j] \in Busy                  -> SetRunning(p, c, j)
            [] row[j] = "failed"                -> SetFailed(p, c, j)
            [] OTHER                            -> p
  BY DEF Notified
<1> HIDE DEF p
<1>5. ASSUME Removed(Places, p, Path[c], j)
      PROVE  p \in PlacesType /\ Nowhere(p, j)
  <2>1. Nowhere(p, j)
    BY <1>2, <1>5, RemovedNowhere
  <2> QED
    BY <1>5, <2>1 DEF Removed
<1>6. p \in PlacesType /\ Shaped(p, j)
  BY <1>2, <1>3, <1>5 DEF Shaped
<1>7. CASE row[j] \in {"done", "cancelled"}
  <2>1. q = Remove(p, Path[c], j)
    BY <1>4, <1>7, Zenon DEF Busy
  <2>2. Removed(p, q, Path[c], j)
    BY <1>1, <1>6, <2>1, RemoveFacts
  <2>3. Nowhere(q, j)
    BY <1>6, <2>2, RemovedNowhere
  <2> QED
    BY <1>7, <2>3 DEF Shaped, Fits, Busy
<1>8. CASE row[j] = "pending"
  <2>1. q = SetPending(p, c, j)
    BY <1>4, <1>8, Zenon DEF Busy
  <2>2. Queued(q, j)
    BY <1>6, <2>1, SetPendingShape
  <2> QED
    BY <1>8, <2>2 DEF Shaped, Fits, Busy
<1>9. CASE row[j] \in Busy
  <2>1. q = SetRunning(p, c, j)
    BY <1>4, <1>9 DEF Busy
  <2>2. RunsInPath(p, j) \/ Nowhere(p, j)
    <3>1. \A d \in PathOf(j) : d \in Channel /\ j \in Places.running[d]
      BY <1>1, <1>2, <1>9
    <3>2. ~ Nowhere(Places, j) /\ ~ FailedAt(Places, j)
      BY <1>1, <3>1 DEF Nowhere, FailedAt
    <3>3. ~ Queued(Places, j)
      <4> SUFFICES ASSUME NEW d \in PathOf(j), QueuedAt(Places, j, d)
                   PROVE  FALSE
        BY DEF Queued
      <4>1. d \in Path[d]
        BY <3>1, PathFacts
      <4> QED
        BY <3>1, <4>1 DEF QueuedAt
    <3> QED
      BY <1>3, <1>5, <3>2, <3>3 DEF Shaped
  <2>3. RunsInPath(q, j)
    BY <1>6, <2>1, <2>2, SetRunningShape
  <2> QED
    BY <1>9, <2>3 DEF Shaped, Fits, Busy
<1>10. CASE row[j] = "failed"
  <2>1. q = SetFailed(p, c, j)
    BY <1>4, <1>10, Zenon DEF Busy
  <2>2. FailedAt(q, j)
    BY <1>6, <2>1, SetFailedShape
  <2> QED
    BY <1>10, <2>2 DEF Shaped, Fits, Busy
<1>11. CASE row[j] = "wait_dependencies"
  <2>1. q = p
    BY <1>4, <1>11, Zenon DEF Busy
  <2> QED
    BY <1>6, <1>11, <2>1 DEF Fits, Busy
<1> QED
  BY <1>7, <1>8, <1>9, <1>10, <1>11 DEF TypeOK, States, Busy

-----------------------------------------------------------------------------
(* A step that leaves the places as they are.                              *)
LEMMA PlacesUnchanged ==
  ASSUME ShapeInv, \A j \in Job : Agree(Places, Places', j),
         phase' = "load" <=> phase = "load",
         \A j \in Job \ notified' : j \notin notified /\ row'[j] = row[j]
  PROVE  ShapeInv'
<1>1. \A j \in Job : Shaped(Places', j)
  BY AgreeShape DEF ShapeInv
<1>2. phase' = "load" => \A j \in Job : Nowhere(Places', j)
  BY AgreeShape DEF ShapeInv
<1>3. phase' # "load" => \A j \in Job \ notified' : Fits(Places', j, row'[j])
  BY AgreeShape DEF ShapeInv
<1> QED
  BY <1>1, <1>2, <1>3 DEF ShapeInv

LEMMA SamePlaces ==
  ASSUME UNCHANGED placeVars, NEW j \in Job
  PROVE  Agree(Places, Places', j)
BY DEF placeVars, Places, Agree, InQueue

LEMMA LoadShape ==
  ASSUME TypeOK, ShapeInv, Load
  PROVE  ShapeInv'
<1> DEFINE In(c, s) == {j \in Job : ChannelOf[j] = c /\ row[j] \in s}
<1>1. /\ queue' = [c \in Channel |-> {j \in In(c, {"pending"}) : rowEta[j] = 0}]
      /\ etaQueue' = [c \in Channel |-> {j \in In(c, {"pending"}) : rowEta[j] # 0}]
      /\ running' = [c \in Channel |-> BusyIn(c)]
      /\ failed' = [c \in Channel |-> In(c, {"failed"})]
      /\ row' = row /\ phase' = "notify"
  BY DEF Load, rowVars
<1> SUFFICES ASSUME NEW j \in Job
             PROVE  Shaped(Places', j) /\ Fits(Places', j, row[j])
  BY <1>1 DEF ShapeInv
<1> DEFINE d == ChannelOf[j]
<1>2. d \in Channel /\ d \in PathOf(j) /\ PathOf(j) \subseteq Channel /\ PathOf(j) = Path[d]
  BY JobPath DEF PathOf
<1>3. \A c \in Channel :
        /\ InQueue(Places', c, j) <=> c = d /\ row[j] = "pending"
        /\ j \notin Places'.queue[c] \cap Places'.etaQueue[c]
        /\ j \in Places'.running[c] <=> row[j] \in Busy /\ c \in PathOf(j)
        /\ j \in Places'.failed[c] <=> c = d /\ row[j] = "failed"
  BY <1>1 DEF InQueue, Places, BusyIn, PathOf
<1>4. row[j] \in {"done", "cancelled", "wait_dependencies"} => Nowhere(Places', j)
  BY <1>3 DEF Nowhere, Busy
<1>5. row[j] = "pending" => Queued(Places', j)
  <2>1. row[j] = "pending" => QueuedAt(Places', j, d)
    BY <1>2, <1>3 DEF QueuedAt, Busy
  <2> QED
    BY <1>2, <2>1 DEF Queued
<1>6. row[j] \in Busy => RunsInPath(Places', j)
  BY <1>3 DEF RunsInPath, Busy
<1>7. row[j] = "failed" => FailedAt(Places', j)
  BY <1>3 DEF FailedAt, Busy
<1>8. row[j] \in States
  BY DEF TypeOK
<1> QED
  BY <1>4, <1>5, <1>6, <1>7, <1>8 DEF Shaped, Fits, States, Busy

LEMMA NotifyShape ==
  ASSUME TypeOK, BusyRunningInv, ShapeInv, NEW j \in Job, Notify(j)
  PROVE  ShapeInv'
<1> DEFINE q == Notified(j)
<1>1. /\ queue' = q.queue /\ etaQueue' = q.etaQueue
      /\ running' = q.running /\ failed' = q.failed
      /\ phase = "notify" /\ phase' = "notify" /\ row' = row /\ notified' = notified \ {j}
  BY DEF Notify
<1>2. OthersKept(Places, q, j)
  BY NotifiedMoves DEF Moved
<1>3. Shaped(q, j) /\ Fits(q, j, row[j])
  <2>1. Shaped(Places, j)
    BY DEF ShapeInv
  <2>2. ASSUME row[j] \in Busy, NEW c \in Path[ChannelOf[j]]
        PROVE  j \in running[c]
    <3>1. c \in Channel
      BY JobPath DEF PathOf
    <3> QED
      BY <1>1, <2>2, <3>1 DEF BusyRunningInv, BusyIn
  <2> QED
    BY <2>1, <2>2, NotifiedShape
<1> HIDE DEF q
<1>4. \A i \in Job : Agree(q, Places', i)
  BY <1>1 DEF Agree, InQueue, Places
<1>5. \A i \in Job \ {j} : Agree(Places, q, i)
  BY <1>2, OthersAgree
<1>6. /\ \A i \in Job : Shaped(q, i)
      /\ \A i \in Job \ notified' : Fits(q, i, row[i])
  BY <1>1, <1>3, <1>5, AgreeShape DEF ShapeInv
<1>7. /\ \A i \in Job : Shaped(Places', i)
      /\ \A i \in Job \ notified' : Fits(Places', i, row[i])
  BY <1>4, <1>6, AgreeShape
<1> QED
  BY <1>1, <1>7 DEF ShapeInv

LEMMA LeaveShape ==
  ASSUME TypeOK, ShapeInv, NEW c \in Channel, Leave(c)
  PROVE  ShapeInv'
<1>1. UNCHANGED rowVars /\ phase' = phase
  BY DEF Leave
<1>2. \A j \in Job : Agree(Places, Places', j)
  <2>1. CASE UNCHANGED placeVars
    BY <2>1, SamePlaces
  <2>2. CASE /\ queue' = [queue EXCEPT ![c] = ReadyJobs(c)]
             /\ ForgetPastEtas(c)
             /\ UNCHANGED <<running, failed>>
    <3>1. /\ etaQueue' = [etaQueue EXCEPT ![c] = EtaJobs(c)]
          /\ queue \in [Channel -> SUBSET Job] /\ etaQueue \in [Channel -> SUBSET Job]
      BY <2>2 DEF ForgetPastEtas, TypeOK
    <3>2. \A d \in Channel \ {c} : queue'[d] = queue[d] /\ etaQueue'[d] = etaQueue[d]
      BY <2>2, <3>1
    <3>3. queue'[c] = queue[c] \cup PastEta(c) /\ etaQueue'[c] = etaQueue[c] \ PastEta(c)
      BY <2>2, <3>1 DEF ReadyJobs, EtaJobs
    <3>4. PastEta(c) \subseteq etaQueue[c]
      BY DEF PastEta
    <3> QED
      BY <2>2, <3>2, <3>3, <3>4 DEF Agree, InQueue, Places
  <2> QED
    BY <2>1, <2>2 DEF Leave
<1> QED
  BY <1>1, <1>2, PlacesUnchanged DEF rowVars

(* A job passed down goes from the queue of c to that of the parent, or    *)
(* from that of the root to Odoo.                                          *)
LEMMA YieldShape ==
  ASSUME TypeOK, ShapeInv, NEW c \in Channel, Yield(c)
  PROVE  ShapeInv'
<1> DEFINE j == First(ReadyJobs(c))
<1>1. j \in Job /\ j \in ReadyJobs(c) /\ j \in queue[c] \cup etaQueue[c]
  BY ReadyType DEF Yield
<1>2. /\ queue' = [d \in Channel |-> IF d = c THEN ReadyJobs(c) \ {j}
                    ELSE IF c # Root /\ d = Parent[c] THEN queue[d] \cup {j}
                    ELSE queue[d]]
      /\ running' = [running EXCEPT ![c] = @ \cup {j}]
      /\ row' = IF c = Root THEN [row EXCEPT ![j] = "enqueued"] ELSE row
      /\ notified' = IF c = Root THEN notified \cup {j} ELSE notified
      /\ phase = "run" /\ phase' = "run" /\ failed' = failed
  BY DEF Yield, Visits
<1>3. etaQueue'[c] = EtaJobs(c) /\ \A d \in Channel \ {c} : etaQueue'[d] = etaQueue[d]
  BY ForgetPastEtasType DEF Yield
<1> HIDE DEF j
<1>4. QueuedAt(Places, j, c) /\ c \in PathOf(j)
  <2>1. InQueue(Places, c, j)
    BY <1>1 DEF InQueue, Places
  <2>2. ~ Nowhere(Places, j) /\ ~ RunsInPath(Places, j) /\ ~ FailedAt(Places, j)
    BY <2>1 DEF Nowhere, RunsInPath, FailedAt
  <2>3. PICK d \in PathOf(j) : QueuedAt(Places, j, d)
    BY <1>1, <2>2 DEF ShapeInv, Shaped, Queued
  <2>4. c = d
    BY <2>1, <2>3 DEF QueuedAt
  <2> QED
    BY <2>3, <2>4
<1>5. /\ running'[c] = running[c] \cup {j}
      /\ \A d \in Channel \ {c} : running'[d] = running[d]
  BY <1>2 DEF TypeOK
<1>6. /\ c # Root => /\ Parent[c] \in Channel /\ Parent[c] \in PathOf(j)
                     /\ Path[Parent[c]] = Path[c] \ {c}
      /\ c \in Path[c] /\ Path[c] \subseteq PathOf(j) /\ Path[Root] = {Root}
      /\ Parent[c] # c \/ c = Root
  <2>1. c # Root => Parent[c] \in Channel /\ c \notin Path[Parent[c]]
    BY TreeAssumption
  <2>2. c # Root => Parent[c] \in Path[Parent[c]]
    BY <2>1, PathFacts
  <2> QED
    BY <1>1, <1>4, <2>1, <2>2, PathFacts, JobPath, TreeAssumption DEF PathOf
<1>7. \A i \in Job \ {j} : Agree(Places, Places', i)
  <2> SUFFICES ASSUME NEW i \in Job \ {j}, NEW d \in Channel
               PROVE  /\ i \in queue'[d] \cup etaQueue'[d] <=> i \in queue[d] \cup etaQueue[d]
                      /\ i \in queue'[d] \cap etaQueue'[d] => i \in queue[d] \cap etaQueue[d]
                      /\ i \in running'[d] <=> i \in running[d]
    BY <1>2 DEF Agree, InQueue, Places
  <2>1. CASE d # c
    BY <1>2, <1>3, <1>5, <2>1
  <2>2. CASE d = c
    <3>1. queue'[c] = ReadyJobs(c) \ {j}
      BY <1>2
    <3>2. PastEta(c) \subseteq etaQueue[c]
      BY DEF PastEta
    <3> QED
      BY <1>3, <1>5, <2>2, <3>1, <3>2 DEF ReadyJobs, EtaJobs
  <2> QED
    BY <2>1, <2>2
<1>8. j \notin queue'[c] \cup etaQueue'[c]
  <2>1. j \notin queue[c] \cap etaQueue[c]
    BY <1>4 DEF QueuedAt, Places
  <2> QED
    BY <1>1, <1>2, <1>3, <2>1 DEF ReadyJobs, EtaJobs
<1>9. \A d \in Channel \ {c} : j \notin queue[d] \cup etaQueue[d]
  BY <1>4 DEF QueuedAt, InQueue, Places
<1>10. \A d \in Channel : /\ j \in running[d] <=> d \in PathOf(j) \ Path[c]
                          /\ j \notin failed[d]
  BY <1>4 DEF QueuedAt, Places
<1>11. CASE c # Root
  <2>1. QueuedAt(Places', j, Parent[c])
    <3> SUFFICES ASSUME NEW d \in Channel
                 PROVE  /\ j \in queue'[d] \cup etaQueue'[d] <=> d = Parent[c]
                        /\ j \notin queue'[d] \cap etaQueue'[d]
                        /\ j \in running'[d] <=> d \in PathOf(j) \ Path[Parent[c]]
                        /\ j \notin failed'[d]
      BY DEF QueuedAt, InQueue, Places
    <3>1. j \in queue'[d] <=> d = Parent[c]
      BY <1>2, <1>6, <1>8, <1>9, <1>11
    <3>2. j \notin etaQueue'[d]
      BY <1>3, <1>8, <1>9
    <3>3. j \in running'[d] <=> d \in PathOf(j) \ Path[Parent[c]]
      BY <1>4, <1>5, <1>6, <1>10, <1>11
    <3> QED
      BY <1>2, <1>10, <3>1, <3>2, <3>3
  <2>2. Queued(Places', j) /\ Parent[c] \in PathOf(j)
    BY <1>6, <1>11, <2>1 DEF Queued
  <2>3. row' = row /\ notified' = notified
    BY <1>2, <1>11
  <2>4. j \notin notified => row[j] \in {"pending", "wait_dependencies"}
    <3>1. ~ Nowhere(Places, j) /\ ~ RunsInPath(Places, j) /\ ~ FailedAt(Places, j)
      BY <1>4 DEF QueuedAt, Nowhere, RunsInPath, FailedAt
    <3> QED
      BY <1>1, <1>2, <3>1 DEF ShapeInv, Fits, TypeOK, States, Busy
  <2>5. j \notin notified => Fits(Places', j, row[j])
    BY <2>2, <2>4 DEF Fits, Busy
  <2>6. /\ \A i \in Job : Shaped(Places', i)
        /\ \A i \in Job \ notified' : Fits(Places', i, row'[i])
    BY <1>2, <1>7, <2>2, <2>3, <2>5, AgreeShape DEF ShapeInv, Shaped
  <2> QED
    BY <1>2, <2>6 DEF ShapeInv
<1>12. CASE c = Root
  <2>1. RunsInPath(Places', j)
    <3> SUFFICES ASSUME NEW d \in Channel
                 PROVE  /\ j \notin queue'[d] \cup etaQueue'[d]
                        /\ j \in running'[d] <=> d \in PathOf(j)
                        /\ j \notin failed'[d]
      BY DEF RunsInPath, InQueue, Places
    <3> QED
      BY <1>2, <1>3, <1>4, <1>5, <1>6, <1>8, <1>9, <1>10, <1>12
  <2>2. notified' = notified \cup {j} /\ \A i \in Job \ {j} : row'[i] = row[i]
    BY <1>2, <1>12 DEF TypeOK
  <2>3. /\ \A i \in Job : Shaped(Places', i)
        /\ \A i \in Job \ notified' : Fits(Places', i, row'[i])
    BY <1>2, <1>7, <2>1, <2>2, AgreeShape DEF ShapeInv, Shaped
  <2> QED
    BY <1>2, <2>3 DEF ShapeInv
<1> QED
  BY <1>11, <1>12

LEMMA ChangeShape ==
  ASSUME TypeOK, ShapeInv, NEW j \in Job, Change(j)
  PROVE  ShapeInv'
<1>1. /\ notified' = notified \cup {j}
      /\ \E s \in States : row' = [row EXCEPT ![j] = s]
      /\ UNCHANGED placeVars /\ phase' = phase
  BY DEF Change
<1>2. \A i \in Job \ notified' : i \notin notified /\ row'[i] = row[i]
  BY <1>1 DEF TypeOK
<1> QED
  BY <1>1, <1>2, SamePlaces, PlacesUnchanged

LEMMA InitShape == Init => ShapeInv
<1> SUFFICES ASSUME Init
             PROVE  ShapeInv
  OBVIOUS
<1>1. \A j \in Job : Nowhere(Places, j)
  BY DEF Init, Nowhere, InQueue, Places
<1> QED
  BY <1>1 DEF Init, ShapeInv, Shaped

LEMMA StepShape == TypeOK /\ CapacityInv /\ ShapeInv /\ [Next]_vars => ShapeInv'
<1> SUFFICES ASSUME TypeOK, CapacityInv, ShapeInv, [Next]_vars
             PROVE  ShapeInv'
  OBVIOUS
<1>1. ASSUME UNCHANGED rowVars, UNCHANGED placeVars, phase' = "load" <=> phase = "load"
      PROVE  ShapeInv'
  BY <1>1, SamePlaces, PlacesUnchanged DEF rowVars
<1>2. CASE StartRun \/ Wait \/ Wake \/ Tick \/ UNCHANGED vars
  BY <1>1, <1>2 DEF StartRun, Wait, Wake, Tick, vars
<1>3. CASE Recover
  <2>1. \A j \in Job : Nowhere(Places', j)
    BY <1>3 DEF Recover, Nowhere, InQueue, Places
  <2> QED
    BY <1>3, <2>1 DEF Recover, ShapeInv, Shaped
<1>4. ASSUME NEW c \in Channel, Skip(c) \/ Unpause(c)
      PROVE  ShapeInv'
  BY <1>1, <1>4 DEF Skip, Unpause
<1>5. ASSUME NEW c \in Channel, Yield(c) \/ Leave(c)
      PROVE  ShapeInv'
  BY <1>5, YieldShape, LeaveShape
<1>6. ASSUME NEW j \in Job, Notify(j) \/ Change(j)
      PROVE  ShapeInv'
  BY <1>6, NotifyShape, ChangeShape DEF CapacityInv
<1> QED
  BY <1>2, <1>3, <1>4, <1>5, <1>6, LoadShape DEF Next

(* The places of a job, one by one.                                        *)
LEMMA PlacesOfFacts ==
  ASSUME NEW j \in Job
  PROVE  /\ Nowhere(Places, j) => PlacesOf(j) = {}
         /\ RunsInPath(Places, j) => PlacesOf(j) = {<<c, "running">> : c \in PathOf(j)}
         /\ FailedAt(Places, j) => PlacesOf(j) = {<<ChannelOf[j], "failed">>}
         /\ Queued(Places, j) => PlacesOf(j) \in QueuedPlaces(ChannelOf[j])
<1> DEFINE Q == {d \in Channel : j \in queue[d] \cup etaQueue[d]}
           R == {d \in Channel : j \in running[d]}
           F == {d \in Channel : j \in failed[d]}
<1>1. PlacesOf(j) = {<<c, "queued">> : c \in Q} \cup {<<c, "running">> : c \in R}
                      \cup {<<c, "failed">> : c \in F}
  BY DEF PlacesOf
<1>2. /\ ChannelOf[j] \in Channel /\ PathOf(j) \subseteq Channel /\ PathOf(j) = Path[ChannelOf[j]]
  BY JobPath DEF PathOf
<1>3. Nowhere(Places, j) => Q = {} /\ R = {} /\ F = {}
  BY DEF Nowhere, InQueue, Places
<1>4. RunsInPath(Places, j) => Q = {} /\ R = PathOf(j) /\ F = {}
  BY <1>2 DEF RunsInPath, InQueue, Places
<1>5. FailedAt(Places, j) => Q = {} /\ R = {} /\ F = {ChannelOf[j]}
  BY <1>2 DEF FailedAt, InQueue, Places
<1>6. \A d \in PathOf(j) : QueuedAt(Places, j, d) => Q = {d} /\ R = PathOf(j) \ Path[d] /\ F = {}
  BY <1>2 DEF QueuedAt, InQueue, Places
<1> HIDE DEF Q, R, F
<1>7. Queued(Places, j) => PlacesOf(j) \in QueuedPlaces(ChannelOf[j])
  <2> SUFFICES ASSUME NEW d \in PathOf(j), QueuedAt(Places, j, d)
               PROVE  PlacesOf(j) \in QueuedPlaces(ChannelOf[j])
    BY DEF Queued
  <2>1. PlacesOf(j) = {<<d, "queued">>} \cup {<<e, "running">> : e \in PathOf(j) \ Path[d]}
    BY <1>1, <1>6
  <2> QED
    BY <1>2, <2>1 DEF QueuedPlaces
<1> QED
  BY <1>1, <1>3, <1>4, <1>5, <1>7

LEMMA PlacesShaped ==
  ASSUME TypeOK, ShapeInv
  PROVE  PlacesAgree
<1> SUFFICES ASSUME phase # "load", NEW j \in Job \ notified
             PROVE
               CASE row[j] = "pending" -> PlacesOf(j) \in QueuedPlaces(ChannelOf[j])
                 [] row[j] \in Busy    -> PlacesOf(j) = {<<c, "running">> : c \in Path[ChannelOf[j]]}
                 [] row[j] = "failed"  -> PlacesOf(j) = {<<ChannelOf[j], "failed">>}
                 [] row[j] = "wait_dependencies" -> TRUE
                 [] OTHER -> PlacesOf(j) = {}
  BY Zenon DEF PlacesAgree
<1>1. Fits(Places, j, row[j]) /\ row[j] \in States
  BY DEF ShapeInv, TypeOK
<1>2. /\ row[j] = "pending" => PlacesOf(j) \in QueuedPlaces(ChannelOf[j])
      /\ row[j] \in Busy => PlacesOf(j) = {<<c, "running">> : c \in Path[ChannelOf[j]]}
      /\ row[j] = "failed" => PlacesOf(j) = {<<ChannelOf[j], "failed">>}
      /\ row[j] \in {"done", "cancelled"} => PlacesOf(j) = {}
  BY <1>1, PlacesOfFacts DEF Fits, PathOf
<1> HIDE DEF Busy
<1>3. row[j] \in {"pending", "failed", "wait_dependencies", "done", "cancelled"} \cup Busy
  BY <1>1 DEF States, Busy
<1>4. /\ row[j] \in Busy => row[j] \notin {"pending", "failed", "wait_dependencies"}
  BY DEF Busy
<1> QED
  BY <1>2, <1>3, <1>4, Zenon DEF Busy

(* The channels agree with every row whose notifications are processed, in *)
(* whatever order notifications, passes and restarts have come.            *)
THEOREM PlacesAgreeWithRows == Spec => []PlacesAgree
<1> DEFINE Inv == TypeOK /\ CapacityInv /\ ShapeInv
<1>1. Init => Inv
  BY InitTypeOK, InitCapacity, InitShape
<1>2. Inv /\ [Next]_vars => Inv'
  BY StepTypeOK, StepCapacity, StepShape
<1>3. Inv => PlacesAgree
  BY PlacesShaped
<1> QED
  BY <1>1, <1>2, <1>3, PTL DEF Spec

-----------------------------------------------------------------------------
(* The end of the wait.                                                     *)

(* The channel has a job to pass down before any further eta is past.      *)
Offers(c) ==
  /\ queue[c] # {}
  /\ c \in Sequential /\ etaQueue[c] # {} =>
       Rank[First(queue[c])] < Rank[FirstEta(etaQueue[c])]

Settled(c) == pauseUntil[c] = 0 /\ HasCapacity(c) => ~ Offers(c)

InTodo(c) == \E i \in 1..Len(todo) : todo[i] = c

(* A channel is left before those downstream of it.                        *)
TodoInv ==
  phase = "run" =>
    /\ \A i, k \in 1..Len(todo) : todo[k] \in Path[todo[i]] => i <= k
    /\ \A c \in Channel : InTodo(c) => \A d \in Path[c] : InTodo(d)

SettledInv ==
  /\ phase = "run" => \A c \in Channel : InTodo(c) \/ Settled(c)
  /\ phase = "wait" => \A c \in Channel : Settled(c)

EtaInv == \A c \in Channel : \A j \in etaQueue[c] : jobEta[j] # 0

WakeupInv ==
  phase = "wait" => wakeup = IF WakeupTimes = {} THEN 0 ELSE Min(WakeupTimes)

WakeInv == TodoInv /\ SettledInv /\ EtaInv /\ WakeupInv

-----------------------------------------------------------------------------
(* The first of a set of jobs depends on the etas of those jobs only.      *)
EarliestBy(f, S) ==
  CHOOSE j \in S : \A i \in S : f[j] < f[i] \/ (f[j] = f[i] /\ Rank[j] <= Rank[i])

LEMMA EarliestExists ==
  ASSUME NEW S \in SUBSET Job, S # {}, NEW f \in [Job -> Nat]
  PROVE  \E j \in S : \A i \in S : f[j] < f[i] \/ (f[j] = f[i] /\ Rank[j] <= Rank[i])
<1> DEFINE etas == {f[j] : j \in S}
<1>1. etas \in SUBSET Nat /\ etas # {}
  OBVIOUS
<1>2. PICK e \in etas : \A x \in etas : e <= x
  BY <1>1, LeastNatural
<1> DEFINE T == {j \in S : f[j] = e}
           ranks == {Rank[j] : j \in T}
<1>3. ranks \in SUBSET Nat /\ ranks # {}
  BY <1>2, JobAssumption
<1>4. PICK r \in ranks : \A x \in ranks : r <= x
  BY <1>3, LeastNatural
<1>5. PICK j \in T : Rank[j] = r
  BY <1>4
<1>6. ASSUME NEW i \in S
      PROVE  f[j] < f[i] \/ (f[j] = f[i] /\ Rank[j] <= Rank[i])
  <2>1. f[j] = e /\ f[i] \in Nat /\ e \in Nat /\ e <= f[i]
    BY <1>1, <1>2, <1>5
  <2>2. f[i] = e => Rank[j] <= Rank[i]
    BY <1>4, <1>5
  <2> QED
    BY <2>1, <2>2
<1> QED
  BY <1>5, <1>6

LEMMA EarliestSame ==
  ASSUME NEW S \in SUBSET Job, S # {}, NEW f \in [Job -> Nat], NEW g \in [Job -> Nat],
         \A j \in S : f[j] = g[j]
  PROVE  EarliestBy(f, S) = EarliestBy(g, S)
<1> DEFINE Least(h, j) == \A i \in S : h[j] < h[i] \/ (h[j] = h[i] /\ Rank[j] <= Rank[i])
           a == EarliestBy(f, S)
           b == EarliestBy(g, S)
<1>1. a \in S /\ Least(f, a) /\ b \in S /\ Least(g, b)
  BY EarliestExists DEF EarliestBy
<1> HIDE DEF a, b
<1>2. Least(f, b)
  BY <1>1
<1>3. /\ f[a] < f[b] \/ (f[a] = f[b] /\ Rank[a] <= Rank[b])
      /\ f[b] < f[a] \/ (f[b] = f[a] /\ Rank[b] <= Rank[a])
  BY <1>1, <1>2
<1>4. f[a] \in Nat /\ f[b] \in Nat /\ Rank[a] \in Nat /\ Rank[b] \in Nat
  BY <1>1, JobAssumption
<1>5. Rank[a] = Rank[b]
  BY <1>3, <1>4
<1>6. a = b
  BY <1>1, <1>5, JobAssumption
<1> QED
  BY <1>6 DEF a, b

LEMMA OffersNext ==
  ASSUME TypeOK, TypeOK', NEW c \in Channel, \A j \in etaQueue'[c] : jobEta'[j] = jobEta[j]
  PROVE  Offers(c)' <=>
           /\ queue'[c] # {}
           /\ c \in Sequential /\ etaQueue'[c] # {} =>
                Rank[First(queue'[c])] < Rank[FirstEta(etaQueue'[c])]
<1>1. /\ FirstEta(etaQueue[c])' = EarliestBy(jobEta', etaQueue'[c])
      /\ FirstEta(etaQueue'[c]) = EarliestBy(jobEta, etaQueue'[c])
  BY DEF FirstEta, EarliestBy
<1>2. /\ jobEta \in [Job -> Nat] /\ jobEta' \in [Job -> Nat]
      /\ etaQueue'[c] \in SUBSET Job
  BY DEF TypeOK
<1>3. etaQueue'[c] # {} => FirstEta(etaQueue[c])' = FirstEta(etaQueue'[c])
  BY <1>1, <1>2, EarliestSame
<1>4. First(queue[c])' = First(queue'[c])
  BY DEF First
<1> QED
  BY <1>3, <1>4 DEF Offers

(* A channel with the same jobs, at the same etas, stays settled.          *)
LEMMA SettledKept ==
  ASSUME TypeOK, TypeOK', NEW c \in Channel, Settled(c),
         queue'[c] = queue[c], etaQueue'[c] = etaQueue[c],
         running'[c] = running[c], failed'[c] = failed[c], pauseUntil'[c] = pauseUntil[c],
         \A j \in etaQueue[c] : jobEta'[j] = jobEta[j]
  PROVE  Settled(c)'
<1>1. Offers(c)' <=> Offers(c)
  BY OffersNext DEF Offers
<1>2. HasCapacity(c)' <=> HasCapacity(c)
  BY DEF HasCapacity
<1> QED
  BY <1>1, <1>2 DEF Settled

-----------------------------------------------------------------------------
(* The jobs that keep their eta, since no job is queued in two channels.   *)
LEMMA EtasKept ==
  ASSUME TypeOK, ShapeInv, NEW c \in Channel, ForgetPastEtas(c),
         NEW d \in Channel, NEW j \in etaQueue'[d]
  PROVE  j \in etaQueue[d] /\ jobEta'[j] = jobEta[j]
<1>1. /\ etaQueue'[c] = EtaJobs(c)
      /\ \A b \in Channel \ {c} : etaQueue'[b] = etaQueue[b]
      /\ jobEta' = [i \in Job |-> IF i \in PastEta(c) THEN 0 ELSE jobEta[i]]
  BY ForgetPastEtasType DEF ForgetPastEtas
<1>2. j \in etaQueue[d] /\ j \in Job
  BY <1>1 DEF EtaJobs, TypeOK
<1>3. j \notin PastEta(c)
  <2>1. CASE d = c
    BY <1>1, <2>1 DEF EtaJobs
  <2>2. CASE d # c
    <3>1. InQueue(Places, d, j)
      BY <1>2 DEF InQueue, Places
    <3>2. ~ Nowhere(Places, j) /\ ~ RunsInPath(Places, j) /\ ~ FailedAt(Places, j)
      BY <3>1 DEF Nowhere, RunsInPath, FailedAt
    <3>3. PICK b \in PathOf(j) : QueuedAt(Places, j, b)
      BY <1>2, <3>2 DEF ShapeInv, Shaped, Queued
    <3>4. ~ InQueue(Places, c, j)
      BY <2>2, <3>1, <3>3 DEF QueuedAt
    <3> QED
      BY <3>4 DEF InQueue, Places, PastEta
  <2> QED
    BY <2>1, <2>2
<1> QED
  BY <1>1, <1>2, <1>3

LEMMA ForgetEta ==
  ASSUME TypeOK, ShapeInv, EtaInv, NEW c \in Channel, ForgetPastEtas(c)
  PROVE  EtaInv'
<1> SUFFICES ASSUME NEW d \in Channel, NEW j \in etaQueue'[d]
             PROVE  jobEta'[j] # 0
  BY DEF EtaInv
<1> QED
  BY EtasKept DEF EtaInv

(* A notification sets its job aside only with an eta.                     *)
LEMMA NotifyEta ==
  ASSUME TypeOK, ShapeInv, EtaInv, NEW j \in Job, Notify(j)
  PROVE  EtaInv'
<1> DEFINE c == ChannelOf[j]
           q == Notified(j)
           p == IF jobEta[j] = rowEta[j] THEN Places ELSE Remove(Places, Path[c], j)
<1>1. /\ etaQueue' = q.etaQueue
      /\ jobEta' = [jobEta EXCEPT ![j] = rowEta[j]]
  BY DEF Notify
<1>2. c \in Channel /\ Path[c] \in SUBSET Channel
  BY JobPath DEF PathOf
<1>3. Places \in PlacesType
  BY DEF Places, PlacesType, TypeOK
<1>4. p \in PlacesType /\ \A d \in Channel : j \in p.etaQueue[d] => rowEta[j] # 0
  <2>1. CASE jobEta[j] = rowEta[j]
    BY <1>3, <2>1 DEF EtaInv, Places
  <2>2. CASE jobEta[j] # rowEta[j]
    <3>1. Removed(Places, p, Path[c], j)
      BY <1>2, <1>3, <2>2, RemoveFacts
    <3>2. Shaped(Places, j)
      BY DEF ShapeInv
    <3> HIDE DEF p
    <3>3. Nowhere(p, j)
      BY <1>3, <3>1, <3>2, RemovedNowhere
    <3> QED
      BY <3>1, <3>3 DEF Removed, Nowhere, InQueue
  <2> QED
    BY <2>1, <2>2
<1>5. q = CASE row[j] \in {"done", "cancelled"} -> Remove(p, Path[c], j)
            [] row[j] = "pending"               -> SetPending(p, c, j)
            [] row[j] \in Busy                  -> SetRunning(p, c, j)
            [] row[j] = "failed"                -> SetFailed(p, c, j)
            [] OTHER                            -> p
  BY DEF Notified
<1>6. OthersKept(Places, q, j)
  BY NotifiedMoves DEF Moved
<1> HIDE DEF p, q
<1> DEFINE Sound(r) == \A d \in Channel : j \in r.etaQueue[d] => rowEta[j] # 0
<1>7. ASSUME NEW cs \in SUBSET Channel
      PROVE  Remove(p, cs, j) \in PlacesType /\ Sound(Remove(p, cs, j))
  <2>1. Removed(p, Remove(p, cs, j), cs, j)
    BY <1>4, RemoveFacts
  <2> QED
    BY <1>4, <2>1 DEF Removed
<1>8. Sound(SetPending(p, c, j))
  <2> DEFINE r == Remove(p, Path[c], j)
             s == SetPending(p, c, j)
  <2>1. r \in PlacesType /\ Sound(r)
    BY <1>2, <1>7
  <2>2. s = IF j \in p.queue[c] \cup p.etaQueue[c] THEN p
            ELSE IF rowEta[j] = 0 THEN [r EXCEPT !.queue = With(@, {c}, j)]
                                  ELSE [r EXCEPT !.etaQueue = With(@, {c}, j)]
    BY DEF SetPending
  <2> HIDE DEF r, s
  <2>3. s = p \/ s.etaQueue = r.etaQueue \/ rowEta[j] # 0
    BY <2>1, <2>2 DEF PlacesType
  <2>4. Sound(s)
    BY <1>4, <2>1, <2>3
  <2> QED
    BY <2>4 DEF s
<1>9. Sound(SetRunning(p, c, j))
  <2> DEFINE entered == {d \in Path[c] : \A b \in Path[c] : d \in Path[b] => j \notin p.running[b]}
             r == Remove(p, entered, j)
             s == SetRunning(p, c, j)
  <2>1. entered \in SUBSET Channel
    BY <1>2
  <2>2. s = [r EXCEPT !.running = With(@, entered, j)]
    BY DEF SetRunning
  <2> HIDE DEF entered
  <2>3. r \in PlacesType /\ Sound(r)
    BY <1>7, <2>1
  <2> HIDE DEF r, s
  <2>4. s.etaQueue = r.etaQueue
    BY <2>2, <2>3 DEF PlacesType
  <2>5. Sound(s)
    BY <2>3, <2>4
  <2> QED
    BY <2>5 DEF s
<1>10. Sound(SetFailed(p, c, j))
  <2> DEFINE r == Remove(p, Path[c], j)
             s == SetFailed(p, c, j)
  <2>1. r \in PlacesType /\ Sound(r)
    BY <1>2, <1>7
  <2>2. s = IF j \in p.failed[c] THEN p ELSE [r EXCEPT !.failed = With(@, {c}, j)]
    BY DEF SetFailed
  <2> HIDE DEF r, s
  <2>3. s = p \/ s.etaQueue = r.etaQueue
    BY <2>1, <2>2 DEF PlacesType
  <2>4. Sound(s)
    BY <1>4, <2>1, <2>3
  <2> QED
    BY <2>4 DEF s
<1>11. Sound(p) /\ Sound(Remove(p, Path[c], j))
  BY <1>2, <1>4, <1>7
<1> HIDE DEF Sound
<1>12. Sound(q)
  <2>1. q \in {Remove(p, Path[c], j), SetPending(p, c, j), SetRunning(p, c, j),
               SetFailed(p, c, j), p}
    <3>1. CASE row[j] \in {"done", "cancelled"}
      BY <1>5, <3>1, Zenon DEF Busy
    <3>2. CASE row[j] = "pending"
      BY <1>5, <3>2, Zenon DEF Busy
    <3>3. CASE row[j] \in Busy
      BY <1>5, <3>3 DEF Busy
    <3>4. CASE row[j] = "failed"
      BY <1>5, <3>4, Zenon DEF Busy
    <3>5. CASE row[j] = "wait_dependencies"
      BY <1>5, <3>5, Zenon DEF Busy
    <3> QED
      BY <3>1, <3>2, <3>3, <3>4, <3>5 DEF TypeOK, States, Busy
  <2> QED
    BY <1>8, <1>9, <1>10, <1>11, <2>1
<1> SUFFICES ASSUME NEW d \in Channel, NEW i \in etaQueue'[d]
             PROVE  jobEta'[i] # 0
  BY DEF EtaInv
<1>13. CASE i = j
  BY <1>1, <1>12, <1>13 DEF Sound, TypeOK
<1>14. CASE i # j
  <2>1. i \in etaQueue[d]
    BY <1>1, <1>6, <1>14 DEF OthersKept, Places
  <2> QED
    BY <1>1, <1>14, <2>1 DEF EtaInv, TypeOK
<1> QED
  BY <1>13, <1>14

-----------------------------------------------------------------------------
(* A channel left by the pass comes before all that are still to be left.  *)
LEMMA LeaveTodo ==
  ASSUME TypeOK, TodoInv, NEW c \in Channel, Visits(c), todo' = Tail(todo), phase' = "run"
  PROVE  /\ TodoInv'
         /\ \A d \in Channel : InTodo(d) => d = c \/ InTodo(d)'
<1>1. /\ todo \in Seq(Channel) /\ Len(todo) \in Nat \ {0} /\ todo[1] = c /\ phase = "run"
      /\ Len(todo') = Len(todo) - 1
      /\ \A i \in 1..Len(todo') : todo'[i] = todo[i + 1]
  BY DEF TypeOK, Visits
<1>2. \A d \in Channel : InTodo(d) => d = c \/ InTodo(d)'
  <2> SUFFICES ASSUME NEW d \in Channel, NEW i \in 1..Len(todo), todo[i] = d, d # c
               PROVE  \E k \in 1..Len(todo') : todo'[k] = d
    BY DEF InTodo
  <2>1. i - 1 \in 1..Len(todo')
    BY <1>1
  <2>2. todo'[i - 1] = d
    BY <1>1, <2>1
  <2> QED
    BY <2>1, <2>2
<1>3. \A i, k \in 1..Len(todo') : todo'[k] \in Path[todo'[i]] => i <= k
  <2> SUFFICES ASSUME NEW i \in 1..Len(todo'), NEW k \in 1..Len(todo'),
                      todo'[k] \in Path[todo'[i]]
               PROVE  i <= k
    OBVIOUS
  <2>1. i + 1 \in 1..Len(todo) /\ k + 1 \in 1..Len(todo)
    BY <1>1
  <2>2. todo[k + 1] \in Path[todo[i + 1]]
    BY <1>1
  <2>3. i + 1 <= k + 1
    BY <1>1, <2>1, <2>2 DEF TodoInv
  <2> QED
    BY <2>3
<1>4. ASSUME NEW d \in Channel, InTodo(d)', NEW e \in Path[d]
      PROVE  InTodo(e)'
  <2>1. PICK i \in 1..Len(todo') : todo'[i] = d
    BY <1>4 DEF InTodo
  <2>2. i + 1 \in 1..Len(todo) /\ todo[i + 1] = d
    BY <1>1, <2>1
  <2>3. e \in Channel /\ InTodo(e)
    <3>1. InTodo(d)
      BY <2>2 DEF InTodo
    <3> QED
      BY <1>1, <1>4, <3>1, TreeAssumption DEF TodoInv
  <2>4. e # c
    <3> SUFFICES ASSUME e = c
                 PROVE  FALSE
      OBVIOUS
    <3>1. 1 \in 1..Len(todo) /\ todo[1] \in Path[todo[i + 1]]
      BY <1>1, <1>4, <2>2
    <3>2. i + 1 <= 1
      BY <1>1, <2>2, <3>1 DEF TodoInv
    <3> QED
      BY <3>2
  <2> QED
    BY <1>2, <2>3, <2>4
<1> QED
  BY <1>2, <1>3, <1>4 DEF TodoInv

LEMMA StartTodo ==
  ASSUME TypeOK, StartRun
  PROVE  TodoInv' /\ \A c \in Channel : InTodo(c)'
<1>1. todo' = PostOrder
  BY DEF StartRun
<1>2. \A c \in Channel : InTodo(c)'
  BY <1>1, PostOrderAssumption DEF InTodo
<1> QED
  BY <1>1, <1>2, PostOrderAssumption, TreeAssumption DEF TodoInv

(* The steps that leave the places, the pauses and the pass as they are.   *)
LEMMA PassKept ==
  ASSUME TypeOK, TypeOK', WakeInv,
         UNCHANGED <<placeVars, pauseUntil, todo, wakeup>>, UNCHANGED phase
  PROVE  WakeInv'
<1>1. UNCHANGED <<jobEta, queue, etaQueue, running, failed>>
  BY DEF placeVars
<1>2. ASSUME NEW c \in Channel
      PROVE  (Settled(c) => Settled(c)') /\ (InTodo(c)' <=> InTodo(c))
  BY <1>1, SettledKept DEF InTodo
<1>3. TodoInv'
  BY <1>2, TreeAssumption DEF WakeInv, TodoInv
<1>4. SettledInv'
  BY <1>2 DEF WakeInv, SettledInv
<1>5. EtaInv'
  BY <1>1 DEF WakeInv, EtaInv
<1>6. WakeupTimes' = WakeupTimes
  BY <1>1 DEF WakeupTimes, HasCapacity
<1>7. WakeupInv'
  BY <1>6 DEF WakeInv, WakeupInv
<1> QED
  BY <1>3, <1>4, <1>5, <1>7 DEF WakeInv

(* The channel that is visited is left settled, or is still to be left.    *)
LEMMA VisitWake ==
  ASSUME TypeOK, TypeOK', WakeInv, EtaInv', NEW c \in Channel, Visits(c), phase' = "run",
         todo' = todo \/ (todo' = Tail(todo) /\ Settled(c)'),
         \A d \in Channel : Settled(d) /\ d # c /\ ~ InTodo(d) => Settled(d)'
  PROVE  WakeInv'
<1>1. phase = "run" /\ InTodo(c)
  <2>1. todo \in Seq(Channel) /\ 1 \in 1..Len(todo) /\ todo[1] = c
    BY DEF TypeOK, Visits
  <2> QED
    BY <2>1 DEF Visits, InTodo
<1>2. CASE todo' = todo
  <2>1. \A d \in Channel : InTodo(d)' <=> InTodo(d)
    BY <1>2 DEF InTodo
  <2>2. TodoInv'
    BY <1>1, <1>2, <2>1, TreeAssumption DEF WakeInv, TodoInv
  <2>3. SettledInv'
    BY <1>1, <2>1 DEF WakeInv, SettledInv
  <2> QED
    BY <2>2, <2>3 DEF WakeInv, WakeupInv
<1>3. CASE todo' = Tail(todo) /\ Settled(c)'
  <2>1. /\ TodoInv'
        /\ \A d \in Channel : InTodo(d) => d = c \/ InTodo(d)'
    BY <1>3, LeaveTodo DEF WakeInv
  <2>2. SettledInv'
    BY <1>1, <1>3, <2>1 DEF WakeInv, SettledInv
  <2> QED
    BY <2>1, <2>2 DEF WakeInv, WakeupInv
<1> QED
  BY <1>2, <1>3

LEMMA SkipWake ==
  ASSUME TypeOK, TypeOK', WakeInv, NEW c \in Channel, Skip(c)
  PROVE  WakeInv'
<1>1. /\ Visits(c) /\ phase' = "run" /\ todo' = Tail(todo)
      /\ pauseUntil'[c] = pauseUntil[c] /\ pauseUntil[c] > now
      /\ UNCHANGED <<jobEta, queue, etaQueue, running, failed, pauseUntil>>
  BY DEF Skip, Visits, placeVars
<1>2. Settled(c)'
  <2>1. now \in Nat /\ now >= 1 /\ pauseUntil[c] \in Nat
    BY DEF TypeOK
  <2> QED
    BY <1>1, <2>1 DEF Settled
<1>3. \A d \in Channel : Settled(d) => Settled(d)'
  BY <1>1, SettledKept
<1>4. EtaInv'
  BY <1>1 DEF WakeInv, EtaInv
<1> QED
  BY <1>1, <1>2, <1>3, <1>4, VisitWake

LEMMA UnpauseWake ==
  ASSUME TypeOK, TypeOK', WakeInv, NEW c \in Channel, Unpause(c)
  PROVE  WakeInv'
<1>1. /\ Visits(c) /\ phase' = "run" /\ todo' = todo
      /\ pauseUntil' = [pauseUntil EXCEPT ![c] = 0]
      /\ UNCHANGED <<jobEta, queue, etaQueue, running, failed>>
  BY DEF Unpause, Visits, placeVars
<1>2. \A d \in Channel \ {c} : pauseUntil'[d] = pauseUntil[d]
  BY <1>1 DEF TypeOK
<1>3. \A d \in Channel \ {c} : Settled(d) => Settled(d)'
  BY <1>1, <1>2, SettledKept
<1>4. EtaInv'
  BY <1>1 DEF WakeInv, EtaInv
<1> QED
  BY <1>1, <1>3, <1>4, VisitWake

LEMMA LeaveWake ==
  ASSUME TypeOK, TypeOK', ShapeInv, WakeInv, NEW c \in Channel, Leave(c)
  PROVE  WakeInv'
<1>1. /\ Visits(c) /\ phase' = "run" /\ todo' = Tail(todo) /\ UNCHANGED pauseUntil
      /\ running' = running /\ failed' = failed
  BY DEF Leave, Visits, placeVars
<1>2. HasCapacity(c)' <=> HasCapacity(c)
  BY <1>1 DEF HasCapacity
<1>3. CASE ~ HasCapacity(c) /\ UNCHANGED placeVars
  <2>1. UNCHANGED <<jobEta, queue, etaQueue>>
    BY <1>3 DEF placeVars
  <2>2. Settled(c)'
    BY <1>2, <1>3 DEF Settled
  <2>3. \A d \in Channel : Settled(d) => Settled(d)'
    BY <1>1, <2>1, SettledKept
  <2>4. EtaInv'
    BY <2>1 DEF WakeInv, EtaInv
  <2> QED
    BY <1>1, <2>2, <2>3, <2>4, VisitWake
<1>4. CASE /\ HasCapacity(c) /\ ~ Pops(c)
           /\ queue' = [queue EXCEPT ![c] = ReadyJobs(c)]
           /\ ForgetPastEtas(c)
  <2>1. EtaInv'
    BY <1>4, ForgetEta DEF WakeInv
  <2>2. \A d \in Channel : \A j \in etaQueue'[d] : jobEta'[j] = jobEta[j]
    BY <1>4, EtasKept
  <2>3. /\ etaQueue'[c] = EtaJobs(c)
        /\ \A d \in Channel \ {c} : etaQueue'[d] = etaQueue[d]
    BY <1>4, ForgetPastEtasType
  <2>4. /\ queue'[c] = ReadyJobs(c)
        /\ \A d \in Channel \ {c} : queue'[d] = queue[d]
    BY <1>4 DEF TypeOK
  <2>5. Offers(c)' <=> Pops(c)
    BY <2>2, <2>3, <2>4, OffersNext DEF Pops
  <2>6. Settled(c)'
    BY <1>4, <2>5 DEF Settled
  <2>7. \A d \in Channel \ {c} : Settled(d) => Settled(d)'
    BY <1>1, <2>2, <2>3, <2>4, SettledKept
  <2> QED
    BY <1>1, <2>1, <2>6, <2>7, VisitWake
<1> QED
  BY <1>3, <1>4 DEF Leave

(* A channel passes its jobs down to one that is still to be left.         *)
LEMMA YieldWake ==
  ASSUME TypeOK, TypeOK', ShapeInv, WakeInv, NEW c \in Channel, Yield(c)
  PROVE  WakeInv'
<1> DEFINE j == First(ReadyJobs(c))
<1>1. /\ Visits(c) /\ phase' = "run" /\ failed' = failed /\ ForgetPastEtas(c)
      /\ queue' = [d \in Channel |-> IF d = c THEN ReadyJobs(c) \ {j}
                    ELSE IF c # Root /\ d = Parent[c] THEN queue[d] \cup {j}
                    ELSE queue[d]]
      /\ running' = [running EXCEPT ![c] = @ \cup {j}]
      /\ \/ /\ Throttle[c] > 0 /\ pauseUntil' = [pauseUntil EXCEPT ![c] = PauseEnd(c)]
            /\ todo' = Tail(todo)
         \/ UNCHANGED <<pauseUntil, todo>>
  BY DEF Yield, Visits
<1> HIDE DEF j
<1>2. EtaInv'
  BY <1>1, ForgetEta DEF WakeInv
<1>3. \A d \in Channel : \A i \in etaQueue'[d] : jobEta'[i] = jobEta[i]
  BY <1>1, EtasKept
<1>4. \A d \in Channel \ {c} : etaQueue'[d] = etaQueue[d]
  BY <1>1, ForgetPastEtasType
<1>5. c # Root => Parent[c] \in Channel /\ InTodo(Parent[c])
  <2>1. phase = "run" /\ InTodo(c)
    <3>1. todo \in Seq(Channel) /\ 1 \in 1..Len(todo) /\ todo[1] = c
      BY <1>1 DEF TypeOK, Visits
    <3> QED
      BY <1>1, <3>1 DEF Visits, InTodo
  <2>2. c # Root => Parent[c] \in Path[c] /\ Parent[c] \in Channel
    BY PathFacts, TreeAssumption
  <2> QED
    BY <2>1, <2>2 DEF WakeInv, TodoInv
<1>6. ASSUME NEW d \in Channel, Settled(d), d # c, ~ InTodo(d)
      PROVE  Settled(d)'
  <2>1. queue'[d] = queue[d] /\ running'[d] = running[d] /\ failed'[d] = failed[d]
    BY <1>1, <1>5, <1>6 DEF TypeOK
  <2>2. pauseUntil'[d] = pauseUntil[d]
    BY <1>1, <1>6 DEF TypeOK
  <2>3. etaQueue'[d] = etaQueue[d]
    BY <1>4, <1>6
  <2> QED
    BY <1>3, <1>6, <2>1, <2>2, <2>3, SettledKept
<1>7. todo' = todo \/ (todo' = Tail(todo) /\ Settled(c)')
  <2>1. CASE /\ Throttle[c] > 0 /\ pauseUntil' = [pauseUntil EXCEPT ![c] = PauseEnd(c)]
             /\ todo' = Tail(todo)
    <3>1. pauseUntil'[c] = now + Throttle[c]
      BY <2>1 DEF TypeOK, PauseEnd
    <3>2. now \in Nat /\ Throttle[c] \in Nat
      BY ConfigurationAssumption DEF TypeOK
    <3>3. pauseUntil'[c] # 0
      BY <2>1, <3>1, <3>2
    <3> QED
      BY <2>1, <3>3 DEF Settled
  <2> QED
    BY <1>1, <2>1
<1> QED
  BY <1>1, <1>2, <1>6, <1>7, VisitWake

LEMMA InitWake == Init => WakeInv
BY DEF Init, WakeInv, TodoInv, SettledInv, EtaInv, WakeupInv

LEMMA StepWake == TypeOK /\ ShapeInv /\ WakeInv /\ [Next]_vars => WakeInv'
<1> SUFFICES ASSUME TypeOK, ShapeInv, WakeInv, [Next]_vars
             PROVE  WakeInv'
  OBVIOUS
<1>1. TypeOK'
  BY StepTypeOK
<1>2. ASSUME phase' \notin {"run", "wait"}, EtaInv'
      PROVE  WakeInv'
  BY <1>2 DEF WakeInv, TodoInv, SettledInv, WakeupInv
<1>3. ASSUME UNCHANGED <<jobEta, etaQueue>>
      PROVE  EtaInv'
  BY <1>3 DEF WakeInv, EtaInv
<1>4. CASE Tick \/ UNCHANGED vars
  BY <1>1, <1>4, PassKept DEF Tick, vars
<1>5. ASSUME NEW j \in Job, Change(j)
      PROVE  WakeInv'
  BY <1>1, <1>5, PassKept DEF Change
<1>6. ASSUME NEW j \in Job, Notify(j)
      PROVE  WakeInv'
  BY <1>2, <1>6, NotifyEta DEF WakeInv, Notify
<1>7. CASE Load
  <2>1. EtaInv'
    <3> SUFFICES ASSUME NEW d \in Channel, NEW j \in etaQueue'[d]
                 PROVE  jobEta'[j] # 0
      BY DEF EtaInv
    <3> QED
      BY <1>7 DEF Load
  <2> QED
    BY <1>2, <1>7, <2>1 DEF Load
<1>8. CASE Recover
  <2>1. EtaInv' /\ phase' = "load"
    BY <1>8 DEF Recover, EtaInv
  <2> QED
    BY <1>2, <2>1
<1>9. CASE Wake
  <2>1. UNCHANGED <<jobEta, etaQueue>> /\ phase' = "notify"
    BY <1>9 DEF Wake, placeVars
  <2> QED
    BY <1>2, <1>3, <2>1
<1>10. CASE StartRun
  <2>1. UNCHANGED <<jobEta, etaQueue>> /\ phase' = "run"
    BY <1>10 DEF StartRun, placeVars
  <2> QED
    BY <1>3, <1>10, <2>1, StartTodo DEF WakeInv, SettledInv, WakeupInv
<1>11. CASE Wait
  <2>1. /\ UNCHANGED <<jobEta, queue, etaQueue, running, failed, pauseUntil>>
        /\ phase = "run" /\ phase' = "wait" /\ todo = <<>>
        /\ wakeup' = IF WakeupTimes = {} THEN 0 ELSE Min(WakeupTimes)
    BY <1>11 DEF Wait, placeVars
  <2>2. \A c \in Channel : Settled(c)
    BY <2>1 DEF WakeInv, SettledInv, InTodo
  <2>3. \A c \in Channel : Settled(c)'
    BY <1>1, <2>1, <2>2, SettledKept
  <2>4. WakeupTimes' = WakeupTimes
    BY <2>1 DEF WakeupTimes, HasCapacity
  <2>5. WakeupInv'
    BY <2>1, <2>4 DEF WakeupInv
  <2> QED
    BY <1>3, <2>1, <2>3, <2>5 DEF WakeInv, TodoInv, SettledInv
<1>12. ASSUME NEW c \in Channel, Skip(c) \/ Unpause(c) \/ Leave(c) \/ Yield(c)
       PROVE  WakeInv'
  BY <1>1, <1>12, SkipWake, UnpauseWake, LeaveWake, YieldWake
<1> QED
  BY <1>4, <1>5, <1>6, <1>7, <1>8, <1>9, <1>10, <1>11, <1>12 DEF Next

-----------------------------------------------------------------------------
(* Of the paused channels on a path, one has none that is paused below it. *)
LEMMA LastPaused ==
  ASSUME TypeOK, NEW c \in Channel, NEW e \in Path[c], pauseUntil[e] # 0
  PROVE  \E d \in Path[c] : pauseUntil[d] # 0 /\ \A b \in Path[d] \ {d} : pauseUntil[b] = 0
<1> DEFINE n == Len(PostOrder)
           I == {i \in 1..n : PostOrder[i] \in Path[c] /\ pauseUntil[PostOrder[i]] # 0}
           S == {n - i : i \in I}
<1>1. n \in Nat
  BY PostOrderAssumption
<1>2. e \in Channel /\ Path[c] \subseteq Channel /\ \A d \in Path[c] : Path[d] \subseteq Path[c]
  BY PathFacts
<1>3. S \in SUBSET Nat /\ S # {}
  <2>1. PICK i \in 1..n : PostOrder[i] = e
    BY <1>2, PostOrderAssumption
  <2>2. i \in I
    BY <2>1
  <2> QED
    BY <1>1, <2>2
<1>4. PICK m \in S : \A x \in S : m <= x
  BY <1>3, LeastNatural
<1>5. PICK i \in I : m = n - i
  BY <1>4
<1>6. ASSUME NEW b \in Path[PostOrder[i]], b # PostOrder[i], pauseUntil[b] # 0
      PROVE  FALSE
  <2>1. b \in Path[c] /\ b \in Channel
    BY <1>2, <1>6
  <2>2. PICK k \in 1..n : PostOrder[k] = b
    BY <2>1, PostOrderAssumption
  <2>3. i <= k
    BY <1>6, <2>2, PostOrderAssumption
  <2>4. k \in I /\ n - k \in S
    BY <1>6, <2>1, <2>2
  <2>5. n - i <= n - k
    BY <1>4, <1>5, <2>4
  <2>6. i = k
    BY <1>1, <2>3, <2>5
  <2> QED
    BY <1>6, <2>2, <2>6
<1> QED
  BY <1>5, <1>6

LEMMA LeastIsLeast ==
  ASSUME NEW S \in SUBSET Nat, NEW x \in S
  PROVE  Min(S) \in S /\ Min(S) <= x
<1>1. \E y \in S : \A z \in S : y <= z
  BY LeastNatural
<1> QED
  BY <1>1 DEF Min

(* While the runner sleeps, no job could be passed down to Odoo.           *)
LEMMA NoneMissed ==
  ASSUME TypeOK, WakeInv
  PROVE  NoMissedWakeup
<1> SUFFICES ASSUME phase = "wait", wakeup = 0 \/ now < wakeup,
                    NEW c \in Channel, Pops(c),
                    \A d \in Path[c] : HasCapacity(d) /\ ~ (pauseUntil[d] > now)
             PROVE  FALSE
  BY DEF NoMissedWakeup
<1> DEFINE asked == {d \in Channel :
                      /\ HasCapacity(d)
                      /\ \A e \in Path[d] \ {d} : HasCapacity(e) /\ pauseUntil[e] = 0}
<1>1. WakeupTimes = ({pauseUntil[d] : d \in asked} \ {0}) \cup
         UNION {{jobEta[j] : j \in etaQueue[d]} : d \in {b \in asked : pauseUntil[b] = 0}}
  BY DEF WakeupTimes
<1>2. WakeupTimes \in SUBSET Nat
  BY WakeupTimesType
<1>3. 0 \notin WakeupTimes
  BY <1>1 DEF WakeInv, EtaInv
<1>4. ASSUME NEW t \in WakeupTimes
      PROVE  t > now
  <2>1. wakeup = Min(WakeupTimes)
    BY <1>4 DEF WakeInv, WakeupInv
  <2>2. Min(WakeupTimes) \in WakeupTimes /\ Min(WakeupTimes) <= t
    BY <1>2, <1>4, LeastIsLeast
  <2>3. now \in Nat /\ t \in Nat /\ wakeup \in Nat /\ wakeup # 0
    BY <1>2, <1>3, <1>4, <2>1, <2>2 DEF TypeOK
  <2> QED
    BY <2>1, <2>2, <2>3
<1>5. Path[c] \subseteq Channel /\ c \in Path[c] /\ \A d \in Path[c] : Path[d] \subseteq Path[c]
  BY PathFacts
<1>6. \A d \in Path[c] : pauseUntil[d] = 0
  <2> SUFFICES ASSUME NEW e \in Path[c], pauseUntil[e] # 0
               PROVE  FALSE
    OBVIOUS
  <2>1. PICK d \in Path[c] : pauseUntil[d] # 0 /\ \A b \in Path[d] \ {d} : pauseUntil[b] = 0
    BY LastPaused
  <2>2. d \in asked
    BY <1>5, <2>1
  <2>3. pauseUntil[d] \in WakeupTimes
    BY <1>1, <2>1, <2>2
  <2> QED
    BY <1>4, <2>3
<1>7. c \in asked /\ pauseUntil[c] = 0
  BY <1>5, <1>6
<1>8. \A j \in etaQueue[c] : jobEta[j] \in WakeupTimes
  BY <1>1, <1>7
<1>9. PastEta(c) = {}
  <2> SUFFICES ASSUME NEW j \in etaQueue[c], jobEta[j] <= now
               PROVE  FALSE
    BY DEF PastEta
  <2>1. jobEta[j] > now /\ jobEta[j] \in Nat /\ now \in Nat
    BY <1>2, <1>4, <1>8 DEF TypeOK
  <2> QED
    BY <2>1
<1>10. ReadyJobs(c) = queue[c] /\ EtaJobs(c) = etaQueue[c]
  BY <1>9 DEF ReadyJobs, EtaJobs
<1>11. Offers(c)
  BY <1>10 DEF Offers, Pops
<1> QED
  BY <1>5, <1>7, <1>11 DEF WakeInv, SettledInv, Settled

(* The runner never sleeps while a job could be passed down to Odoo, and   *)
(* is woken up in time when an eta or the end of a pause lets one through. *)
THEOREM WakesUpInTime == Spec => []NoMissedWakeup
<1> DEFINE Inv == TypeOK /\ CapacityInv /\ ShapeInv /\ WakeInv
<1>1. Init => Inv
  BY InitTypeOK, InitCapacity, InitShape, InitWake
<1>2. Inv /\ [Next]_vars => Inv'
  BY StepTypeOK, StepCapacity, StepShape, StepWake
<1>3. Inv => NoMissedWakeup
  BY NoneMissed
<1> QED
  BY <1>1, <1>2, <1>3, PTL DEF Spec
=============================================================================
