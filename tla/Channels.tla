------------------------------ MODULE Channels ------------------------------
(***************************************************************************)
(* The tree of channels of the job runner (jobrunner/channels.py): each    *)
(* channel keeps a queue of jobs, those it has passed down to its parent   *)
(* (its running ones) and those that have failed.  A job is sent to Odoo   *)
(* when it is running in the root channel.                                 *)
(*                                                                         *)
(* The runner is the only one to touch the channels; the rows of the jobs  *)
(* are changed by others at any moment, and it learns of it later.         *)
(***************************************************************************)
EXTENDS Naturals, FiniteSets, Sequences, FiniteSetsExt

CONSTANTS
  Channel,     \* the channels
  Root,        \* the root channel
  Parent,      \* Parent[c]: the parent of each channel but the root
  Path,        \* Path[c]: c and the channels downstream of it, to the root
  PostOrder,   \* the channels in the order get_jobs_to_run leaves them
  Capacity,    \* Capacity[c]: 0 for an unlimited capacity
  Sequential,  \* the sequential channels
  Throttle,    \* Throttle[c]: seconds between two jobs of c, 0 for none
  Job,         \* the jobs
  ChannelOf,   \* ChannelOf[j]: the channel of j
  Rank,        \* Rank[j]: j's place by priority, date of creation and sequence
  Moves,       \* the pairs of states a row goes through by itself
  Delays,      \* the delays after which a job is retried, in seconds
  MaxTime      \* bound: the last second of the clock

ASSUME TreeAssumption ==
  /\ Root \in Channel
  /\ Parent \in [Channel \ {Root} -> Channel]
  /\ Path \in [Channel -> SUBSET Channel]
  /\ Path[Root] = {Root}
  /\ \A c \in Channel \ {Root} :
       Path[c] = {c} \cup Path[Parent[c]] /\ c \notin Path[Parent[c]]

ASSUME PathAssumption ==
  \A c \in Channel : \A d \in Path[c] : Root \in Path[d] /\ Path[d] \subseteq Path[c]

ASSUME PostOrderAssumption ==
  /\ PostOrder \in Seq(Channel)
  /\ \A c \in Channel : \E i \in 1..Len(PostOrder) : PostOrder[i] = c
  /\ \A i, k \in 1..Len(PostOrder) : PostOrder[k] \in Path[PostOrder[i]] => i <= k

ASSUME ConfigurationAssumption ==
  /\ Capacity \in [Channel -> Nat]
  /\ Sequential \subseteq {c \in Channel : Capacity[c] = 1}
  /\ Throttle \in [Channel -> Nat]

ASSUME JobAssumption ==
  /\ IsFiniteSet(Job)
  /\ ChannelOf \in [Job -> Channel]
  /\ Rank \in [Job -> Nat]
  /\ \A i, j \in Job : Rank[i] = Rank[j] => i = j

(* Only the runner enqueues jobs.                                          *)
ASSUME MovesAssumption ==
  \A m \in Moves : m[2] \in {"enqueued", "started"} => m[1] \in {"enqueued", "started"}

ASSUME BoundAssumption == Delays \subseteq Nat \ {0} /\ MaxTime \in Nat \ {0}

VARIABLES
  row,        \* row[j]: column state of j
  rowEta,     \* rowEta[j]: column eta of j, 0 for none
  notified,   \* the jobs with a notification to be processed
  now,        \* the clock
  jobEta,     \* jobEta[j]: attribute eta of the ChannelJob of j
  queue,      \* queue[c]: the jobs of c ready to run
  etaQueue,   \* etaQueue[c]: the jobs of c set aside until their eta
  running,    \* running[c]: the jobs c has passed down
  failed,     \* failed[c]: the failed jobs of c
  pauseUntil, \* pauseUntil[c]: end of the pause of a throttled channel, or 0
  phase,      \* where the runner is in its loop
  todo,       \* the channels get_jobs_to_run has not left yet
  wakeup,     \* the time wait_notification waits for, 0 for none
  lastYield   \* history: when each throttled channel last passed a job down

rowVars == <<row, rowEta, notified>>
placeVars == <<jobEta, queue, etaQueue, running, failed>>
vars == <<rowVars, now, placeVars, pauseUntil, phase, todo, wakeup, lastYield>>

States ==
  {"wait_dependencies", "pending", "enqueued", "started", "done", "cancelled", "failed"}

Busy == {"enqueued", "started"}

-----------------------------------------------------------------------------
(* Mutant: one job too many.                                               *)
OffByOneMutant(c) ==
  /\ c \in Sequential => failed[c] = {}
  /\ Capacity[c] = 0 \/ Cardinality(running[c]) <= Capacity[c]

(* Mutant: a failed job does not block a sequential channel.               *)
FailedIgnoredMutant(c) ==
  Capacity[c] = 0 \/ Cardinality(running[c]) < Capacity[c]

(* Channel.has_capacity: a sequential channel is blocked by its failed     *)
(* jobs, and a channel without a capacity has always room.                 *)
HasCapacity(c) ==
  /\ c \in Sequential => failed[c] = {}
  /\ Capacity[c] = 0 \/ Cardinality(running[c]) < Capacity[c]

(* The order of ChannelJob, for jobs without an eta and for jobs with one. *)
First(js) == CHOOSE j \in js : \A i \in js : Rank[j] <= Rank[i]

FirstEta(js) ==
  CHOOSE j \in js : \A i \in js :
    jobEta[j] < jobEta[i] \/ (jobEta[j] = jobEta[i] /\ Rank[j] <= Rank[i])

(* ChannelQueue.pop: the jobs whose eta is past lose it and join the       *)
(* others, and the first one leaves, unless the channel is sequential and  *)
(* the next job with an eta comes before it.                               *)
PastEta(c) == {j \in etaQueue[c] : jobEta[j] <= now}

ReadyJobs(c) == queue[c] \cup PastEta(c)

EtaJobs(c) == etaQueue[c] \ PastEta(c)

Pops(c) ==
  /\ ReadyJobs(c) # {}
  /\ c \in Sequential /\ EtaJobs(c) # {} =>
       Rank[First(ReadyJobs(c))] < Rank[FirstEta(EtaJobs(c))]

ForgetPastEtas(c) ==
  /\ etaQueue' = [etaQueue EXCEPT ![c] = EtaJobs(c)]
  /\ jobEta' = [j \in Job |-> IF j \in PastEta(c) THEN 0 ELSE jobEta[j]]

(* Mutant: the end of the pause of a channel is not waited for.            *)
PauseForgottenMutant ==
  LET asked == {c \in Channel : \A d \in Path[c] : HasCapacity(d) /\ pauseUntil[d] = 0}
  IN  UNION {{jobEta[j] : j \in etaQueue[c]} : c \in asked}

(* Channel.get_wakeup_time: the channel that is full asks for nothing, and *)
(* the one that is paused for the end of its pause only; neither asks the  *)
(* channels that flow into it.                                             *)
WakeupTimes ==
  LET asked == {c \in Channel :
                  /\ HasCapacity(c)
                  /\ \A d \in Path[c] \ {c} : HasCapacity(d) /\ pauseUntil[d] = 0}
  IN  ({pauseUntil[c] : c \in asked} \ {0}) \cup
      UNION {{jobEta[j] : j \in etaQueue[c]} : c \in {d \in asked : pauseUntil[d] = 0}}

-----------------------------------------------------------------------------
(* The places of the jobs in the channels, and Channel.remove of a job     *)
(* from the channels cs.                                                   *)
Places == [queue |-> queue, etaQueue |-> etaQueue, running |-> running, failed |-> failed]

Without(f, cs, j) == [c \in Channel |-> IF c \in cs THEN f[c] \ {j} ELSE f[c]]

With(f, cs, j) == [c \in Channel |-> IF c \in cs THEN f[c] \cup {j} ELSE f[c]]

Remove(p, cs, j) ==
  [queue |-> Without(p.queue, cs, j), etaQueue |-> Without(p.etaQueue, cs, j),
   running |-> Without(p.running, cs, j), failed |-> Without(p.failed, cs, j)]

SetPending(p, c, j) ==
  IF j \in p.queue[c] \cup p.etaQueue[c] THEN p
  ELSE LET q == Remove(p, Path[c], j)
       IN  IF rowEta[j] = 0 THEN [q EXCEPT !.queue = With(@, {c}, j)]
                            ELSE [q EXCEPT !.etaQueue = With(@, {c}, j)]

(* Mutant: the channels of the path below the root are not told.           *)
RootOnlyMutant(p, c, j) ==
  LET q == Remove(p, Path[c], j) IN [q EXCEPT !.running = With(@, {Root}, j)]

(* Channel.set_running goes down the path as far as a channel in which the *)
(* job is running already.                                                 *)
SetRunning(p, c, j) ==
  LET entered == {d \in Path[c] : \A b \in Path[c] :
                    d \in Path[b] => j \notin p.running[b]}
      q == Remove(p, entered, j)
  IN  [q EXCEPT !.running = With(@, entered, j)]

SetFailed(p, c, j) ==
  IF j \in p.failed[c] THEN p
  ELSE [Remove(p, Path[c], j) EXCEPT !.failed = With(@, {c}, j)]

(* ChannelManager.notify: a job whose eta has changed is taken out first;  *)
(* one that waits for its dependencies stays where it is.                  *)
Notified(j) ==
  LET c == ChannelOf[j]
      p == IF jobEta[j] = rowEta[j] THEN Places ELSE Remove(Places, Path[c], j)
  IN  CASE row[j] \in {"done", "cancelled"} -> Remove(p, Path[c], j)
        [] row[j] = "pending"               -> SetPending(p, c, j)
        [] row[j] \in Busy                  -> SetRunning(p, c, j)
        [] row[j] = "failed"                -> SetFailed(p, c, j)
        [] OTHER                            -> p

-----------------------------------------------------------------------------
(* The busy jobs of c and of the channels that flow into it.               *)
BusyIn(c) == {j \in Job : row[j] \in Busy /\ c \in Path[ChannelOf[j]]}

(* initialize_databases: every job that is not done is put in channels     *)
(* that hold none.                                                         *)
Load ==
  /\ phase = "load"
  /\ phase' = "notify"
  /\ LET In(c, s) == {j \in Job : ChannelOf[j] = c /\ row[j] \in s}
     IN  /\ queue' = [c \in Channel |-> {j \in In(c, {"pending"}) : rowEta[j] = 0}]
         /\ etaQueue' = [c \in Channel |-> {j \in In(c, {"pending"}) : rowEta[j] # 0}]
         /\ running' = [c \in Channel |-> BusyIn(c)]
         /\ failed' = [c \in Channel |-> In(c, {"failed"})]
  /\ jobEta' = rowEta
  /\ UNCHANGED <<rowVars, now, pauseUntil, todo, wakeup, lastYield>>

(* process_notifications reads the row of each job it is told of.          *)
Notify(j) ==
  /\ phase = "notify"
  /\ j \in notified
  /\ notified' = notified \ {j}
  /\ LET p == Notified(j)
     IN  /\ queue' = p.queue
         /\ etaQueue' = p.etaQueue
         /\ running' = p.running
         /\ failed' = p.failed
  /\ jobEta' = [jobEta EXCEPT ![j] = rowEta[j]]
  /\ UNCHANGED <<row, rowEta, now, pauseUntil, phase, todo, wakeup, lastYield>>

(* run_jobs begins; other notifications may be on their way.               *)
StartRun ==
  /\ phase = "notify"
  /\ phase' = "run"
  /\ todo' = PostOrder
  /\ UNCHANGED <<rowVars, now, placeVars, pauseUntil, wakeup, lastYield>>

(* Channel.get_jobs_to_run of c, once its children have been visited.      *)
Visits(c) == phase = "run" /\ todo # <<>> /\ c = Head(todo)

(* The channel is paused ...                                               *)
Skip(c) ==
  /\ Visits(c)
  /\ pauseUntil[c] > now
  /\ todo' = Tail(todo)
  /\ UNCHANGED <<rowVars, now, placeVars, pauseUntil, phase, wakeup, lastYield>>

(* ... or its pause is over ...                                            *)
Unpause(c) ==
  /\ Visits(c)
  /\ pauseUntil[c] \in 1..now
  /\ pauseUntil' = [pauseUntil EXCEPT ![c] = 0]
  /\ UNCHANGED <<rowVars, now, placeVars, phase, todo, wakeup, lastYield>>

(* Mutants: the wrong sign, and no pause.                                  *)
PauseBackMutant(c) == now - Throttle[c]

NoPauseMutant(c) == now

PauseEnd(c) == now + Throttle[c]

(* ... or it passes its first job down, to the queue of its parent or, if  *)
(* it is the root, to Odoo by set_job_enqueued, and makes a pause if it    *)
(* has a throttle ...                                                      *)
Yield(c) ==
  /\ Visits(c)
  /\ pauseUntil[c] = 0
  /\ HasCapacity(c)
  /\ Pops(c)
  /\ LET j == First(ReadyJobs(c))
     IN  /\ queue' = [d \in Channel |-> IF d = c THEN ReadyJobs(c) \ {j}
                       ELSE IF c # Root /\ d = Parent[c] THEN queue[d] \cup {j}
                       ELSE queue[d]]
         /\ running' = [running EXCEPT ![c] = @ \cup {j}]
         /\ row' = IF c = Root THEN [row EXCEPT ![j] = "enqueued"] ELSE row
         /\ notified' = IF c = Root THEN notified \cup {j} ELSE notified
  /\ ForgetPastEtas(c)
  /\ IF Throttle[c] > 0
     THEN /\ pauseUntil' = [pauseUntil EXCEPT ![c] = PauseEnd(c)]
          /\ lastYield' = [lastYield EXCEPT ![c] = now]
          /\ todo' = Tail(todo)
     ELSE UNCHANGED <<pauseUntil, lastYield, todo>>
  /\ UNCHANGED <<rowEta, now, failed, phase, wakeup>>

(* ... or it has no room, or no job to pass down.                          *)
Leave(c) ==
  /\ Visits(c)
  /\ pauseUntil[c] = 0
  /\ \/ ~ HasCapacity(c) /\ UNCHANGED placeVars
     \/ /\ HasCapacity(c) /\ ~ Pops(c)
        /\ queue' = [queue EXCEPT ![c] = ReadyJobs(c)]
        /\ ForgetPastEtas(c)
        /\ UNCHANGED <<running, failed>>
  /\ todo' = Tail(todo)
  /\ UNCHANGED <<rowVars, now, pauseUntil, phase, wakeup, lastYield>>

(* wait_notification: with no time to wake up at, select() waits for a     *)
(* notification, SELECT_TIMEOUT seconds at most.                           *)
Wait ==
  /\ phase = "run"
  /\ todo = <<>>
  /\ phase' = "wait"
  /\ wakeup' = IF WakeupTimes = {} THEN 0 ELSE Min(WakeupTimes)
  /\ UNCHANGED <<rowVars, now, placeVars, pauseUntil, todo, lastYield>>

Wake ==
  /\ phase = "wait"
  /\ notified # {} \/ wakeup <= now
  /\ phase' = "notify"
  /\ wakeup' = 0
  /\ UNCHANGED <<rowVars, now, placeVars, pauseUntil, todo, lastYield>>

(* The runner recovers from an error: close_databases empties the channels *)
(* but keeps their pauses.                                                 *)
Recover ==
  /\ phase' = "load"
  /\ notified' = {}
  /\ queue' = [c \in Channel |-> {}]
  /\ etaQueue' = [c \in Channel |-> {}]
  /\ running' = [c \in Channel |-> {}]
  /\ failed' = [c \in Channel |-> {}]
  /\ jobEta' = [j \in Job |-> 0]
  /\ todo' = <<>>
  /\ wakeup' = 0
  /\ UNCHANGED <<row, rowEta, now, pauseUntil, lastYield>>

-----------------------------------------------------------------------------
(* A worker or a user changes the row of a job; a worker that postpones a  *)
(* job gives it an eta.                                                    *)
Change(j) ==
  /\ \E s \in States :
       /\ <<row[j], s>> \in Moves
       /\ row' = [row EXCEPT ![j] = s]
       /\ \/ UNCHANGED rowEta
          \/ /\ row[j] = "started" /\ s = "pending"
             /\ \E d \in Delays : /\ now + d <= MaxTime
                                  /\ rowEta' = [rowEta EXCEPT ![j] = now + d]
  /\ notified' = notified \cup {j}
  /\ UNCHANGED <<now, placeVars, pauseUntil, phase, todo, wakeup, lastYield>>

(* The clock; get_jobs_to_run reads it once.                               *)
Tick ==
  /\ phase # "run"
  /\ now < MaxTime
  /\ now' = now + 1
  /\ UNCHANGED <<rowVars, placeVars, pauseUntil, phase, todo, wakeup, lastYield>>

Init ==
  /\ row = [j \in Job |-> "pending"]
  /\ rowEta \in [Job -> {0} \cup {1 + d : d \in Delays}]
  /\ notified = {}
  /\ now = 1
  /\ jobEta = [j \in Job |-> 0]
  /\ queue = [c \in Channel |-> {}]
  /\ etaQueue = [c \in Channel |-> {}]
  /\ running = [c \in Channel |-> {}]
  /\ failed = [c \in Channel |-> {}]
  /\ pauseUntil = [c \in Channel |-> 0]
  /\ phase = "load"
  /\ todo = <<>>
  /\ wakeup = 0
  /\ lastYield = [c \in Channel |-> 0]

Next ==
  \/ Load \/ StartRun \/ Wait \/ Wake \/ Recover \/ Tick
  \/ \E j \in Job : Notify(j) \/ Change(j)
  \/ \E c \in Channel : Skip(c) \/ Unpause(c) \/ Yield(c) \/ Leave(c)

Spec == Init /\ [][Next]_vars

-----------------------------------------------------------------------------
(* Every variable has its type.                                            *)
TypeOK ==
  /\ row \in [Job -> States]
  /\ rowEta \in [Job -> Nat]
  /\ notified \subseteq Job
  /\ now \in 1..MaxTime
  /\ jobEta \in [Job -> Nat]
  /\ \A f \in {queue, etaQueue, running, failed} : f \in [Channel -> SUBSET Job]
  /\ pauseUntil \in [Channel -> Nat]
  /\ phase \in {"load", "notify", "run", "wait"}
  /\ todo \in Seq(Channel)
  /\ wakeup \in Nat
  /\ lastYield \in [Channel -> 0..MaxTime]

(* The places of a job, as pairs of a channel and of a container.          *)
PlacesOf(j) ==
  {<<c, "queued">> : c \in {d \in Channel : j \in queue[d] \cup etaQueue[d]}}
    \cup {<<c, "running">> : c \in {d \in Channel : j \in running[d]}}
    \cup {<<c, "failed">> : c \in {d \in Channel : j \in failed[d]}}

(* The places a job may have when it is queued in its channel c or has     *)
(* been passed down to the queue of a channel below.                       *)
QueuedPlaces(c) ==
  {{<<d, "queued">>} \cup {<<e, "running">> : e \in Path[c] \ Path[d]} : d \in Path[c]}

(* The channels agree with every row whose notifications are processed: a  *)
(* pending job waits in one queue of its path and runs in the channels     *)
(* above it, a busy one runs in the whole path, a failed one is in its     *)
(* channel and nowhere else, whatever the order of the notifications, the  *)
(* passes of the runner and its restarts.                                  *)
PlacesAgree ==
  phase # "load" =>
    \A j \in Job \ notified :
      CASE row[j] = "pending" -> PlacesOf(j) \in QueuedPlaces(ChannelOf[j])
        [] row[j] \in Busy    -> PlacesOf(j) = {<<c, "running">> : c \in Path[ChannelOf[j]]}
        [] row[j] = "failed"  -> PlacesOf(j) = {<<ChannelOf[j], "failed">>}
        [] row[j] = "wait_dependencies" -> TRUE
        [] OTHER -> PlacesOf(j) = {}

(* In no channel of the tree are there more jobs enqueued or started, its  *)
(* own and those of the channels that flow into it, than it has capacity.  *)
TreeCapacity ==
  \A c \in Channel : Capacity[c] > 0 => Cardinality(BusyIn(c)) <= Capacity[c]

(* The step passes a job of c down.                                        *)
PassesDown(c) == phase = "run" /\ phase' = "run" /\ running'[c] # running[c]

(* A sequential channel passes no job down while another of its jobs that  *)
(* the runner knows of is enqueued, started or failed.                     *)
SequentialHeld ==
  [][\A c \in Sequential : PassesDown(c) =>
       \A j \in Job \ notified :
         ChannelOf[j] = c => row[j] \notin Busy \cup {"failed"}]_vars

(* A channel with a throttle passes two jobs down at least that many       *)
(* seconds apart, even if the runner has recovered from an error between.  *)
ThrottleRespected ==
  [][\A c \in Channel : PassesDown(c) /\ lastYield[c] # 0 =>
       now >= lastYield[c] + Throttle[c]]_vars

(* While the runner sleeps, with nothing notified and before the time it   *)
(* has asked to be woken up at, no job could be passed down to Odoo: one   *)
(* that is ready has a channel on its way that is full, paused or blocked. *)
NoMissedWakeup ==
  phase = "wait" /\ notified = {} /\ (wakeup = 0 \/ now < wakeup) =>
    \A c \in Channel :
      Pops(c) => \E d \in Path[c] : ~ HasCapacity(d) \/ pauseUntil[d] > now
=============================================================================
