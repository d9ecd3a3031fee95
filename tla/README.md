# A TLA+ model of the job queue of medio-odoo and of its webhook

This project models the parts of the repository whose correctness is hardest
to test: the job queue (`src/custom-addons/queue_job`), by which Odoo runs
work outside of the requests of its users, with the graphs of jobs, the
channels and the set-up around it; and the webhook of the chat provider
(`src/custom-addons/hey_now_integration`), whose events are stored by jobs of
this queue.  TLC checks small instances, and TLAPS proves the main safety
properties for every instance.

Paths below are relative to `src/custom-addons/queue_job/` unless they start
with `src/` or with `hey_now_integration/`.

## 1. The system and its parts

| part | state it keeps | operations | what makes it correct | models |
|---|---|---|---|---|
| tables `queue_job`, `queue_job_lock` (`models/queue_job.py`, `models/queue_job_lock.py`, `post_init_hook.py`) | a row per job; a row per job that was ever started, to be locked; the trigger that notifies each change | creation, changes of state, row locks, LISTEN / NOTIFY, autovacuum | a row is only overwritten by who knows its latest version; only jobs that are over are deleted | `QueueJobTable`, `Delay`, `JobSetup` |
| job runner (`jobrunner/runner.py`) | its connection, its channels, the requests in flight | connect and LISTEN, load, requeue the dead jobs, process notifications, run jobs, sleep, recover | it never forgets a busy job, keeps to the capacity, sees every change, leaves no job enqueued or started for ever | `JobRunner` |
| channels (`jobrunner/channels.py`) | a tree of channels: two queues each, the jobs passed down, the failed ones, the end of the pause; the channels by their names | configure, get by name, notify, get_jobs_to_run, get_wakeup_time, close | capacity of every channel, sequential channels, throttles, no ready job slept on, a job stays in its channel | `Channels`, `ChannelNames` |
| worker (`controllers/main.py`, `job.py`) | a transaction and its snapshot, the `Job` read from the row | start, lock, perform, done, postpone, fail, release the dependents | one worker at a time; effects committed only with the state; dependents released | `RunJob` |
| users (`models/queue_job.py`, `wizards/`) | none | set done, cancel, requeue | they may act at any moment | `QueueJobModel` |
| delayed jobs and graphs (`delay.py`, `job.py`) | delayables, chains and groups in memory, then rows | chain, group, on_done, split, delay, direct execution | what is stored is what was asked for; nothing but a failed job or a lost second transaction stops a graph; one job per identity key | `Delayables`, `Delay` |
| job functions and channel records (`models/queue_job_function.py`, `models/queue_job_channel.py`) | records, and a cache of the configuration of a function | create, write, unlink, lookups | the channels are a tree, unless one is moved below itself; the cache is not stale | `JobSetup` |
| webhook (`hey_now_integration/controllers/webhook.py`, `models/webhook_processor.py`, `models/payloads/heynow.py`, `models/services/heynow.py`) | one job per delivery | receive, accept or refuse, make an event of the payload, look for a duplicate, store the message, clean up | an event delivered twice is stored once, none is lost | `HeynowPayload`, `Webhook` |
| chat channels, partners, messages (`hey_now_integration/models/`) | records; `res_partner` has a unique constraint, `mail_channel` and `mail_message` have none | find or create, add members, post with attachments | one partner and one channel per sender, replies go to the last session | `Webhook` |
| serialization (`fields.py`, `exception.py`), start-up (`jobrunner/__init__.py`), the sending of replies to the chat provider, medio file formats, views | | | | none, see section 7 |

How they meet.  The runner and the workers share the tables and the GET
requests `/queue_job/runjob` only.  The runner writes `enqueued` and sends the
request without waiting for its answer; a worker takes the job if the row is
still `enqueued`; each change of a row is told to the runner by the trigger,
as a uuid; the runner reads the row again and calls `ChannelManager.notify`.
The program that delays a graph stores its rows in its own transaction; from
the commit on the runner knows them.  The controller of the webhook does just
that, one job per delivery, and the jobs meet in the tables of the chat.

What makes it hard:

- **Interleaving.** Odoo's cursors are REPEATABLE READ: a worker goes on with
  the snapshot of its first statement while others commit changes to the same
  rows.  Of two who insert, neither sees the other.
- **Delayed and duplicated requests and deliveries.** A request may come when
  the job was requeued, is performed already, or never; the provider may
  deliver an event as often as it likes.
- **Crashes.** A worker may be killed between any two of its transactions, the
  second of which releases the dependents of a job that is done; the runner may lose its connection at any moment.
- **Stale pictures.** The channels are as old as the last notification read;
  `depends_on` of a `Job` is cached; the configuration of functions too.
- **Errors caught within a transaction.** PostgreSQL has aborted it: the next
  statement fails with another error, which nobody retries.
- **Time.** The ten seconds of `requeue_dead_jobs`, etas, pauses, the sleep of
  the runner, the days of autovacuum.

## 2. The modules

| module | models | proofs about it |
|---|---|---|
| `WorkQueue` | abstract: what a job queue promises | |
| `QueueJobTable`, `JobRunner`, `RunJob`, `QueueJobModel` | tables, runner, worker, users | |
| `QueueJob` | their composition: requests, time, faults, fairness, properties, refinement of `WorkQueue` | `QueueJobSafety`, `QueueJobDependencies` |
| `Channels` | the tree of channels, with a runner that is told of changes late | `ChannelsSafety`, `ChannelsPlaces` |
| `ChannelNames` | names, configuration, jobs that change their name | `ChannelNamesSafety` |
| `Delayables`, `Delay` | objects before they are delayed; their delay, storing, direct execution and release | `DelaySafety` |
| `JobSetup` | records of channels and functions, the cache, autovacuum | `JobSetupSafety` |
| `HeynowPayload` | what the provider sends, and the event that is made of it | |
| `Webhook` | deliveries, their jobs, partners, channels, messages | `WebhookSafety` |
| `MC*` and their cfgs | the instances TLC checks | |

### QueueJob: one step per transaction

A variable has the name of the column or attribute it stands for.
`lockedBy[j]` is the transaction that holds the row of j in `queue_job_lock`;
`current[j]` is the set of transactions whose snapshot holds the latest
version of the row of j: an UPDATE by any other is a serialization error.
`Commit` is the end of a transaction: it notifies, and makes the snapshots
old.  A short transaction (a request of a user, `retry_postpone`,
`set_job_enqueued`) is one action; a request of a worker has as many as it has
transaction boundaries, waits and reads:

    runjob:   Start | Refuse          SELECT ... FOR UPDATE, set_started, commit
    lock:     LockRead, LockGrant     the snapshot, then FOR UPDATE, which waits
    perform:  PerformDone, StoreConflict, NothingToDoConflict, PerformRetry,
              PerformIgnoreRetry, PerformConflict, PerformError, PerformAbort
    errors:   Postpone, StoreFailed, Rollback
    depends:  ReadDependents, ReleaseDependents, DependentsConflict

The runner's actions are the calls of the loop of `run`, in their order.
`AgeStep` is the passing of the ten seconds of `requeue_dead_jobs`; unless the
fault "slow" is chosen it does not happen while a request is on its way, which
is what those seconds are meant for.  `Faults`, `UserOps` and `Outcomes`
choose what may happen.

`WorkQueue` knows nothing of rows, requests and notifications: tasks are taken
within a number of slots, performed by one server at a time, completed only if
still taken, and may be given back at any moment.  `QueueJob!KeepsPromise`
maps a taken task to a busy row, a performed one to a worker inside
`Job.perform`, and a completed one to a worker that has committed `set_done`.

### Channels: one step per job passed down

`queue[c]` and `etaQueue[c]` are the two queues of `ChannelQueue`, `running[c]`
and `failed[c]` the sets of `Channel`, `pauseUntil[c]` its `_pause_until`.  The
recursion of `get_jobs_to_run` over the children is the sequence `todo`, in
post-order; a job that is passed down goes to the queue of the parent, which
is visited later, and from the root to Odoo.  `Notified` is
`ChannelManager.notify`, which changes the places of the job in the whole path
to the root.  Rows change by the pairs of `Moves` at any moment, and the runner
reads them when it processes the notification.  `JobRunner` and `Channels`
overlap on purpose: the first has the root channel and everything around it,
the second all the channels and their time, with the rest reduced to changes
of rows.

`ChannelNames` is `ChannelManager` before there is a channel: the names of a
configuration, the path `get_channel_by_name` creates, its fallback on the
nearest configured ancestor, followed by all the labels of the name, and
`notify` of a job whose name has changed.

### Delay: one step per call of the program

A program builds objects (`MakeChain`, `MakeGroup`, `ConnectOnDone`,
`SplitMethod`) in any order and calls `Delay` on one that nothing contains;
`ConnectGraphs` is `_connect_graphs` and `Ends` is `_head` and `_tail`, both over
what is reached from an object (`Visited`, `Reachable`, the stack of graphs that
`_connect_graphs` walks).  `Closure` and `Reachable` are defined as the least
sets with their property and not by recursion, so that they can be reasoned
about.  The transaction sees its snapshot: an existing job with
the identity key (`UseExisting`) drops the graph.  `PerformDirect` is
`_execute_graph_direct` along `topological_sort`.  What all of this is compared
with, `Required`, is defined from the structure of the objects alone.  There are as many uuids of graphs (`GraphUuid`) as there may be
calls, for each call may make a new one.

After the `Commit` the workers perform what is ready, in the two transactions
of `runjob`.  The first one ends in `PerformDone` or `PerformFails`; a job that
is done owes the second (`second[l] = "due"`), which reads the children to be
released (`ReadDependents`, kept in `releases[l]`) and updates them
(`ReleaseDependents`), unless another worker has updated one of them since: then
`_enqueue_dependent_jobs` repeats the update in the aborted transaction and
gives up (`DependentsConflict`).  Between any two of these steps the worker may
be killed (`WorkerCrash`).  After either of the last two the second transaction
is lost for good.

### JobSetup

Channels, functions, new jobs, changes of state and days are one transaction
each.  A rename or a move of a channel computes its complete name again, and
those of all the channels below it, each after its parent (`Recomputed`).
`write` accepts a parent that is below the channel; the channels then form a
cycle, one of them is computed before its parent, and which one that is depends
on the cache of the ORM: it is any of them in the model.  A new job takes its channel through the cache of `job_config`, which
every `write` of a function clears and a rename of a channel does not.
`Autovacuum(c)` deletes by the dates of the jobs and the name of the channel.

### Webhook: one step per statement that may fail or wait

`seen[d]` is the snapshot of the job of the delivery d, `own[d]` what it has
written and locked, and `stale[d]` the rows of its snapshot that others have
written since.  From these the outcome of each statement follows: a row that
is locked by another is refused at once where the code says NOWAIT and waited
for otherwise, a row that is stale is a serialization error, and a sender that
is there by now violates the unique constraint.  Where the code catches the
error, the job fails at the next statement (`Fail`); where it does not, the job
is postponed (`Postpone`).  `Finish` makes everything visible at once.

`HeynowPayload!Extract` makes an event of a payload, any key of which may be
missing: a message without an identifier has none to be found by, one that does
not say that it is incoming is skipped, and the number of the kind of channel
becomes a label, which `Valid` looks for among those the provider's
configuration allows.  `FindChannel` adds the members that are missing
(`joined`) from its snapshot; if another job has inserted them since
(`MemberInserted`), the unique constraint is violated, and nobody retries that.
Each file with an address or with data may become an attachment (`Attachments`),
or be left out when it cannot be fetched.

## 3. What TLC checks

| run | instance | distinct states | what it shows |
|---|---|---|---|
| `lock` | 1 job, 2 workers, every operation of users, conflicts, aborted transactions, crashes, slow requests | 957,000 | one worker at a time performs a job; `done` is committed only over a started row; a job that is performed is never found dead; a job that is over is only brought back by a requeue or by who is late; the queue implements `WorkQueue` |
| `graph` | a group of 2 jobs before a third, 3 workers, capacity 1, a job retried for ever, failures resolved by users, restarts, lost requests | 205,000 | a job starts only after its parents; no child is forgotten; rows and performed jobs keep to the capacity; the channels agree with the rows; etas |
| `live` | 1 job, 2 workers that may be killed, requeues | 156,000 | under fairness no job stays started or enqueued for ever |
| `tree` | 3 levels of channels of capacity one, 3 jobs, every change of state | 187,000 | the places of a job agree with its row; no channel has more busy jobs than capacity |
| `time` | a sequential channel of 2 jobs and a throttled one, failures at any moment, clock up to 3 | 1,238,000 | blocking, throttles across recoveries, no ready job slept on |
| `names` | 3 jobs, 7 names, every configuration of one or two of them, reconnections and restarts | 131,000 | a job stays in its channel and counts for the limits of its name, as long as no label repeats |
| `delay` | 3 delayables, 2 chains or groups, 4 calls, an identity key that another job may have; workers that fail, conflict or are killed between their two transactions | 447,000 | what is stored or performed at once is what was asked for; a child is released after its parents, and waits longer only for a second transaction; when nothing is left to do, what is not done comes after a job that failed or whose second transaction was lost; one job per identity |
| `setup` | 2 channels beside root, a function, a job, 6 names, intervals of 1 and 2 days | 267,000 | the channels stay a tree unless one is moved below itself, the cache is stale after a rename only, autovacuum deletes what is over, all of it and nothing else |
| `webhook` | 3 deliveries of 6 payloads, 4 of which are accepted, 1 sender who may be known, members who may be missing, 1 or 2 jobs at a time, a reply, clean-ups | 459,000 | what is stored agrees with what was done; stored once, one channel, last session in the cases named there; every delivery is dealt with |
| `lost_dependents`, `chain_order`, `webhook_lost` | | | see section 6 |

**Bounds.**

- Two workers are enough for the races on one job: the lock row and the
  snapshots only tell "me" from "another one"; three are there where three
  jobs are at work.  One request in flight per job (`MaxInFlight`) still makes
  duplicates, since a job may be requeued while it is performed or after its
  request was served.  `retry` saturates one above `max_retries` (`Bump`),
  because the code only compares the two.
- Three channels on a path and two side by side give a channel whose parent is
  not the root, and siblings that compete.  `MaxTime` is 3 with a throttle of 2
  and a delay of 1, so that a pause begins, ends and begins again, and etas
  fall before, within and after one.  The root and the sequential channel have
  capacity one, so that a job passed down by the sequential channel waits for
  the root while another job fails; the throttled channel has no limit, which
  leaves its pause alone to hold it.
- The names are below, beside and within each other, and one has a label
  twice; two configured names are enough for a fallback to find the nearer of
  two ancestors.
- Three delayables in two boxes of up to two members nest a chain in a chain
  or a group, connect members, and split one of them (`Records` = 3 in batches
  of one to three, or none).  `MaxCalls` is 4: two boxes, a connection or a
  split, and `delay`.  After the commit neither what follows nor the properties
  depend on the program's objects, and the view `Lasting` leaves them out.
  `chain_order` has a fourth delayable, for a chain in a chain after another
  job, and one delay of everything at the end (`OneDelay`).
- Days are counted up to the longest interval (`MaxDays`): only the comparison
  counts.  `SomeNames` are names below and beside each other, some with the label
  of root, and one that only a channel moved below itself gets.
- Three deliveries are two of one event and one of another of the same sender,
  or three of one.  Of the payloads two are refused, one is skipped, one has no
  sender, and one has two files, one of them with neither address nor data.  Two
  jobs at a time are the races on every row, the third one comes after them.
  One reply (`MaxReplies`) is enough to make a channel stale.

`delay`, `setup` and `webhook` (and their violations) say CHECK_DEADLOCK
FALSE: their programs, days or deliveries come to an end.

**Fairness.**

- `live` and `lost_dependents` (`QueueJob!Fairness`).  The loop of the runner
  goes on (weak fairness of its step), and `process_notifications` drains the
  list it finds before it goes on, hence strong fairness of each notification.
  A worker that has begun a request goes on, its method is assumed to end, and
  PostgreSQL grants a row lock in the order of the requests, hence strong
  fairness of `LockGrant`.  A request that is not lost is served when a worker
  is free, but workers may be busy with others again and again, hence strong
  fairness of `Serve`.  Time passes.  Nothing is assumed of users, of faults,
  or of how a method ends.
- `webhook`: weak fairness of the job of each delivery.  The queue starts a
  pending job when there is room, and a worker goes on with its job; nothing
  is assumed of deliveries, replies and clean-ups.  (That the queue does so is
  what `QueueJob` is about; a capacity that is always taken by others cannot
  occur with finitely many deliveries.)
- `setup`: days pass and the cron runs, with weak fairness.

**Where properties have conditions,** TLC finds them false without:

- `StoredOnce`: two jobs at a time for a sender without a channel may store an
  event twice, since neither `mail_message.message_id_provider_chat` nor
  `mail_channel.external_channel_id` is unique.  In a channel that was there
  before, each post updates the members of the channel, and so the second
  transaction has to start again: an accident that works.
- `OneChannelPerSender`: for a partner who exists and has no channel, two jobs
  at a time create two.  `res_partner` has UNIQUE(provider_user_id), so that
  for a new partner the second transaction fails.
- `BroughtBackOnlyLate`: a job that is done or cancelled is brought back not only
  by users who requeue it.  A runner whose channels are late enqueues a job that
  a user has just set to done, for `set_job_enqueued` does not look at the state;
  a worker that had started it stores a postponement or a failure over it.  The
  property names these three, and says that the runner no longer does once it
  has processed the notification, and that nothing else ever does: not
  `requeue_dead_jobs`, not a request that comes late, not a parent's release of
  its dependents.
- `PerformedWithinCapacity` and others of `graph` are about what the program does
  by itself: users who requeue break them.  So does a requeue into
  `wait_dependencies` of a job that is in its queue: the runner enqueues it all
  the same (section 6), and no property excludes it.
- `GraphGoesOn`, `DependentsLinked`: a worker that is killed before its second
  transaction, or whose second transaction conflicts, leaves the children
  waiting.  The properties say that only this, and failures, can do so.
- `ChannelsStayATree`: `write` does not look for cycles, and a channel that is
  moved below itself leaves the tree with all that is below it.
- `StaysInItsChannel`, `LimitsOfItsName`: with repeated labels the fallback
  gives names that collide.  With `root.sub` configured, `root.sub.foo` is
  given `root.sub.sub.foo`, which counts for a configured `root.sub.sub`; a
  job of `root.a.a.c` moves each time it is notified.
- `StaleByRenameOnly`: a rename of a channel leaves the old name in the cache,
  for `complete_name` of a function is a stored related field that is
  recomputed without `write` (`models/queue_job_function.py:174`).
- `OverJobsDeleted`: jobs of a channel that was renamed, or that has no
  record, are never deleted.  The property is about one channel, which keeps its
  name: two channels that are moved below each other in turn may exchange a name
  for ever, so that the job always has a channel and autovacuum never meets it.

## 4. What TLAPS proves

Every theorem holds for every value of the constants that satisfies the named
ASSUMEs of the modules; those are finiteness, types, and that "no job" and the
like are none of the things they stand beside.

### The queue (`QueueJobSafety`)

For every graph of dependencies, every number of jobs and workers, every
capacity, faults, outcomes and operations of users:

| theorem | property | argument |
|---|---|---|
| `TypeCorrect` | `TypeOK` | one lemma per component and per helper |
| `MutualExclusionHolds` | `MutualExclusion` | `LockInv`: who performs a job holds its lock row; FOR UPDATE grants it when nobody does, and all that frees it leaves `perform` |
| `PerformedNotDead` | `NotDeadWhilePerformed` | `LockInv` and the FOR UPDATE SKIP LOCKED of `requeue_dead_jobs` |
| `DoneOverStarted` | `DoneOnlyWhileStarted` | `SnapshotInv`: a snapshot that is current shows the started row, since every commit of another state makes it old |
| `CapacityHolds` | `CapacityRespected` | `BusyKnownInv`, `PlacesInv`: a loaded runner has a running place for every busy row and no more places than capacity; only the runner makes a row busy; a restart begins with the busy rows |
| `RunnerKnowsRows` | `RunnerAgrees` | `ListenInv`: from LISTEN on every change is notified, and LISTEN comes before the load |
| `OnlyLateBringBack` | `BroughtBackOnlyLate` | the runner enqueues a job it has in its queue, which by `RunnerAgrees` is over only if a notification is there to be processed; a release of a child succeeds only in a snapshot that is current, where the row that was read still waits (`DependentsInv`); requests and `requeue_dead_jobs` look at the state they find |

`MutualExclusion` and `CapacityRespected` are not inductive: nothing in them
says why a second worker cannot enter or why the runner does not count too
few, which is what the strengthenings add.

### The queue implements WorkQueue (`QueueJobSafety`)

`PromiseKept == Spec => KeepsPromise`.  Each action maps to one of
`WorkQueue` or to a stutter; what has to be argued is that `Take` finds a free
slot (`BusyKnownInv` and the guard `HasCapacity` of the runner), `Begin` nobody
performing (`LockInv`), and `Complete` the task still taken (`SnapshotInv`).
All else gives tasks back.

### Graphs (`QueueJobDependencies`)

For every graph, under the assumption `Unattended`: users only set failed jobs
to done, requests are not slow, and methods meet no error of the database.
Restarts of the runner, lost requests and killed workers are allowed.

| theorem | property |
|---|---|
| `DependenciesHold` | `DependenciesRespected` |
| `EtaHolds` | `EtaRespected` |
| `PerformedHolds` | `PerformedWithinCapacity` |
| `NoChildForgotten` (with `OneChild`, and no killed worker) | `NoForgottenDependent` |
| `OnItsWayNotDead` (requests not slow, whatever else happens) | `NotDeadBeforePerformed` |

The invariant is `GraphInv`.  A started job has one owner, the worker that has
started its row (`OwnerInv`), and nobody else writes this row: the runner
finds dead only jobs that are old and unlocked, which an owned job is not
(`WayInv`, `HeldInv`); it enqueues only pending jobs (`QueuedInv`); a snapshot
taken by the owner therefore stays current (`FreshInv`); and a row that
`enqueue_waiting` writes still waits or its update fails (`ReleaseInv`).  What
left `wait_dependencies` had its parents done, and those stay done
(`ParentsInv`).  `OneChild` (no job is before two others) is needed for
`NoForgottenDependent`: without it TLC finds a forgotten child, see
`lost_dependents`.

### Channels (`ChannelsSafety`, `ChannelsPlaces`)

For every tree of channels, given by `Parent` and by the paths to the root,
every capacity, throttle and order of the jobs, and rows that change in any way
but by becoming busy (`MovesAssumption`: only the runner enqueues):

| theorem | property | argument |
|---|---|---|
| `ChannelsTypeCorrect` | `TypeOK` | among others, the time to wake up is the least of a set of naturals, which has one |
| `CapacityRespected` | `TreeCapacity` | a queued job runs in the channels it has left (`QueuedInv`), so that when the root passes it to Odoo it runs in its whole path; every busy row does (`BusyRunningInv`); a channel lets in no more than its capacity (`RunningInv`) |
| `SequentialChannelsHeld` | `SequentialHeld` | the same, and a failed row whose notification is read is in `failed` (`FailedInv`) |
| `ThrottledChannelsPause` | `ThrottleRespected` | the pause is on, or its time is over (`ThrottleInv`) |
| `PlacesAgreeWithRows` | `PlacesAgree` | a job has one of four shapes, nowhere, queued at one channel of its path and running above it, running in its whole path, or failed; each branch of `notify` and each job passed down leads from shape to shape and leaves those of the others alone (`ShapeInv`) |
| `WakesUpInTime` | `NoMissedWakeup` | a pass leaves each channel it has visited settled, and a visit upstream comes before those downstream (`TodoInv`, `SettledInv`); the time to wake up is the least of the pauses and of the etas that are queued (`WakeupInv`), and no other moment unsettles a channel |

### The webhook (`WebhookSafety`)

For any number of deliveries, events, senders and jobs at a time.  An
identifier is assumed to be that of one sender's message
(`IdentifierAssumption`).

| theorem | property |
|---|---|
| `TypeCorrect` | `TypeOK` |
| `DoneIsStored` | `DoneMeansStored` |
| `EventsStoredOnce` | `StoredOnce` |
| `NoSecondChannel` | `OneChannelPerSender` |
| `SessionIsLast` | `RepliesToLastSession` |
| `OneByOneLosesNothing` | `NothingLostOneByOne` |

The invariant `IInv` says what a job has written at each of its places
(`LocalInv`), how its snapshot differs from the tables (`SnapshotInv`: a
message it does not see is in a channel that is stale for it, a message it
sees may have gone but one with its identifier has not), what it holds
(`HeldInv`: a channel it has written is not stale, and no other job has written
it), what the tables are (`TableInv`), and that with one job at a time the
snapshot is the table, its channels with their members and metadata included
(`AloneInv`).  `StoredOnce` then goes: a second message
with the identifier would have made the channel stale, and the job that posts
has written it; `RepliesToLastSession`: a job that does not write the metadata
has read them right, and the channel is not stale, so that they still are.

### Names of channels (`ChannelNamesSafety`)

For every set of names over any labels, every configuration, and notifications
of any jobs under any names, in any order:

| theorem | property |
|---|---|
| `ChannelKept` | `StaysInItsChannel` |
| `LimitsKept` | `LimitsOfItsName` |

The channels that are there make a tree from root (`Rooted`), and keep the
capacity they are configured with (`ConfigKept`).  A name is *settled* once it has
been resolved: it has a channel, or an ancestor other than root has one.  The
argument is that no notification adds a channel on the path of a settled name
whose labels do not repeat (`NotifyStable`): the path that a fallback creates is
that of the ancestor followed by all the labels of the other name, and all of
its prefixes that are new have a label twice (`FallbackRepeats`), which no prefix
of a plain name has (`NothingAdded`).  What a name resolves to therefore stays
the same, whichever channels the names of other jobs create.

### Graphs of delayed jobs (`DelaySafety`)

For any delayables, chains and groups, built, nested, connected, split and
delayed in any order, with `MaxCalls` calls, any number of records and any size
of boxes; `Leaf` and `GraphUuid` are finite, and there is a uuid for each call.

| theorem | property | argument |
|---|---|---|
| `StoredAsAsked` | `GraphStoredAsAsked` | what the rows depend on grows by the edges of each graph that is stored and by nothing else (`DependsOnStored`); by `PlainRequired` these are what the objects ask for, up to transitivity, as long as what is connected has the end it is connected by where it should be (`Plain`, `FlatEnds`) |
| `PlainRequired` | | the graph `_connect_graphs` makes of plain shapes: any job of an object is reached from a head and reaches a tail of it within the graph (`AllSpread`, along the members), so that each step of a chain and each `on_done` orders all jobs on its two sides (`OrderBefore`); and an edge is only made where there is such a step (`EdgesInOrder`) |
| `DependentsStayLinked` | `DependentsLinked` | a row is as its job in memory is (`JobsInv`) and a graph gives one uuid to all its jobs (`SameUuidRules`), those included that had been stored with it already (`StoreLinks`); a second transaction belongs to a job that is done, and what it has read to be released has no parent that is not done (`WorkInv`), so that no step of a worker releases a child too early or leaves one waiting that nobody owes a release (`WorkKeepsRows`) |
| `JobsDoneInOrder` | | what a row depends on is done before it is released, and "stored, and done before" is transitive; so it holds of all that is asked for, which is the least such order on the rows (`StoredAsAsked`) |
| `GraphsGoOn` | `GraphGoesOn` | what a row depends on is asked for (`RowsInv`), and what is asked for has no cycle (`OrderInv`); so of the jobs before a waiting one there is a first that is not done (`FirstOf`): it failed, or it waits for parents that are all done, one of which has lost its second transaction by `DependentsLinked` |
| `DirectOrder` | `DirectInOrder` | the invariant of `topological_sort` (`Sorting`): the queue has the vertices that are not yielded while all their parents are, `depends_per_node` counts the edges from the others, and a vertex is yielded after its parents |
| `OnePerIdentity` | `OneJobPerIdentity` | the jobs with the key that a transaction sees are at most one, as long as it stores single jobs (`IdentityInv`) |

All of them rest on the invariant `Delayed`: what the objects are (`Objects`:
the graph of an object is given by its members and by what was connected to it,
and no object is inside itself, which is said by a rank), the order they ask for
(`OrderInv`: it has no cycle, through all objects together), the rows (`Rows`),
and what the workers owe (`WorkInv`).  `Ranked` and `OrderInv` are what makes the recursion of `_head` and
`_tail` and the walk of `_connect_graphs` end; they follow from what is assumed
of programs (section 7): a delayable is a member of one box, which is built
after it, and no cycle is asked for.  A delayable of `split` is new
(`FreshOrder`).  Sets of edges that are built up step by step, by dictionaries of
sets, are compared pointwise throughout.

### Channels and functions (`JobSetupSafety`)

For every set of names with root among them, every finite set of intervals, and
any number of records, functions and jobs:

| theorem | property | argument |
|---|---|---|
| `TreeUnlessMovedBelowItself` | `ChannelsStayATree` | below a channel that is not moved below itself there is no cycle: the names below it are computed again, each from that of its parent (`BelowLeast`, `RenameRows`), and all others have a parent whose name stays (`RenameKeepsTree`); a channel that is deleted has none below it |
| `OnlyOverJobsDeleted` | `DeletedWhenOver` | a job that is to run has no date (`DatedWhenOver`) |
| `OnlyRenamesMakeStale` | `StaleByRenameOnly` | every change of a function clears the cache, what is read is what the database has, and a channel that a function has cannot be deleted |

### Only model-checked

The liveness properties, `StartedIsLeft`, `EnqueuedIsLeft`, `Processed` and
`OverJobsDeleted`, which are out of the prover's reach: they hold under fairness
only.  Every other property of the runs that pass is stated by a theorem above;
those of the runs that expect a violation are false.

## 5. Hazards

`PROJECT.json` lists what can go wrong in this code and is hard to test, each
at its line, with the properties that would show it.  Without a property are:

- a lost request for a job that no worker has started (`jobrunner/runner.py:222`)
  and a queued job that goes back to `wait_dependencies`
  (`jobrunner/channels.py:1037`): the code goes wrong there, see section 6;
- the cached parents of a job that is postponed (`job.py:861`): they differ from
  the rows only when a parent is requeued, which the runs with parents exclude;
- the race of a worker's commit within the statement of `requeue_dead_jobs`
  (`jobrunner/runner.py:371`): a statement is one step;
- the write skew of a user's requeue of a child and the end of its last parent
  (`models/queue_job.py:317`): an operation of a user is one step;
- grandchildren of a cancelled job (`job.py:635`), jobs of several identity keys in
  one graph (`delay.py:287`), and what else section 6 lists as observed.

## 6. Where the code and its documentation differ

| run | property | what TLC finds |
|---|---|---|
| `lost_dependents` | `DependentsReleased` | j1 and j2 come before j3, and j2 before j4. j1 and j2 are done together, both workers release j3, and the update of the second one is a serialization error. `_enqueue_dependent_jobs` (`controllers/main.py:48-73`) repeats it in the same transaction, which PostgreSQL has aborted, and gives up: j4 waits for ever. Nothing has failed, nobody has interfered |
| `chain_order` | `ChainsInOrder` | `DelayableChain._head` (`delay.py:331`) is the tail of the first member, and `_tail` the head of the last one, so that a chain of two jobs that is the first or the last member of a chain is connected by its inner end: of `x.on_done(chain(chain(a, b), c))` the job b waits for x, and a for nothing, so that a may run before x. (`chain(a, chain(b, c))` by itself is stored right: no end of the outer chain is used, and the inner one is connected by b.) |
| `webhook_lost` | `NothingLost` | with two jobs at a time for one sender, the partner is locked by the other one; the code catches the error (`hey_now_integration/models/res_partner.py:64`) and searches in the aborted transaction, whose error is not one that is retried: the event is lost. It is lost too when both jobs add a missing member to the channel, and the second one violates a unique constraint |

`PROJECT.json` quotes the lines the code disagrees with.  The default capacity
of the deployment is `root:1`, one job at a time, with which the last of these
cannot happen (`OneByOneLosesNothing`).

Observed with TLC in other instances, and recorded with the hazards:

- the only request for a job is lost before a worker has started it: there is no
  lock row yet, the job is never found dead and stays enqueued
  (`jobrunner/runner.py:222`);
- a worker killed between the commit of `done` and its second transaction leaves
  the children waiting (`controllers/main.py:155`);
- a job that a user has set to done or cancelled is performed again when the
  runner was about to enqueue it (`jobrunner/runner.py:317`), or when its worker
  postpones it (`controllers/main.py:82`);
- a channel that is moved below itself is accepted, and the channels of the
  cycle get names that are those of no path (`models/queue_job_channel.py:32`);
- a queued job that is requeued into `wait_dependencies` is left in its queue, and
  enqueued although its parents are not done (`jobrunner/channels.py:1037`); if it
  had failed, it goes on blocking its sequential channel;
- a job with `max_retries = 0`, "infinite retries", fails once its worker has
  been killed twice (`jobrunner/runner.py:347`);
- in a sequential channel a job overtakes one of higher priority whose eta is
  later (`jobrunner/channels.py:318`);
- a job requeued while it is performed may be performed again beside one that
  took its place: rows keep to the capacity, performed jobs do not;
- with requests slower than ten seconds a job may be found dead just before it
  is performed; it is then started again, and the lock decides;
- a job that is requeued each time it is performed, for longer than the delay of
  the retries after a conflict, never ends.

Read in the source while modelling: the trigger does not notify the deletion of
a job that is done, so that the runner would keep one it still had;
`readme/ROADMAP.rst` says that stale jobs are not restarted, `CONFIGURE.rst`
that they are; `HeynowProvider` leaves an abstract method out and cannot be
made, so that replies are never sent.

## 7. Not modelled

- One database and one runner.  With several runners, one holds the master lock
  and the others wait; a recovery of the runner stands for a take-over.
- `retry_postpone` and the storing of a failure always succeed; in the code they
  can meet a serialization error too, which ends the request.
- In `QueueJob` the jobs and their graph are there from the beginning (`Delay`
  has their creation), and their channel is the root (`Channels` has the tree).
- Changes of the priority of a queued job; the lazy removal of `PriorityQueue`,
  whose queue is taken as a set with a least element.
- A restart of the runner's *process* forgets the pauses of the channels;
  `Channels!Recover` is the recovery within the process (`close_databases`),
  which keeps them.
- `select()` returns after SELECT_TIMEOUT or later; `Wake` may happen whenever
  the code allows it, and `get_jobs_to_run` reads the clock once, so that no tick
  falls within a pass.
- The retry pattern (`job.py:910-925`) and related actions; the deprecated forms
  of `with_delay` (`models/base.py`); the JSON of arguments (`fields.py`); the
  start-up of the runner: pure functions and operating system work.
- In `Webhook`: names, texts, HTML and MIME types; how a file is downloaded (it is
  fetched or not); changes of the provider's configuration; sending replies to
  the provider; and what follows an error in the creation of a channel
  (`hey_now_integration/models/mail_channel.py:180-196`), where no statement of
  the model fails.
- In `Delay`, users do nothing to the jobs of the graph, and a job that is started
  or postponed is one that is pending: `QueueJob` has both.
- In `JobSetup`: the writes to the root channel and the channels without a name
  that the installation of a module may make.
- In `Delay`: programs that give a delayable to two chains or groups, or ask for
  a cycle; the code expects neither.  A graph whose jobs exist already is not
  delayed a second time.
- The medio addon: fixed-width lines from the rows of a sheet, a pure function.
- Log messages, the chatter, texts of exceptions, views, migrations, tests.

## 8. Plan

Done: the queue with its refinement of `WorkQueue`; channels, names, graphs and
set-up; the webhook; and a proof of every safety property that the runs check.

What would come next:

1. `Channels` with one channel shown to implement the root channel of
   `JobRunner`, by a refinement that is checked and then proved.
2. `PriorityQueue` (`jobrunner/channels.py:17-102`): the heap with lazy removal
   shown to implement a set with a least element, and what happens to a job that
   is removed and added again with another eta.
3. The operations of users in two steps, for the write skew of a requeue and the
   end of a parent, and the statement of `requeue_dead_jobs` in one step per row.
4. `NoChildForgotten` without `OneChild`, under another condition: that no two
   workers end at a time.
5. The retry pattern and the fixed-width lines as operators over bounded inputs.
