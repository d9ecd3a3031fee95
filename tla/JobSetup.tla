------------------------------ MODULE JobSetup ------------------------------
(***************************************************************************)
(* Channels and functions of jobs as users set them up (queue.job.channel  *)
(* and queue.job.function), the channel a new job gets from them, and the  *)
(* cron that deletes the jobs that are over, each channel's after the days *)
(* it says.                                                                *)
(*                                                                         *)
(* A complete name is the sequence of its labels.  Each action is a        *)
(* transaction.                                                            *)
(***************************************************************************)
EXTENDS Naturals, Sequences, FiniteSets, SequencesExt

CONSTANTS
  Job,      \* the jobs
  Label,    \* the names of channels, without their parents
  RootLabel, \* "root"
  Name,     \* the complete names of channels
  NoName,   \* not a name
  Record,   \* the records of channels, but for the one of root
  RootRecord,
  Function, \* the job functions: the methods that are delayed
  NoRecord, \* the function has no record, or the channel has no parent
  Interval, \* the removal intervals, in days
  NoDate

VARIABLES
  record,   \* queue_job_channel: name, parent_id, complete_name and removal_interval
  function, \* queue_job_function: function[f] is channel_id, or NoRecord
  cache,    \* cache[f]: the channel that job_config(f) has in the cache, or NoName
  job       \* queue_job: channel, state and the days since the dates, of each job

vars == <<record, function, cache, job>>

Root == <<RootLabel>>

ASSUME NameAssumption ==
  RootLabel \in Label /\ Root \in Name /\ Name \subseteq Seq(Label) /\ NoName \notin Name

ASSUME RecordAssumption ==
  /\ RootRecord \notin Record /\ NoRecord \notin Record \cup {RootRecord}
  /\ Interval # {} /\ IsFiniteSet(Interval) /\ Interval \subseteq Nat /\ NoDate \notin Nat

(* Bound: the days that are counted after a date. *)
MaxDays == CHOOSE d \in Interval : \A i \in Interval : i <= d

(* A table, or what is read of one, with a row more. *)
With(table, k, row) ==
  [x \in DOMAIN table \cup {k} |-> IF x = k THEN row ELSE table[x]]

-----------------------------------------------------------------------------
(* Records of channels.                                                    *)

Names(r) == {r[c].complete_name : c \in DOMAIN r}

(* name_uniq *)
Unique(r) == \A c, d \in DOMAIN r : r[c].complete_name = r[d].complete_name => c = d

(* create: a channel needs a parent. *)
CreateChannel(c, l, q, i) ==
  /\ c \notin DOMAIN record /\ q \in DOMAIN record
  /\ LET n == Append(record[q].complete_name, l)
     IN  /\ n \in Name \ Names(record)
         /\ record' = With(record, c, [name |-> l, parent_id |-> q, complete_name |-> n,
                                       removal_interval |-> i])
  /\ UNCHANGED <<function, cache, job>>

(* create of a channel that is there, as a module is installed, or write: *)
(* the interval changes.                                                  *)
SetInterval(c, i) ==
  /\ c \in DOMAIN record
  /\ record' = [record EXCEPT ![c].removal_interval = i]
  /\ UNCHANGED <<function, cache, job>>

(* c and the channels below it, in r. *)
Below(r, c) ==
  {d \in DOMAIN r :
     \A S \in SUBSET DOMAIN r :
       c \in S /\ (\A x \in DOMAIN r : r[x].parent_id \in S => x \in S) => d \in S}

Named(r, new) ==
  [c \in DOMAIN r |-> IF c \in DOMAIN new THEN [r[c] EXCEPT !.complete_name = new[c]] ELSE r[c]]

ThisOnlyMutant(r, c) ==
  {Named(r, [d \in {c} |-> Append(r[r[c].parent_id].complete_name, r[c].name)])}

(* _compute_complete_name of c and of those below it, each after its       *)
(* parent.  If c has been moved below itself, the first channel of the     *)
(* cycle to be computed asks for its parent's name, and so all round: the  *)
(* one that asks for the name of the first, last, gets the old one.        *)
Recomputed(r, c) ==
  LET D == Below(r, c)
      Closing == IF r[c].parent_id \in D THEN D ELSE {NoRecord}
      Follows(new, last) ==
        \A d \in D : new[d] = Append(IF d # last /\ r[d].parent_id \in D
                                     THEN new[r[d].parent_id]
                                     ELSE r[r[d].parent_id].complete_name,
                                     r[d].name)
  IN  {Named(r, new) : new \in {n \in [D -> Name] : \E last \in Closing : Follows(n, last)}}

(* write of name and of parent_id, which a channel named root refuses.     *)
(* Nothing forbids a parent that is below the channel.  The channel of the *)
(* functions is a stored related field: it is computed again without a     *)
(* write of the functions, and so without a clear_caches.                  *)
Rename(c, l, q) ==
  /\ c \in DOMAIN record /\ record[c].name # RootLabel /\ q \in DOMAIN record
  /\ record' \in Recomputed([record EXCEPT ![c].name = l, ![c].parent_id = q], c)
  /\ Unique(record')
  /\ UNCHANGED <<function, cache, job>>

(* unlink: refused for a channel named root, and by the foreign keys of    *)
(* children and of functions.                                              *)
UnlinkChannel(c) ==
  /\ c \in DOMAIN record /\ record[c].name # RootLabel
  /\ \A f \in Function : function[f] # c
  /\ \A d \in DOMAIN record \ {c} : record[d].parent_id # c
  /\ record' = [r \in DOMAIN record \ {c} |-> record[r]]
  /\ UNCHANGED <<function, cache, job>>

-----------------------------------------------------------------------------
(* Job functions.                                                           *)

NoCache == [f \in Function |-> NoName]

NotClearedMutant(f, c) ==
  /\ c \in DOMAIN record \cup {NoRecord}
  /\ function' = [function EXCEPT ![f] = c]
  /\ UNCHANGED <<record, cache, job>>

(* create, write and unlink: all end with clear_caches. *)
WriteFunction(f, c) ==
  /\ c \in DOMAIN record \cup {NoRecord}
  /\ function' = [function EXCEPT ![f] = c]
  /\ cache' = NoCache
  /\ UNCHANGED <<record, job>>

(* The channel of job_config, or of job_default_config, in the database. *)
FunctionChannel(f) ==
  IF function[f] = NoRecord THEN Root ELSE record[function[f]].complete_name

(* job_config: from the cache, or else from the database. *)
JobConfig(f) == IF cache[f] = NoName THEN FunctionChannel(f) ELSE cache[f]

(* Job.__init__ reads the configuration of its function, also of a job     *)
(* that is loaded.                                                         *)
ReadConfig(f) == cache' = [cache EXCEPT ![f] = JobConfig(f)]

-----------------------------------------------------------------------------
(* Jobs.                                                                    *)

(* A new job, in the channel that with_delay asks for or in the one of its *)
(* function.                                                               *)
NewJob(j, f, n) ==
  /\ j \notin DOMAIN job
  /\ ReadConfig(f)
  /\ job' = With(job, j, [function |-> f, channel |-> IF n = NoName THEN JobConfig(f) ELSE n,
                          state |-> "pending", done |-> NoDate, cancelled |-> NoDate])
  /\ UNCHANGED <<record, function>>

Store(j, new) ==
  /\ j \in DOMAIN job
  /\ ReadConfig(job[j].function)
  /\ job' = [job EXCEPT ![j] = new]
  /\ UNCHANGED <<record, function>>

(* set_done, by the job itself or by a user; set_cancelled, by a user or   *)
(* with its parent.  Neither clears the date of the other.                 *)
SetDone(j) == Store(j, [job[j] EXCEPT !.state = "done", !.done = 0])

UndatedMutant(j) == Store(j, [job[j] EXCEPT !.state = "cancelled"])

SetCancelled(j) == Store(j, [job[j] EXCEPT !.state = "cancelled", !.cancelled = 0])

DatesKeptMutant(j) == Store(j, [job[j] EXCEPT !.state = "pending"])

(* set_pending, by a user. *)
SetPending(j) ==
  Store(j, [job[j] EXCEPT !.state = "pending", !.done = NoDate, !.cancelled = NoDate])

(* A day passes. *)
Day ==
  LET Older(d) == IF d = NoDate THEN d ELSE IF d < MaxDays THEN d + 1 ELSE d
  IN  /\ job' = [j \in DOMAIN job |->
                   [job[j] EXCEPT !.done = Older(@), !.cancelled = Older(@)]]
      /\ UNCHANGED <<record, function, cache>>

(* What autovacuum finds for a channel: by dates and channel, whatever the *)
(* state.                                                                  *)
Expired(c) ==
  {j \in DOMAIN job : /\ job[j].channel = record[c].complete_name
                      /\ \E d \in {job[j].done, job[j].cancelled} \ {NoDate} :
                           d >= record[c].removal_interval}

(* autovacuum, of one channel: it commits as it goes.                      *)
Autovacuum(c) ==
  /\ c \in DOMAIN record /\ Expired(c) # {}
  /\ job' = [j \in DOMAIN job \ Expired(c) |-> job[j]]
  /\ UNCHANGED <<record, function, cache>>

-----------------------------------------------------------------------------
Init ==
  /\ \E i \in Interval :
       record = [c \in {RootRecord} |-> [name |-> RootLabel, parent_id |-> NoRecord,
                                         complete_name |-> Root, removal_interval |-> i]]
  /\ function = [f \in Function |-> NoRecord]
  /\ cache = NoCache
  /\ job = << >>

ChannelNext ==
  \E c \in Record \cup {RootRecord} :
    \/ \E l \in Label, q \in DOMAIN record, i \in Interval :
         c \in Record /\ CreateChannel(c, l, q, i)
    \/ \E i \in Interval : SetInterval(c, i)
    \/ \E l \in Label, q \in DOMAIN record : Rename(c, l, q)
    \/ UnlinkChannel(c)
    \/ Autovacuum(c)

FunctionNext ==
  \E f \in Function, c \in Record \cup {RootRecord, NoRecord} : WriteFunction(f, c)

JobNext ==
  \E j \in Job :
    \/ \E f \in Function, n \in Name \cup {NoName} : NewJob(j, f, n)
    \/ /\ j \in DOMAIN job
       /\ SetDone(j) \/ SetCancelled(j) \/ SetPending(j)

Next == ChannelNext \/ FunctionNext \/ JobNext \/ Day

(* Fairness: days pass, and the cron of autovacuum runs every day. *)
Fairness ==
  WF_vars(Day) /\ \A c \in Record \cup {RootRecord} : WF_vars(Autovacuum(c))

Spec == Init /\ [][Next]_vars /\ Fairness

-----------------------------------------------------------------------------
(* Properties.                                                              *)

(* The records are a tree, and the complete names tell the way from root.  *)
ChannelTree ==
  /\ RootRecord \in DOMAIN record /\ record[RootRecord].complete_name = Root
  /\ \A c \in DOMAIN record \ {RootRecord} :
       LET q == record[c].parent_id
       IN  /\ q \in DOMAIN record
           /\ record[c].complete_name = Append(record[q].complete_name, record[c].name)
  /\ Unique(record)

(* c gets a parent that is c or below it. *)
MovedBelowItself(c) ==
  LET q == record'[c].parent_id
  IN  q \in DOMAIN record /\ IsPrefix(record[c].complete_name, record[q].complete_name)

(* Renames, moves and deletions of channels with others below them keep    *)
(* the records a tree, unless a channel is moved below itself, which write *)
(* does not forbid.                                                        *)
ChannelsStayATree ==
  [][ChannelTree => ChannelTree' \/ \E c \in DOMAIN record \cap DOMAIN record' :
                                      MovedBelowItself(c)]_vars

(* autovacuum deletes jobs that are over, and that have been for the days  *)
(* a channel of that name says: not one that was done or cancelled once    *)
(* and is to run again.                                                    *)
DeletedWhenOver ==
  [][\A j \in DOMAIN job :
       j \notin DOMAIN job' =>
         /\ job[j].state \in {"done", "cancelled"}
         /\ \E c \in DOMAIN record :
              /\ record[c].complete_name = job[j].channel
              /\ \E d \in {job[j].done, job[j].cancelled} \ {NoDate} :
                   record[c].removal_interval <= d]_vars

(* The cached configuration of a function differs from the database only   *)
(* once a channel has been renamed.                                        *)
Coherent == \A f \in Function : cache[f] \in {NoName, FunctionChannel(f)}

StaleByRenameOnly ==
  [][Coherent => Coherent' \/ \E c \in DOMAIN record \cap DOMAIN record' :
                                 record'[c].complete_name # record[c].complete_name]_vars

(* A job that is over, in the channel of a record, is deleted in the end,   *)
(* unless it is made to run again, it is set over again, or the channel is *)
(* renamed or deleted.  Two channels below each other may exchange their   *)
(* names time and again, each between two visits of autovacuum.            *)
Lingers(j, c) ==
  /\ j \in DOMAIN job /\ job[j].state \in {"done", "cancelled"}
  /\ 0 \notin {job[j].done, job[j].cancelled}
  /\ c \in DOMAIN record /\ record[c].complete_name = job[j].channel

OverJobsDeleted == \A j \in Job, c \in Record \cup {RootRecord} : []<>~Lingers(j, c)

=============================================================================
