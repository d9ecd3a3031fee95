---------------------------- MODULE ChannelNames ----------------------------
(***************************************************************************)
(* The names of channels in the job runner: the ChannelManager of          *)
(* queue_job/jobrunner/channels.py is configured with the capacities of    *)
(* some channels when the runner starts, and finds the channel of a job by *)
(* its name when it is notified of the job.  A name without a channel      *)
(* falls back on the nearest ancestor that has one.                        *)
(*                                                                         *)
(* A name is the sequence of its labels after "root".  What channels do    *)
(* with their jobs is the subject of Channels.                             *)
(***************************************************************************)
EXTENDS Naturals, Sequences, SequencesExt

CONSTANTS
  Job,            \* the jobs
  Label,          \* the labels of names
  Name,           \* the names that jobs and configurations use
  Capacity,       \* the capacities a configuration may give
  Infinite,       \* no capacity
  Configurations, \* the sets of names that a configuration may mention
  NoName          \* not a name

VARIABLES
  capacity,   \* capacity[n] of each channel by its full name: _channels_by_name
  config,     \* the capacities of the configuration, by name
  named,      \* named[j]: the name the runner was last told for the job, or NoName
  placed      \* placed[j]: the channel of the job in _jobs_by_uuid, or NoName

vars == <<capacity, config, named, placed>>

Root == <<>>

ASSUME NameAssumption ==
  Root \in Name /\ Name \subseteq Seq(Label) /\ Infinite \notin Nat /\ NoName \notin Name

ASSUME ConfigurationAssumption ==
  Capacity \subseteq Nat \ {0} /\ Configurations \subseteq SUBSET Name

Known == DOMAIN capacity

(* The nearest ancestor of a name that has a channel. *)
Nearest(n) ==
  LET known == {m \in Known : IsStrictPrefix(m, n)}
  IN  CHOOSE m \in known : \A k \in known : Len(k) <= Len(m)

AlwaysFallbackMutant(n) == IF n = Root THEN n ELSE Nearest(n) \o n

LastLabelMutant(n) == IF n \in Known THEN n ELSE Append(Nearest(n), Last(n))

(* The channel of a name: the fallback is followed by all the labels of    *)
(* the name, not only by the ones that come after the ancestor.            *)
Resolved(n) == IF n \in Known THEN n ELSE Nearest(n) \o n

(* The channels with those down to n, the missing ones without capacity. *)
WithPath(n) ==
  [m \in Known \cup Prefixes(n) |-> IF m \in Known THEN capacity[m] ELSE Infinite]

(* simple_configure: the channels of a configuration, with the ancestors   *)
(* that it does not mention; root has capacity 1 unless it does.           *)
Configured(given) ==
  [n \in {Root} \cup UNION {Prefixes(m) : m \in DOMAIN given} |->
     IF n \in DOMAIN given THEN given[n] ELSE IF n = Root THEN 1 ELSE Infinite]

Forgotten == [j \in Job |-> NoName]

-----------------------------------------------------------------------------
(* notify: the job is in the channel that its name gives now; one that was *)
(* in another is removed from it and made anew.                            *)
Notify(j, n) ==
  /\ capacity' = WithPath(Resolved(n))
  /\ named' = [named EXCEPT ![j] = n]
  /\ placed' = [placed EXCEPT ![j] = Resolved(n)]
  /\ UNCHANGED config

(* remove_job: of a job that is no longer in the database. *)
RemoveJob(j) ==
  /\ named' = [named EXCEPT ![j] = NoName]
  /\ placed' = [placed EXCEPT ![j] = NoName]
  /\ UNCHANGED <<capacity, config>>

(* remove_db, when the runner loses its connection: it forgets its jobs,   *)
(* and keeps its channels.                                                 *)
RemoveDb ==
  /\ named' = Forgotten
  /\ placed' = Forgotten
  /\ UNCHANGED <<capacity, config>>

(* The process of the runner starts again, with the same configuration. *)
Restart ==
  /\ capacity' = Configured(config)
  /\ named' = Forgotten
  /\ placed' = Forgotten
  /\ UNCHANGED config

Init ==
  /\ \E names \in Configurations : config \in [names -> Capacity]
  /\ capacity = Configured(config)
  /\ named = Forgotten
  /\ placed = Forgotten

Next ==
  \/ \E j \in Job : RemoveJob(j) \/ \E n \in Name : Notify(j, n)
  \/ RemoveDb
  \/ Restart

Spec == Init /\ [][Next]_vars

-----------------------------------------------------------------------------
(* Properties.                                                              *)

(* Names in which no label comes twice. *)
Plain(n) == IsInjective(n)

(* The jobs with a name in which no label comes twice, when that is so of  *)
(* the configuration too.                                                  *)
PlainJobs ==
  {j \in Job : named[j] # NoName /\ \A n \in DOMAIN config \cup {named[j]} : Plain(n)}

(* Whatever names the runner has resolved since, a job it is notified of   *)
(* again stays where it is: it is not removed from its channel and made    *)
(* anew, which would lose its place there; and jobs of one name are in one *)
(* channel.                                                                *)
StaysInItsChannel == \A j \in PlainJobs : placed[j] = Resolved(named[j])

(* A job counts for the configured channels that its name is in, and for   *)
(* no others, by whatever fallback it got its channel; and those keep the  *)
(* capacity of the configuration.                                          *)
LimitsOfItsName ==
  \A j \in PlainJobs :
    /\ DOMAIN config \cap Prefixes(placed[j]) = DOMAIN config \cap Prefixes(named[j])
    /\ \A n \in DOMAIN config : n \in Known /\ capacity[n] = config[n]

=============================================================================
