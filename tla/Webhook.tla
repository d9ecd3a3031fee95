------------------------------- MODULE Webhook -------------------------------
(***************************************************************************)
(* The webhook of the chat provider (hey_now_integration): each delivery   *)
(* of an event becomes a job, and each job makes a message of the event    *)
(* in the channel of its sender, in a transaction of its own, unless the   *)
(* message is there already.  The provider may deliver an event any number *)
(* of times, and as many jobs run at a time as the channel has capacity.   *)
(*                                                                         *)
(* Transactions are REPEATABLE READ: a job sees its snapshot and its own   *)
(* writes; the lock or the update of a row that was written since, and the *)
(* insertion of a sender that is there by now, are errors of PostgreSQL.   *)
(* An error that the code catches within the transaction leaves it         *)
(* aborted: the next statement, a search or the release of the savepoint,  *)
(* fails too, with an error that is not retried.                           *)
(***************************************************************************)
EXTENDS HeynowPayload, Naturals, FiniteSets

CONSTANTS
  MaxDeliveries, \* bound: the deliveries
  Allowed,     \* the labels the active configuration of the provider allows
  Sender,      \* the users of the provider
  NoChannel,   \* no channel yet
  Capacities,  \* the capacities the channel of the jobs may have
  MaxReplies   \* bound: the messages of internal users

VARIABLES
  event,    \* event[d]: what was delivered; DOMAIN event are the deliveries
  job,      \* job[d]: the state of the job of d
  partner,  \* res_partner: partner[s] is is_provider_chat_user of the sender s
  channel,  \* mail_channel: channel[c], created by the job of c, or there before;
            \* joined says that the sender and the internal user are its members
  message,  \* mail_message: the messages of events
  pc,       \* pc[d]: where the job of d is, "none" when it does not run
  seen,     \* seen[d]: its snapshot
  own,      \* own[d]: what it has written and locked
  stale,    \* stale[d]: the rows of its snapshot that others have written since
  capacity, \* how many jobs run at a time
  replies,  \* how many messages internal users have posted
  last,     \* last[c]: the session of the last event stored in c, for the properties
  first     \* first: the channels and partners there from the beginning

(* The deliveries in their order, and the jobs made of them. *)
Delivery == 1..MaxDeliveries

tables == <<partner, channel, message>>
transactions == <<pc, seen, own, stale>>
vars == <<event, job, tables, transactions, capacity, replies, last, first>>

ASSUME EventAssumption ==
  Event \subseteq [id : {e.id : e \in Event}, sender : Sender \cup {NoSender},
                   session : {e.session : e \in Event},
                   channel : {e.channel : e \in Event}, incoming : BOOLEAN,
                   files : SUBSET UNION {e.files : e \in Event}]

(* An identifier is that of one message, of one sender. *)
ASSUME IdentifierAssumption ==
  \A e, f \in Event : e.id = f.id /\ e.id # NoId => e.sender = f.sender

ASSUME CapacityAssumption ==
  Capacities \subseteq Nat \ {0} /\ MaxReplies \in Nat /\ MaxDeliveries \in Nat

ASSUME ChannelAssumption ==
  NoChannel \notin Delivery \cup Sender /\ NoSender \notin Sender /\ Delivery \cap Sender = {}

(* A row for k. *)
Put(f, k, v) == [x \in DOMAIN f \cup {k} |-> IF x = k THEN v ELSE f[x]]

Running == {d \in DOMAIN pc : pc[d] # "none"}

(* What the job of d, which has just started, has written and locked. *)
Nothing == [partner |-> "none", channel |-> NoChannel, metadata |-> FALSE, new |-> FALSE,
            wrote |-> FALSE, files |-> {}, locked |-> FALSE]

-----------------------------------------------------------------------------
(* The controller.                                                          *)

(* get_is_valid, get_is_valid_channel. *)
Valid(e) == e.channel \in Allowed

(* receive: an event that is valid is enqueued.  Anything else is answered *)
(* with an error, and changes nothing here.                                *)
Receive(d) ==
  /\ d \notin DOMAIN event /\ \A x \in Delivery : x < d => x \in DOMAIN event
  /\ \E e \in Event : Valid(e) /\ event' = Put(event, d, e)
  /\ job' = Put(job, d, "pending")
  /\ pc' = Put(pc, d, "none")
  /\ UNCHANGED <<tables, seen, own, stale, capacity, replies, last, first>>

-----------------------------------------------------------------------------
(* Transactions.                                                            *)

Goto(d, place) == pc' = [pc EXCEPT ![d] = place]

(* Mutant: the locks are not released.                                      *)
LocksKeptMutant(d, state) ==
  /\ Goto(d, "none")
  /\ job' = [job EXCEPT ![d] = state]
  /\ seen' = [x \in DOMAIN seen \ {d} |-> seen[x]]
  /\ own' = own

(* The end of the transaction of d, and what becomes of its job. *)
End(d, state) ==
  /\ Goto(d, "none")
  /\ job' = [job EXCEPT ![d] = state]
  /\ seen' = [x \in DOMAIN seen \ {d} |-> seen[x]]
  /\ own' = [x \in DOMAIN own \ {d} |-> own[x]]

(* The others that run no longer see the latest version of the rows. *)
Overwrite(d, rows) ==
  stale' = [x \in DOMAIN stale \ {d} |-> stale[x] \cup rows]

(* An error: the transaction is rolled back.  The job fails, or it is      *)
(* postponed when the error is one of concurrency that nobody has caught.  *)
Rollback(d, state) ==
  End(d, state) /\ Overwrite(d, {}) /\ UNCHANGED <<event, tables, capacity, replies, last, first>>

Fail(d) == Rollback(d, "failed")
(* Mutants: the error is caught, and the job does not become pending again. *)
CaughtMutant(d) == Rollback(d, "done")
NotAgainMutant(d) == Rollback(d, "started")

Postpone(d) == Rollback(d, "pending")

(* A statement that succeeds. *)
Statement(d, place, written) ==
  /\ Goto(d, place)
  /\ own' = [own EXCEPT ![d] = written]
  /\ UNCHANGED <<event, job, tables, seen, stale, capacity, replies, last, first>>

(* Mutant: one job too many.                                                *)
OffByOneMutant(d) ==
  /\ d \in DOMAIN job /\ job[d] = "pending" /\ pc[d] = "none"
  /\ Cardinality(Running) <= capacity
  /\ Goto(d, "check")
  /\ job' = [job EXCEPT ![d] = "started"]
  /\ seen' = Put(seen, d, [partner |-> partner, channel |-> channel, message |-> message])
  /\ own' = Put(own, d, Nothing)
  /\ stale' = Put(stale, d, {})
  /\ UNCHANGED <<event, tables, capacity, replies, last, first>>

(* The worker takes the job and its snapshot. *)
Start(d) ==
  /\ d \in DOMAIN job /\ job[d] = "pending" /\ pc[d] = "none"
  /\ Cardinality(Running) < capacity
  /\ Goto(d, "check")
  /\ job' = [job EXCEPT ![d] = "started"]
  /\ seen' = Put(seen, d, [partner |-> partner, channel |-> channel, message |-> message])
  /\ own' = Put(own, d, Nothing)
  /\ stale' = Put(stale, d, {})
  /\ UNCHANGED <<event, tables, capacity, replies, last, first>>

-----------------------------------------------------------------------------
(* process_webhook_event.                                                   *)

At(d, place) == d \in DOMAIN pc /\ pc[d] = place

Others(d) == Running \ {d}

(* The messages with the identifier of the event of d, in its snapshot. *)
Duplicates(d) ==
  {m \in seen[d].message : event[d].id # NoId /\ m.id = event[d].id}

(* Events that are not incoming messages are skipped. *)
Skip(d) ==
  /\ At(d, "check") /\ ~event[d].incoming
  /\ Statement(d, "finish", own[d])

(* Mutant: no message is a duplicate.                                       *)
NoDuplicatesMutant(d) ==
  At(d, "check") /\ event[d].incoming /\ Statement(d, "partner", own[d])

(* _check_and_lock_duplicate: FOR UPDATE NOWAIT of the messages found.  If *)
(* it fails the answer is "duplicate", but the savepoint cannot be         *)
(* released.                                                               *)
CheckDuplicate(d) ==
  /\ At(d, "check") /\ event[d].incoming
  /\ LET refused == \/ \E m \in Duplicates(d) : <<"message", m>> \in stale[d]
                    \/ \E x \in Others(d) : own[x].locked /\ Duplicates(x) \cap Duplicates(d) # {}
     IN \/ Duplicates(d) = {} /\ Statement(d, "partner", own[d])
        \/ Duplicates(d) # {} /\ ~refused
             /\ Statement(d, "finish", [own[d] EXCEPT !.locked = TRUE])
        \/ Duplicates(d) # {} /\ refused /\ Fail(d)

(* find_or_create_partner, FOR UPDATE NOWAIT: if the row is locked or was  *)
(* written since the snapshot, the search that follows fails.              *)
LockPartner(d) ==
  LET s == event[d].sender
      refused == \/ <<"partner", s>> \in stale[d]
                 \/ \E x \in Others(d) : event[x].sender = s /\ own[x].partner \in {"locked", "flagged"}
  IN /\ At(d, "partner")
     /\ \/ s = NoSender /\ Fail(d)
        \/ s \in DOMAIN seen[d].partner /\ refused /\ Fail(d)
        \/ s \in DOMAIN seen[d].partner /\ ~refused
             /\ Statement(d, "channel",
                  [own[d] EXCEPT !.partner = IF seen[d].partner[s] THEN "locked" ELSE "flagged"])
        \/ s \in Sender \ DOMAIN seen[d].partner /\ Statement(d, "create", own[d])

(* find_or_create_partner, create: it waits for the end of another         *)
(* insertion of the sender; if that one is committed the unique constraint *)
(* is violated, and the search that follows fails.                         *)
CreatePartner(d) ==
  LET s == event[d].sender
  IN /\ At(d, "create")
     /\ ~\E x \in Others(d) : event[x].sender = s /\ own[x].partner = "created"
     /\ \/ s \in DOMAIN partner /\ Fail(d)
        \/ s \notin DOMAIN partner /\ Statement(d, "channel", [own[d] EXCEPT !.partner = "created"])

(* Another transaction has written c and is not at its end. *)
Written(d, c) == \E x \in Others(d) : own[x].channel = c /\ own[x].wrote

(* An update of c, or of its members, waits for the other transactions. *)
UpdateChannel(d, c, place, written) ==
  /\ ~Written(d, c)
  /\ \/ <<"channel", c>> \in stale[d] /\ Postpone(d)
     \/ <<"channel", c>> \notin stale[d] /\ Statement(d, place, written)

(* Mutants: the channel of the session is looked for, and the metadata are  *)
(* those of the first event for ever.                                       *)
BySessionMutant(d) ==
  LET found == {c \in DOMAIN seen[d].channel :
                  /\ seen[d].channel[c].sender = event[d].sender
                  /\ seen[d].channel[c].session = event[d].session}
  IN /\ At(d, "channel")
     /\ \/ found = {} /\ Statement(d, "post", [own[d] EXCEPT !.channel = d, !.new = TRUE, !.metadata = TRUE])
        \/ \E c \in found : Statement(d, "post", [own[d] EXCEPT !.channel = c])

FirstSessionMutant(d) ==
  LET found == {c \in DOMAIN seen[d].channel : seen[d].channel[c].sender = event[d].sender}
  IN /\ At(d, "channel")
     /\ \/ found = {} /\ Statement(d, "post", [own[d] EXCEPT !.channel = d, !.new = TRUE, !.metadata = TRUE])
        \/ \E c \in found : Statement(d, "post", [own[d] EXCEPT !.channel = c])

(* The channel has its members and its metadata, as d sees it. *)
UpToDate(d, c) == seen[d].channel[c].joined /\ seen[d].channel[c].session = event[d].session

(* add_members would insert a member that another job has inserted since:  *)
(* once that one is at its end, this is an error that is not retried.      *)
MemberInserted(d, c) == ~seen[d].channel[c].joined /\ channel[c].joined

(* find_or_create_channel: the channel of the sender that is found, which  *)
(* gets the members that are missing and the metadata of the event, or a   *)
(* new one.                                                                *)
FindChannel(d) ==
  LET found == {c \in DOMAIN seen[d].channel : seen[d].channel[c].sender = event[d].sender}
  IN /\ At(d, "channel")
     /\ \/ found = {} /\ Statement(d, "post", [own[d] EXCEPT !.channel = d, !.new = TRUE, !.metadata = TRUE])
        \/ \E c \in found :
             \/ UpToDate(d, c) /\ Statement(d, "post", [own[d] EXCEPT !.channel = c])
             \/ MemberInserted(d, c) /\ ~Written(d, c) /\ Fail(d)
             \/ ~UpToDate(d, c) /\ ~MemberInserted(d, c)
                  /\ UpdateChannel(d, c, "post",
                       [own[d] EXCEPT !.channel = c, !.metadata = TRUE, !.wrote = TRUE])

(* _process_message_files: any file may fail to be fetched or decoded, and *)
(* is left out; one with neither an address nor data always is.            *)
Attachments(d) == SUBSET {f \in event[d].files : f.url \/ f.datas}

(* _create_message_with_final_check: the second search for the identifier  *)
(* reads the same snapshot as the first one, and the post updates the      *)
(* members of the channel.                                                 *)
Post(d) ==
  /\ At(d, "post")
  /\ \E files \in Attachments(d) :
       LET written == [own[d] EXCEPT !.files = files, !.wrote = TRUE]
       IN IF own[d].new THEN Statement(d, "finish", written)
                        ELSE UpdateChannel(d, own[d].channel, "finish", written)

-----------------------------------------------------------------------------
(* The commit.                                                              *)

Posted(d) == own[d].channel # NoChannel

MessageOf(d) ==
  [by |-> d, id |-> event[d].id, channel |-> own[d].channel, files |-> own[d].files]

(* The rows that others may have in their snapshots. *)
Rows(d) ==
  (IF Posted(d) THEN {<<"channel", own[d].channel>>} ELSE {})
    \cup (IF own[d].partner = "flagged" THEN {<<"partner", event[d].sender>>} ELSE {})

Finish(d) ==
  /\ At(d, "finish")
  /\ End(d, "done")
  /\ Overwrite(d, Rows(d))
  /\ partner' = IF own[d].partner \in {"created", "flagged"}
                THEN Put(partner, event[d].sender, TRUE) ELSE partner
  /\ IF Posted(d)
     THEN LET c == own[d].channel
          IN /\ channel' = IF own[d].metadata
                           THEN Put(channel, c, [sender |-> event[d].sender,
                                                 session |-> event[d].session,
                                                 joined |-> TRUE])
                           ELSE channel
             /\ message' = message \cup {MessageOf(d)}
             /\ last' = Put(last, c, event[d].session)
     ELSE UNCHANGED <<channel, message, last>>
  /\ UNCHANGED <<event, capacity, replies, first>>

-----------------------------------------------------------------------------
(* Others.                                                                  *)

(* message_post of an internal user, which updates the members as well. *)
Reply(c) ==
  /\ c \in DOMAIN channel
  /\ replies < MaxReplies
  /\ ~\E x \in Running : own[x].channel = c /\ own[x].wrote
  /\ replies' = replies + 1
  /\ stale' = [x \in DOMAIN stale |-> stale[x] \cup {<<"channel", c>>}]
  /\ UNCHANGED <<event, job, tables, pc, seen, own, capacity, last, first>>

(* cleanup_duplicate_messages: one message of each identifier is kept.     *)
Cleanup ==
  LET groups == {{m \in message : m.id = e.id} : e \in {x \in Event : x.id # NoId}}
  IN \E kept \in SUBSET message :
       /\ kept # message
       /\ \A m \in message : m.id = NoId => m \in kept
       /\ \A g \in groups \ {{}} : Cardinality(g \cap kept) = 1
       /\ ~\E x \in Running : own[x].locked /\ Duplicates(x) \ kept # {}
       /\ message' = kept
       /\ stale' = [x \in DOMAIN stale |-> stale[x] \cup ({"message"} \X (message \ kept))]
       /\ UNCHANGED <<event, job, partner, channel, pc, seen, own, capacity, replies, last, first>>

-----------------------------------------------------------------------------
(* The sender may be known already, with or without the flag and a channel *)
(* of his own, from which he or the internal user may have been removed.   *)
Init ==
  /\ event = <<>> /\ job = <<>> /\ pc = <<>> /\ seen = <<>> /\ own = <<>> /\ stale = <<>>
  /\ \E known \in SUBSET Sender : partner \in [known -> BOOLEAN]
  /\ \E old \in SUBSET DOMAIN partner, session \in {e.session : e \in Event} :
       \E members \in [old -> BOOLEAN] :
         channel = [s \in old |-> [sender |-> s, session |-> session, joined |-> members[s]]]
  /\ message = {}
  /\ capacity \in Capacities
  /\ replies = 0
  /\ last = [c \in DOMAIN channel |-> channel[c].session]
  /\ first = [partners |-> DOMAIN partner, channels |-> DOMAIN channel]

(* A step of the job of d. *)
Work(d) ==
  \/ Start(d) \/ Skip(d) \/ CheckDuplicate(d) \/ LockPartner(d) \/ CreatePartner(d)
  \/ FindChannel(d) \/ Post(d) \/ Finish(d)

Next ==
  \/ \E d \in Delivery : Receive(d) \/ Work(d)
  \/ \E c \in Sender \cup Delivery : Reply(c)
  \/ Cleanup

(* The runner starts the jobs that are pending, in their order, and a      *)
(* worker goes on with its job.                                            *)
Spec == Init /\ [][Next]_vars /\ \A d \in Delivery : WF_vars(Work(d))

-----------------------------------------------------------------------------
(* Types of the jobs, of the tables and of what transactions hold. *)
TypeOK ==
  /\ event \in [DOMAIN event -> Event] /\ DOMAIN event \subseteq Delivery
  /\ job \in [DOMAIN event -> {"pending", "started", "done", "failed"}]
  /\ partner \in [DOMAIN partner -> BOOLEAN] /\ DOMAIN partner \subseteq Sender
  /\ DOMAIN channel \subseteq Sender \cup Delivery
  /\ \A m \in message : m.by \in Delivery /\ m.channel \in DOMAIN channel
                        /\ m.files \subseteq event[m.by].files
  /\ DOMAIN pc = DOMAIN event
  /\ DOMAIN seen = Running /\ DOMAIN own = Running /\ DOMAIN stale = Running

(* A job that is done has left its message, or has found another one with  *)
(* the same identifier, which cleaning up does not change; a job that was  *)
(* skipped or rolled back has left none (process_webhook_event).           *)
DoneMeansStored ==
  \A d \in DOMAIN event :
    LET stored == \E m \in message : m.by = d \/ (m.id = event[d].id /\ m.id # NoId)
    IN /\ job[d] = "done" /\ event[d].incoming => stored
       /\ ~event[d].incoming \/ job[d] # "done" => \A m \in message : m.by # d

(* An event delivered twice is stored once, if jobs run one at a time, or  *)
(* if its sender had a channel before: the members of the channel, which   *)
(* each post updates, then make the second transaction start again         *)
(* (_check_and_lock_duplicate, message_post).                              *)
StoredOnce ==
  \A m, n \in message :
    /\ m.id = n.id /\ m.id # NoId
    /\ capacity = 1 \/ event[m.by].sender \in first.channels
    => m = n

(* A sender has one channel, unless two jobs at a time find a partner that *)
(* has none yet: a new partner and the first channel are committed         *)
(* together (find_or_create_partner, find_or_create_channel).              *)
OneChannelPerSender ==
  \A c, k \in DOMAIN channel :
    /\ channel[c].sender = channel[k].sender
    /\ capacity = 1 \/ channel[c].sender \notin first.partners \ first.channels
    => c = k

(* A channel has the session of the last event stored in it, by which the  *)
(* replies are sent: no job overwrites it with what it has read before     *)
(* (find_or_create_channel).                                               *)
RepliesToLastSession ==
  \A c \in DOMAIN channel : channel[c].session = last[c]

(* "Optimizado para evitar conflictos de concurrencia" (res_partner.py:31):*)
(* the job of an event with a sender never fails.                          *)
NothingLost ==
  \A d \in DOMAIN job : event[d].sender # NoSender => job[d] # "failed"

(* With one job at a time that is so. *)
NothingLostOneByOne == capacity = 1 => NothingLost

(* Every event that is accepted is dealt with: the transactions never wait *)
(* for each other in a circle, nor start again for ever.                   *)
Processed ==
  \A d \in Delivery :
    (d \in DOMAIN job /\ job[d] = "pending")
      ~> (d \in DOMAIN job /\ job[d] \in {"done", "failed"})
=============================================================================
