--------------------------- MODULE WebhookSafety ---------------------------
(***************************************************************************)
(* The safety of the webhook for any number of deliveries, events, senders *)
(* and jobs at a time.  A job knows its snapshot and its own writes, which *)
(* its place tells; what is stored by others while it runs has made the    *)
(* rows of its snapshot stale, and what it has written, nobody else has.   *)
(***************************************************************************)
EXTENDS Webhook, FiniteSetTheorems, TLAPS

Sent(d) == event[d].sender

(* The channels of s in the channels cs.                                   *)
ChannelsOf(cs, s) == {c \in DOMAIN cs : cs[c].sender = s}

-----------------------------------------------------------------------------
(* What the tables and the transactions are made of.                       *)
AnyFile == UNION {e.files : e \in Event}

OwnType ==
  [partner : {"none", "locked", "flagged", "created"},
   channel : Sender \cup Delivery \cup {NoChannel}, metadata : BOOLEAN, new : BOOLEAN,
   wrote : BOOLEAN, files : SUBSET AnyFile, locked : BOOLEAN]

(* Where a job may be.                                                     *)
Place == {"none", "check", "partner", "create", "channel", "post", "finish"}

ChannelType == [sender : Sender, session : {e.session : e \in Event}, joined : BOOLEAN]

Types ==
  /\ event \in [DOMAIN event -> Event] /\ DOMAIN event \subseteq Delivery
  /\ job \in [DOMAIN event -> {"pending", "started", "done", "failed"}]
  /\ pc \in [DOMAIN event -> Place]
  /\ partner \in [DOMAIN partner -> BOOLEAN] /\ DOMAIN partner \subseteq Sender
  /\ channel \in [DOMAIN channel -> ChannelType] /\ DOMAIN channel \subseteq Sender \cup Delivery
  /\ DOMAIN seen = Running /\ DOMAIN stale = Running
  /\ own \in [Running -> OwnType]
  /\ capacity \in Nat \ {0}

(* What the job of d has done at place p, when it holds w.                 *)
LocalPlace(d, p, w) ==
  /\ p \in {"check", "partner", "create"} => w = Nothing
  /\ p \in {"partner", "create", "channel", "post"} =>
       event[d].incoming /\ Duplicates(d) = {}
  /\ p = "create" => Sent(d) \in Sender \ DOMAIN seen[d].partner
  /\ p = "channel" => w.channel = NoChannel /\ w.partner # "none"
  /\ p = "post" => w.channel # NoChannel
  /\ p = "finish" =>
       \/ w.channel # NoChannel /\ w.wrote
       \/ /\ w.channel = NoChannel /\ w.partner = "none"
          /\ event[d].incoming => Duplicates(d) # {}
  /\ w.files \subseteq event[d].files

LocalPartner(d, w) ==
  /\ w.partner \in {"locked", "flagged"} => Sent(d) \in DOMAIN seen[d].partner
  /\ w.partner = "created" => Sent(d) \in Sender \ DOMAIN seen[d].partner
  /\ w.channel # NoChannel =>
       w.partner # "none" /\ event[d].incoming /\ Duplicates(d) = {}

LocalChannel(d, w) ==
  /\ w.wrote \/ w.new \/ w.metadata => w.channel # NoChannel
  /\ w.new => /\ w.channel = d /\ w.metadata
              /\ ChannelsOf(seen[d].channel, Sent(d)) = {}
  /\ w.channel # NoChannel /\ ~ w.new => w.channel \in ChannelsOf(seen[d].channel, Sent(d))
  /\ w.channel # NoChannel /\ ~ w.metadata =>
       ~ w.new /\ seen[d].channel[w.channel].session = event[d].session

LocalAt(d, p, w) == LocalPlace(d, p, w) /\ LocalPartner(d, w) /\ LocalChannel(d, w)

LocalInv == \A d \in Running : job[d] = "started" /\ LocalAt(d, pc[d], own[d])

(* What the snapshot of d has to do with the tables.                       *)
Snapshot(d) ==
  /\ DOMAIN seen[d].partner \subseteq DOMAIN partner
  /\ DOMAIN seen[d].channel \subseteq DOMAIN channel
  /\ \A c \in DOMAIN seen[d].channel :
       /\ seen[d].channel[c].sender = channel[c].sender
       /\ <<"channel", c>> \notin stale[d] => seen[d].channel[c] = channel[c]
  /\ first.channels \subseteq DOMAIN seen[d].channel
  /\ \A s \in DOMAIN seen[d].partner \ first.partners :
       ChannelsOf(seen[d].channel, s) # {}
  /\ \A m \in message \ seen[d].message : <<"channel", m.channel>> \in stale[d]
  /\ \A m \in seen[d].message : m.id # NoId => \E n \in message : n.id = m.id

SnapshotInv == \A d \in Running : Snapshot(d)

(* What two jobs that run hold, and what they have of a channel.           *)
HeldInv ==
  /\ \A d \in Running : own[d].wrote /\ ~ own[d].new =>
       <<"channel", own[d].channel>> \notin stale[d]
  /\ \A d, x \in Running :
       own[d].wrote /\ own[x].wrote /\ own[d].channel = own[x].channel => d = x
  /\ \A d \in Running : own[d].partner = "created" => Sent(d) \notin DOMAIN partner
  /\ \A d, x \in Running :
       own[d].partner = "created" /\ own[x].partner = "created" /\ Sent(d) = Sent(x) => d = x

(* The tables.                                                             *)
TableInv ==
  /\ \A c \in DOMAIN channel \cap Delivery : c \in DOMAIN job /\ job[c] = "done"
  /\ \A c \in DOMAIN channel : channel[c].sender \in DOMAIN partner
  /\ DOMAIN channel \subseteq DOMAIN last
  /\ first.partners \subseteq DOMAIN partner /\ first.channels \subseteq DOMAIN channel
  /\ \A c \in first.channels : c \in Sender /\ channel[c].sender = c
  /\ \A s \in DOMAIN partner \ first.partners : ChannelsOf(channel, s) # {}
  /\ \A m \in message : /\ m.by \in DOMAIN event /\ job[m.by] = "done"
                        /\ m.id = event[m.by].id
                        /\ m.channel \in ChannelsOf(channel, Sent(m.by))
                        /\ m.files \subseteq event[m.by].files
                        /\ event[m.by].incoming

(* With one job at a time, the snapshot of the one that runs is the last.  *)
AloneInv ==
  capacity = 1 =>
    /\ \A d, x \in Running : d = x
    /\ \A d \in Running :
         /\ message = seen[d].message
         /\ DOMAIN partner = DOMAIN seen[d].partner
         /\ DOMAIN channel = DOMAIN seen[d].channel
         /\ \A c \in DOMAIN channel : seen[d].channel[c] = channel[c]
         /\ \A s \in Sender : <<"partner", s>> \notin stale[d]
         /\ \A m \in message : <<"message", m>> \notin stale[d]

IInv ==
  /\ Types /\ LocalInv /\ SnapshotInv /\ HeldInv /\ TableInv /\ AloneInv
  /\ DoneMeansStored /\ StoredOnce /\ OneChannelPerSender /\ RepliesToLastSession
  /\ NothingLostOneByOne

-----------------------------------------------------------------------------
(* One more value for a function.                                          *)
LEMMA PutFacts ==
  ASSUME NEW f, NEW k, NEW v
  PROVE  /\ DOMAIN Put(f, k, v) = DOMAIN f \cup {k}
         /\ Put(f, k, v)[k] = v
         /\ \A x \in DOMAIN f \ {k} : Put(f, k, v)[x] = f[x]
BY DEF Put

LEMMA PutType ==
  ASSUME NEW f, NEW k, NEW v, NEW T, f \in [DOMAIN f -> T], v \in T
  PROVE  Put(f, k, v) \in [DOMAIN f \cup {k} -> T]
BY DEF Put

-----------------------------------------------------------------------------
(* The steps of a job: it starts, it goes on, it is rolled back or it is   *)
(* at its end.                                                             *)
TablesKept == UNCHANGED <<event, partner, channel, message, capacity, last, first>>

OthersKept(d) ==
  \A x \in Running \ {d} : /\ job'[x] = job[x] /\ pc'[x] = pc[x]
                            /\ seen'[x] = seen[x] /\ own'[x] = own[x]

LEMMA RunningFacts ==
  ASSUME Types
  PROVE  /\ Running \subseteq DOMAIN event /\ DOMAIN pc = DOMAIN event /\ DOMAIN job = DOMAIN event
         /\ \A d \in DOMAIN event : d \in Running <=> pc[d] # "none"
BY DEF Types, Running

LEMMA StatementStep ==
  ASSUME Types, NEW d \in Running, NEW place, NEW written, Statement(d, place, written),
         place \in {"partner", "create", "channel", "post", "finish"}, written \in OwnType
  PROVE  /\ Types' /\ Running' = Running /\ TablesKept /\ OthersKept(d)
         /\ pc'[d] = place /\ own'[d] = written
         /\ UNCHANGED <<seen, stale, job, replies>>
<1>1. /\ pc' = [pc EXCEPT ![d] = place] /\ own' = [own EXCEPT ![d] = written]
      /\ UNCHANGED <<event, job, partner, channel, message, seen, stale, capacity, replies,
                     last, first>>
  BY DEF Statement, Goto, tables
<1>2. Running' = Running
  BY <1>1 DEF Running, Types
<1>3. pc' \in [DOMAIN event -> Place]
  BY <1>1, RunningFacts DEF Types, Place
<1>4. own' \in [Running -> OwnType] /\ own'[d] = written
  BY <1>1 DEF Types
<1>5. Types'
  BY <1>1, <1>2, <1>3, <1>4 DEF Types
<1>6. pc'[d] = place /\ \A x \in Running \ {d} : pc'[x] = pc[x] /\ own'[x] = own[x]
  BY <1>1, RunningFacts DEF Types
<1> QED
  BY <1>1, <1>2, <1>4, <1>5, <1>6 DEF TablesKept, OthersKept

LEMMA EndStep ==
  ASSUME Types, NEW d \in Running, NEW state \in {"pending", "done", "failed"}, End(d, state)
  PROVE  /\ Running' = Running \ {d} /\ OthersKept(d)
         /\ pc' \in [DOMAIN event -> Place]
         /\ job' \in [DOMAIN event -> {"pending", "started", "done", "failed"}]
         /\ job'[d] = state /\ \A x \in DOMAIN event \ {d} : job'[x] = job[x]
         /\ DOMAIN seen' = Running' /\ own' \in [Running' -> OwnType]
<1>1. /\ pc' = [pc EXCEPT ![d] = "none"]
      /\ job' = [job EXCEPT ![d] = state]
      /\ seen' = [x \in DOMAIN seen \ {d} |-> seen[x]]
      /\ own' = [x \in DOMAIN own \ {d} |-> own[x]]
  BY DEF End, Goto
<1>2. Running' = Running \ {d}
  BY <1>1 DEF Running, Types
<1>3. DOMAIN seen = Running /\ DOMAIN own = Running /\ own \in [Running -> OwnType]
  BY DEF Types
<1>4. pc' \in [DOMAIN event -> Place]
  BY <1>1, RunningFacts DEF Types, Place
<1>5. /\ job' \in [DOMAIN event -> {"pending", "started", "done", "failed"}]
      /\ job'[d] = state /\ \A x \in DOMAIN event \ {d} : job'[x] = job[x]
  BY <1>1, RunningFacts DEF Types
<1>6. \A x \in Running \ {d} : pc'[x] = pc[x] /\ seen'[x] = seen[x] /\ own'[x] = own[x]
  BY <1>1, <1>3, RunningFacts DEF Types
<1>7. DOMAIN seen' = Running' /\ own' \in [Running' -> OwnType]
  BY <1>1, <1>2, <1>3
<1> QED
  BY <1>2, <1>4, <1>5, <1>6, <1>7, RunningFacts DEF OthersKept

LEMMA OverwriteStep ==
  ASSUME Types, NEW d \in Running, NEW rows, Overwrite(d, rows)
  PROVE  /\ DOMAIN stale' = Running \ {d}
         /\ \A x \in Running \ {d} : stale'[x] = stale[x] \cup rows
BY DEF Overwrite, Types

LEMMA RollbackStep ==
  ASSUME Types, NEW d \in Running, NEW state \in {"pending", "failed"}, Rollback(d, state)
  PROVE  /\ Types' /\ Running' = Running \ {d} /\ TablesKept /\ OthersKept(d)
         /\ job'[d] = state /\ \A x \in DOMAIN event \ {d} : job'[x] = job[x]
         /\ \A x \in Running \ {d} : stale'[x] = stale[x]
<1>1. /\ End(d, state) /\ Overwrite(d, {})
      /\ UNCHANGED <<event, partner, channel, message, capacity, replies, last, first>>
  BY DEF Rollback, tables
<1>2. DOMAIN stale' = Running \ {d} /\ \A x \in Running \ {d} : stale'[x] = stale[x]
  <2>1. DOMAIN stale' = Running \ {d} /\ \A x \in Running \ {d} : stale'[x] = stale[x] \cup {}
    BY <1>1, OverwriteStep
  <2> QED
    BY <2>1
<1>3. Types'
  BY <1>1, <1>2, EndStep DEF Types
<1> QED
  BY <1>1, <1>2, <1>3, EndStep DEF TablesKept

LEMMA StartStep ==
  ASSUME Types, NEW d, Start(d)
  PROVE  /\ Types' /\ d \in DOMAIN event \ Running /\ Running' = Running \cup {d}
         /\ TablesKept /\ OthersKept(d)
         /\ job[d] = "pending" /\ job'[d] = "started"
         /\ \A x \in DOMAIN event \ {d} : job'[x] = job[x]
         /\ pc'[d] = "check" /\ own'[d] = Nothing /\ stale'[d] = {}
         /\ seen'[d] = [partner |-> partner, channel |-> channel, message |-> message]
         /\ \A x \in Running : stale'[x] = stale[x]
         /\ Cardinality(Running) < capacity
<1> DEFINE table == [partner |-> partner, channel |-> channel, message |-> message]
<1>1. /\ d \in DOMAIN job /\ job[d] = "pending" /\ pc[d] = "none"
      /\ Cardinality(Running) < capacity
      /\ pc' = [pc EXCEPT ![d] = "check"]
      /\ job' = [job EXCEPT ![d] = "started"]
      /\ seen' = Put(seen, d, table)
      /\ own' = Put(own, d, Nothing)
      /\ stale' = Put(stale, d, {})
      /\ UNCHANGED <<event, partner, channel, message, capacity, replies, last, first>>
  BY DEF Start, Goto, tables
<1>2. d \in DOMAIN event \ Running
  BY <1>1, RunningFacts
<1>3. /\ Running' = Running \cup {d}
      /\ pc' \in [DOMAIN event -> Place]
      /\ pc'[d] = "check" /\ \A x \in Running : pc'[x] = pc[x]
  <2>1. /\ pc' \in [DOMAIN event -> Place]
        /\ pc'[d] = "check" /\ \A x \in DOMAIN event \ {d} : pc'[x] = pc[x]
    BY <1>1, <1>2, RunningFacts DEF Types, Place
  <2>2. Running' = Running \cup {d}
    BY <1>2, <2>1 DEF Running, Types
  <2> QED
    BY <1>2, <2>1, <2>2, RunningFacts
<1>4. /\ job' \in [DOMAIN event -> {"pending", "started", "done", "failed"}]
      /\ job'[d] = "started" /\ \A x \in DOMAIN event \ {d} : job'[x] = job[x]
  BY <1>1, <1>2, RunningFacts DEF Types
<1>5. DOMAIN seen = Running /\ DOMAIN own = Running /\ DOMAIN stale = Running
      /\ own \in [DOMAIN own -> OwnType]
  BY DEF Types
<1>6. Nothing \in OwnType
  BY DEF Nothing, OwnType
<1> HIDE DEF table
<1>7. DOMAIN seen' = Running' /\ seen'[d] = table /\ \A x \in Running : seen'[x] = seen[x]
  BY <1>1, <1>2, <1>3, <1>5 DEF Put
<1>8. DOMAIN stale' = Running' /\ stale'[d] = {} /\ \A x \in Running : stale'[x] = stale[x]
  BY <1>1, <1>2, <1>3, <1>5 DEF Put
<1>9. DOMAIN own' = Running' /\ own'[d] = Nothing /\ \A x \in Running : own'[x] = own[x]
  BY <1>1, <1>2, <1>3, <1>5 DEF Put
<1>10. own' \in [Running' -> OwnType]
  <2>1. own' \in [DOMAIN own \cup {d} -> OwnType]
    BY <1>1, <1>5, <1>6, PutType
  <2> QED
    BY <1>3, <1>5, <2>1
<1>11. Types'
  BY <1>1, <1>3, <1>4, <1>7, <1>8, <1>10 DEF Types
<1>12. OthersKept(d)
  BY <1>2, <1>3, <1>4, <1>7, <1>9, RunningFacts DEF OthersKept
<1> QED
  BY <1>1, <1>2, <1>3, <1>4, <1>7, <1>8, <1>9, <1>11, <1>12 DEF TablesKept, table

LEMMA ReceiveStep ==
  ASSUME Types, NEW d \in Delivery, Receive(d)
  PROVE  /\ Types' /\ d \notin DOMAIN event /\ Running' = Running
         /\ DOMAIN event' = DOMAIN event \cup {d}
         /\ job'[d] = "pending" /\ d \notin Running
         /\ \A x \in DOMAIN event : event'[x] = event[x] /\ job'[x] = job[x] /\ pc'[x] = pc[x]
         /\ UNCHANGED <<partner, channel, message, seen, own, stale, capacity, last, first>>
<1>1. /\ d \notin DOMAIN event
      /\ job' = Put(job, d, "pending") /\ pc' = Put(pc, d, "none")
      /\ UNCHANGED <<partner, channel, message, seen, own, stale, capacity, replies, last, first>>
  BY DEF Receive, tables
<1>2. PICK e \in Event : event' = Put(event, d, e)
  BY DEF Receive
<1>3. DOMAIN event' = DOMAIN event \cup {d} /\ event' \in [DOMAIN event' -> Event]
  <2>1. event' \in [DOMAIN event \cup {d} -> Event]
    BY <1>2, PutType DEF Types
  <2> QED
    BY <2>1
<1>4. /\ job' \in [DOMAIN event' -> {"pending", "started", "done", "failed"}]
      /\ job'[d] = "pending"
  BY <1>1, <1>3 DEF Types, Put
<1>5. /\ pc' \in [DOMAIN event' -> Place]
      /\ pc'[d] = "none"
  BY <1>1, <1>3 DEF Types, Put, Place
<1>6. \A x \in DOMAIN event : event'[x] = event[x] /\ job'[x] = job[x] /\ pc'[x] = pc[x]
  BY <1>1, <1>2, RunningFacts DEF Put
<1>7. Running' = Running
  BY <1>3, <1>5, <1>6, RunningFacts DEF Running
<1>8. Types'
  BY <1>1, <1>3, <1>4, <1>5, <1>7 DEF Types
<1> QED
  BY <1>1, <1>3, <1>4, <1>6, <1>7, <1>8, RunningFacts

LEMMA SenderFacts ==
  ASSUME Types, NEW d \in DOMAIN event
  PROVE  /\ event[d] \in Event /\ Sent(d) \in Sender \cup {NoSender}
         /\ event[d].session \in {e.session : e \in Event} /\ event[d].files \in SUBSET AnyFile
<1>1. event[d] \in Event
  BY DEF Types
<1>2. event[d] \in [id : {e.id : e \in Event}, sender : Sender \cup {NoSender},
                   session : {e.session : e \in Event},
                   channel : {e.channel : e \in Event}, incoming : BOOLEAN,
                   files : SUBSET UNION {e.files : e \in Event}]
  BY <1>1, EventAssumption
<1> QED
  BY <1>1, <1>2 DEF Sent, AnyFile

(* The row of the channel that d commits.                                  *)
ChannelRow(d) == [sender |-> Sent(d), session |-> event[d].session, joined |-> TRUE]

LEMMA FinishStep ==
  ASSUME Types, LocalInv, SnapshotInv, NEW d \in Running, Finish(d)
  PROVE  /\ Types' /\ Running' = Running \ {d} /\ OthersKept(d)
         /\ UNCHANGED <<event, capacity, replies, first>>
         /\ job'[d] = "done" /\ \A x \in DOMAIN event \ {d} : job'[x] = job[x]
         /\ pc[d] = "finish"
         /\ \A x \in Running \ {d} : stale'[x] = stale[x] \cup Rows(d)
         /\ DOMAIN partner' = DOMAIN partner
                               \cup (IF own[d].partner = "created" THEN {Sent(d)} ELSE {})
         /\ Posted(d) => /\ own[d].channel \in Sender \cup Delivery /\ Sent(d) \in Sender
                         /\ channel' = IF own[d].metadata
                                       THEN Put(channel, own[d].channel, ChannelRow(d)) ELSE channel
                         /\ message' = message \cup {MessageOf(d)}
                         /\ last' = Put(last, own[d].channel, event[d].session)
         /\ ~ Posted(d) => UNCHANGED <<channel, message, last>>
<1>1. /\ pc[d] = "finish" /\ End(d, "done") /\ Overwrite(d, Rows(d))
      /\ partner' = IF own[d].partner \in {"created", "flagged"}
                    THEN Put(partner, event[d].sender, TRUE) ELSE partner
      /\ Posted(d) => /\ channel' = IF own[d].metadata
                                    THEN Put(channel, own[d].channel, ChannelRow(d)) ELSE channel
                      /\ message' = message \cup {MessageOf(d)}
                      /\ last' = Put(last, own[d].channel, event[d].session)
      /\ ~ Posted(d) => UNCHANGED <<channel, message, last>>
      /\ UNCHANGED <<event, capacity, replies, first>>
  BY DEF Finish, At, ChannelRow, Sent
<1>2. /\ own[d].partner = "flagged" => Sent(d) \in DOMAIN partner
      /\ own[d].partner = "created" => Sent(d) \in Sender
      /\ Posted(d) => own[d].partner # "none"
      /\ own[d].metadata => Posted(d)
      /\ own[d] \in OwnType
  BY DEF LocalInv, LocalAt, LocalPartner, LocalChannel, SnapshotInv, Snapshot, Types, Posted
<1>3. /\ DOMAIN partner \subseteq Sender /\ partner \in [DOMAIN partner -> BOOLEAN]
      /\ \A x \in Running : Sent(x) \in DOMAIN seen[x].partner => Sent(x) \in Sender
  BY DEF Types, SnapshotInv, Snapshot
<1>4. Posted(d) => own[d].channel \in Sender \cup Delivery /\ Sent(d) \in Sender
  BY <1>2, <1>3 DEF Posted, OwnType, LocalInv, LocalAt, LocalPartner
<1>5. /\ partner' \in [DOMAIN partner' -> BOOLEAN] /\ DOMAIN partner' \subseteq Sender
      /\ DOMAIN partner' = DOMAIN partner
                            \cup (IF own[d].partner = "created" THEN {Sent(d)} ELSE {})
  <2>1. CASE own[d].partner \in {"created", "flagged"}
    <3>1. partner' = Put(partner, Sent(d), TRUE)
      BY <1>1, <2>1 DEF Sent
    <3>2. DOMAIN partner' = DOMAIN partner \cup {Sent(d)}
      BY <3>1 DEF Put
    <3>3. partner' \in [DOMAIN partner \cup {Sent(d)} -> BOOLEAN]
      BY <1>3, <3>1, PutType
    <3> QED
      BY <1>2, <1>3, <2>1, <3>2, <3>3
  <2>2. CASE own[d].partner \notin {"created", "flagged"}
    <3>1. partner' = partner
      BY <1>1, <2>2
    <3> QED
      BY <1>3, <2>2, <3>1
  <2> QED
    BY <2>1, <2>2
<1>6. /\ channel' \in [DOMAIN channel' -> ChannelType]
      /\ DOMAIN channel' \subseteq Sender \cup Delivery
  <2>1. channel \in [DOMAIN channel -> ChannelType] /\ DOMAIN channel \subseteq Sender \cup Delivery
    BY DEF Types
  <2>2. CASE Posted(d) /\ own[d].metadata
    <3>1. channel' = Put(channel, own[d].channel, ChannelRow(d))
      BY <1>1, <2>2
    <3>2. ChannelRow(d) \in ChannelType
      BY <1>4, <2>2, SenderFacts, RunningFacts DEF ChannelRow, ChannelType
    <3>3. DOMAIN channel' = DOMAIN channel \cup {own[d].channel}
      BY <3>1 DEF Put
    <3>4. channel' \in [DOMAIN channel \cup {own[d].channel} -> ChannelType]
      BY <2>1, <3>1, <3>2, PutType
    <3> QED
      BY <1>4, <2>1, <2>2, <3>3, <3>4
  <2>3. CASE ~ (Posted(d) /\ own[d].metadata)
    BY <1>1, <2>1, <2>3
  <2> QED
    BY <2>2, <2>3
<1>7. /\ DOMAIN stale' = Running \ {d}
      /\ \A x \in Running \ {d} : stale'[x] = stale[x] \cup Rows(d)
  BY <1>1, OverwriteStep
<1>8. Types'
  BY <1>1, <1>5, <1>6, <1>7, EndStep DEF Types
<1> QED
  BY <1>1, <1>4, <1>5, <1>7, <1>8, EndStep

-----------------------------------------------------------------------------
(* The statements of a job.                                                *)
Progress(d, place, written) ==
  \/ /\ pc[d] = "check" /\ ~ event[d].incoming
     /\ place = "finish" /\ written = own[d]
  \/ /\ pc[d] = "check" /\ event[d].incoming /\ Duplicates(d) = {}
     /\ place = "partner" /\ written = own[d]
  \/ /\ pc[d] = "check" /\ Duplicates(d) # {}
     /\ place = "finish" /\ written = [own[d] EXCEPT !.locked = TRUE]
  \/ /\ pc[d] = "partner" /\ Sent(d) \in DOMAIN seen[d].partner
     /\ place = "channel"
     /\ \E p \in {"locked", "flagged"} : written = [own[d] EXCEPT !.partner = p]
  \/ /\ pc[d] = "partner" /\ Sent(d) \in Sender \ DOMAIN seen[d].partner
     /\ place = "create" /\ written = own[d]
  \/ /\ pc[d] = "create" /\ Sent(d) \notin DOMAIN partner
     /\ \A x \in Running : own[x].partner = "created" /\ Sent(x) = Sent(d) => x = d
     /\ place = "channel" /\ written = [own[d] EXCEPT !.partner = "created"]
  \/ /\ pc[d] = "channel" /\ ChannelsOf(seen[d].channel, Sent(d)) = {}
     /\ place = "post"
     /\ written = [own[d] EXCEPT !.channel = d, !.new = TRUE, !.metadata = TRUE]
  \/ /\ pc[d] = "channel" /\ place = "post"
     /\ \E c \in ChannelsOf(seen[d].channel, Sent(d)) :
          \/ /\ seen[d].channel[c].session = event[d].session
             /\ written = [own[d] EXCEPT !.channel = c]
          \/ /\ ~ Written(d, c) /\ <<"channel", c>> \notin stale[d]
             /\ written = [own[d] EXCEPT !.channel = c, !.metadata = TRUE, !.wrote = TRUE]
  \/ /\ pc[d] = "post" /\ place = "finish"
     /\ \/ own[d].new
        \/ ~ Written(d, own[d].channel) /\ <<"channel", own[d].channel>> \notin stale[d]
     /\ \E files \in SUBSET event[d].files :
          written = [own[d] EXCEPT !.files = files, !.wrote = TRUE]

(* Why the job of d fails.                                                 *)
Refused(d) ==
  \/ Sent(d) = NoSender
  \/ \E x \in Running : x # d
  \/ \E m \in Duplicates(d) : <<"message", m>> \in stale[d]
  \/ Sent(d) \in DOMAIN seen[d].partner /\ <<"partner", Sent(d)>> \in stale[d]
  \/ pc[d] = "create" /\ Sent(d) \in DOMAIN partner
  \/ \E c \in DOMAIN seen[d].channel : MemberInserted(d, c)

RollsBack(d) ==
  \/ Rollback(d, "pending")
  \/ Rollback(d, "failed") /\ Refused(d)

LEMMA WorkCases ==
  ASSUME NEW d, Work(d), Types
  PROVE  \/ Start(d)
         \/ d \in Running /\ Finish(d)
         \/ d \in Running /\ RollsBack(d)
         \/ /\ d \in Running
            /\ \E place \in {"partner", "create", "channel", "post", "finish"} : \E written :
                 Statement(d, place, written) /\ Progress(d, place, written)
<1> SUFFICES ASSUME ~ Start(d)
             PROVE  \/ d \in Running /\ Finish(d)
                    \/ d \in Running /\ RollsBack(d)
                    \/ /\ d \in Running
                       /\ \E place \in {"partner", "create", "channel", "post", "finish"} :
                            \E written : Statement(d, place, written) /\ Progress(d, place, written)
  OBVIOUS
<1>1. /\ Fail(d) /\ Refused(d) => RollsBack(d)
      /\ Postpone(d) => RollsBack(d)
  BY DEF Fail, Postpone, RollsBack
<1>0. \A place \in Place \ {"none"} : At(d, place) => d \in Running /\ pc[d] = place
  BY DEF At, Running
<1>2. CASE Skip(d)
  <2>1. d \in Running /\ pc[d] = "check"
    BY <1>0, <1>2 DEF Skip, Place
  <2> QED
    BY <1>2, <2>1 DEF Skip, Progress
<1>3. CASE CheckDuplicate(d)
  <2>1. d \in Running /\ pc[d] = "check"
    BY <1>0, <1>3 DEF CheckDuplicate, Place
  <2> QED
    BY <1>1, <1>3, <2>1 DEF CheckDuplicate, Progress, Refused, Others
<1>4. CASE LockPartner(d)
  <2>1. d \in Running /\ pc[d] = "partner"
    BY <1>0, <1>4 DEF LockPartner, Place
  <2> QED
    BY <1>1, <1>4, <2>1 DEF LockPartner, Progress, Sent, Refused, Others
<1>5. CASE CreatePartner(d)
  <2>1. d \in Running /\ pc[d] = "create"
    BY <1>0, <1>5 DEF CreatePartner, Place
  <2> QED
    BY <1>1, <1>5, <2>1 DEF CreatePartner, Progress, Sent, Others, Refused
<1>6. CASE FindChannel(d)
  <2>1. d \in Running /\ pc[d] = "channel"
    BY <1>0, <1>6 DEF FindChannel, Place
  <2>2. CASE /\ ChannelsOf(seen[d].channel, Sent(d)) = {}
             /\ Statement(d, "post", [own[d] EXCEPT !.channel = d, !.new = TRUE, !.metadata = TRUE])
    BY <2>1, <2>2 DEF Progress
  <2>3. ASSUME NEW c \in ChannelsOf(seen[d].channel, Sent(d)),
               UpToDate(d, c) /\ Statement(d, "post", [own[d] EXCEPT !.channel = c])
        PROVE  \E written : Statement(d, "post", written) /\ Progress(d, "post", written)
    BY <2>1, <2>3 DEF Progress, UpToDate
  <2>4. ASSUME NEW c \in ChannelsOf(seen[d].channel, Sent(d)), MemberInserted(d, c), Fail(d)
        PROVE  RollsBack(d)
    BY <1>1, <2>4 DEF ChannelsOf, Refused
  <2>5. ASSUME NEW c \in ChannelsOf(seen[d].channel, Sent(d)),
               UpdateChannel(d, c, "post",
                 [own[d] EXCEPT !.channel = c, !.metadata = TRUE, !.wrote = TRUE])
        PROVE  \/ RollsBack(d)
               \/ \E written : Statement(d, "post", written) /\ Progress(d, "post", written)
    BY <1>1, <2>1, <2>5 DEF Progress, UpdateChannel
  <2> QED
    BY <1>6, <2>1, <2>2, <2>3, <2>4, <2>5 DEF FindChannel, ChannelsOf, Sent
<1>7. CASE Post(d)
  <2>1. d \in Running /\ pc[d] = "post"
    BY <1>0, <1>7 DEF Post, Place
  <2>2. PICK files \in SUBSET event[d].files :
          LET written == [own[d] EXCEPT !.files = files, !.wrote = TRUE]
          IN IF own[d].new THEN Statement(d, "finish", written)
                           ELSE UpdateChannel(d, own[d].channel, "finish", written)
    BY <1>7 DEF Post, Attachments
  <2>3. \/ RollsBack(d)
        \/ /\ Statement(d, "finish", [own[d] EXCEPT !.files = files, !.wrote = TRUE])
           /\ \/ own[d].new
              \/ ~ Written(d, own[d].channel) /\ <<"channel", own[d].channel>> \notin stale[d]
    BY <1>1, <2>2 DEF UpdateChannel
  <2> QED
    BY <2>1, <2>3 DEF Progress
<1>8. CASE Finish(d)
  BY <1>0, <1>8 DEF Finish, Place
<1> QED
  BY <1>2, <1>3, <1>4, <1>5, <1>6, <1>7, <1>8 DEF Work

LEMMA WrittenType ==
  ASSUME Types, SnapshotInv, NEW d \in Running, NEW place, NEW w, Progress(d, place, w)
  PROVE  w \in OwnType
<1>1. own[d] \in OwnType /\ d \in Delivery
  BY RunningFacts DEF Types
<1>2. event[d].files \in SUBSET AnyFile
  BY SenderFacts, RunningFacts
<1>3. \A c \in ChannelsOf(seen[d].channel, Sent(d)) : c \in Sender \cup Delivery
  BY DEF ChannelsOf, SnapshotInv, Snapshot, Types
<1> QED
  BY <1>1, <1>2, <1>3 DEF Progress, OwnType

LEMMA LocalKept ==
  ASSUME NEW x, LocalAt(x, pc[x], own[x]), pc'[x] = pc[x], own'[x] = own[x],
         seen'[x] = seen[x], event'[x] = event[x]
  PROVE  LocalAt(x, pc[x], own[x])'
<1>1. Sent(x)' = Sent(x) /\ Duplicates(x)' = Duplicates(x)
  BY DEF Sent, Duplicates
<1>2. LocalPlace(x, pc[x], own[x])'
  BY <1>1 DEF LocalAt, LocalPlace, Nothing
<1>3. LocalPartner(x, own[x])'
  BY <1>1 DEF LocalAt, LocalPartner
<1>4. LocalChannel(x, own[x])'
  BY <1>1 DEF LocalAt, LocalChannel, ChannelsOf
<1> QED
  BY <1>2, <1>3, <1>4 DEF LocalAt

LEMMA ProgressLocal ==
  ASSUME Types, LocalInv, SnapshotInv, NEW d \in Running, NEW place, NEW w, Progress(d, place, w)
  PROVE  LocalAt(d, place, w)
<1> DEFINE o == own[d]
           found == ChannelsOf(seen[d].channel, Sent(d))
<1>1. o \in OwnType /\ LocalPlace(d, pc[d], o) /\ LocalPartner(d, o) /\ LocalChannel(d, o)
  BY DEF Types, LocalInv, LocalAt
<1>2. \A c \in found : c # NoChannel
  BY ChannelAssumption DEF ChannelsOf, SnapshotInv, Snapshot, Types
<1>3. d # NoChannel
  BY ChannelAssumption, RunningFacts DEF Types
<1> HIDE DEF o
<1>4. ASSUME w = o, place \in {"finish", "partner", "create"}, pc[d] \in {"check", "partner"},
             place = "finish" => ~ event[d].incoming,
             place # "finish" => event[d].incoming /\ Duplicates(d) = {},
             place = "create" => Sent(d) \in Sender \ DOMAIN seen[d].partner
      PROVE  LocalAt(d, place, w)
  BY <1>1, <1>4 DEF LocalAt, LocalPlace, LocalPartner, LocalChannel, Nothing
<1>5. ASSUME pc[d] = "check", Duplicates(d) # {},
             place = "finish", w = [o EXCEPT !.locked = TRUE]
      PROVE  LocalAt(d, place, w)
  <2>1. /\ w.partner = "none" /\ w.channel = NoChannel /\ ~ w.metadata /\ ~ w.new
        /\ ~ w.wrote /\ w.files = {}
    BY <1>1, <1>5 DEF LocalPlace, Nothing
  <2> QED
    BY <1>5, <2>1 DEF LocalAt, LocalPlace, LocalPartner, LocalChannel
<1>6. ASSUME pc[d] \in {"partner", "create"}, place = "channel",
             NEW p \in {"locked", "flagged", "created"}, w = [o EXCEPT !.partner = p],
             p # "created" => Sent(d) \in DOMAIN seen[d].partner,
             p = "created" => pc[d] = "create"
      PROVE  LocalAt(d, place, w)
  <2>1. /\ w.partner = p /\ w.channel = NoChannel /\ ~ w.metadata /\ ~ w.new
        /\ ~ w.wrote /\ w.files = {}
    BY <1>1, <1>6 DEF LocalPlace, Nothing
  <2> QED
    BY <1>1, <1>6, <2>1 DEF LocalAt, LocalPlace, LocalPartner, LocalChannel
<1>7. ASSUME pc[d] = "channel", found = {}, place = "post",
             w = [o EXCEPT !.channel = d, !.new = TRUE, !.metadata = TRUE]
      PROVE  LocalAt(d, place, w)
  <2>1. /\ w.partner = o.partner /\ w.channel = d /\ w.metadata /\ w.new
        /\ w.wrote = o.wrote /\ w.files = o.files
    BY <1>1, <1>7 DEF OwnType
  <2> QED
    BY <1>1, <1>3, <1>7, <2>1 DEF LocalAt, LocalPlace, LocalPartner, LocalChannel
<1>8. ASSUME pc[d] = "channel", place = "post", NEW c \in found,
             \/ /\ seen[d].channel[c].session = event[d].session
                /\ w = [o EXCEPT !.channel = c]
             \/ w = [o EXCEPT !.channel = c, !.metadata = TRUE, !.wrote = TRUE]
      PROVE  LocalAt(d, place, w)
  <2>1. /\ w.partner = o.partner /\ w.channel = c /\ ~ w.new /\ w.files = o.files
        /\ w.metadata \/ seen[d].channel[c].session = event[d].session
    BY <1>1, <1>8 DEF OwnType, LocalPlace, LocalChannel
  <2> QED
    BY <1>1, <1>2, <1>8, <2>1 DEF LocalAt, LocalPlace, LocalPartner, LocalChannel
<1>9. ASSUME pc[d] = "post", place = "finish", NEW files \in SUBSET event[d].files,
             w = [o EXCEPT !.files = files, !.wrote = TRUE]
      PROVE  LocalAt(d, place, w)
  <2>1. /\ w.partner = o.partner /\ w.channel = o.channel /\ w.new = o.new
        /\ w.metadata = o.metadata /\ w.wrote /\ w.files = files
    BY <1>1, <1>9 DEF OwnType
  <2> QED
    BY <1>1, <1>9, <2>1 DEF LocalAt, LocalPlace, LocalPartner, LocalChannel
<1>10. pc[d] = "partner" => event[d].incoming /\ Duplicates(d) = {}
  BY <1>1 DEF LocalPlace
<1> QED
  BY <1>4, <1>5, <1>6, <1>7, <1>8, <1>9, <1>10 DEF Progress, o

-----------------------------------------------------------------------------
(* The steps that change neither the tables nor what jobs see and hold.    *)
LEMMA SnapshotKept ==
  ASSUME NEW x, Snapshot(x), seen'[x] = seen[x], stale[x] \subseteq stale'[x],
         UNCHANGED <<partner, channel, message, first>>
  PROVE  Snapshot(x)'
BY DEF Snapshot, ChannelsOf

LEMMA ReceiveInv ==
  ASSUME IInv, NEW d \in Delivery, Receive(d)
  PROVE  IInv'
<1>1. /\ Types' /\ d \notin DOMAIN event /\ Running' = Running
      /\ DOMAIN event' = DOMAIN event \cup {d}
      /\ job'[d] = "pending" /\ d \notin Running
      /\ \A x \in DOMAIN event : event'[x] = event[x] /\ job'[x] = job[x] /\ pc'[x] = pc[x]
      /\ UNCHANGED <<partner, channel, message, seen, own, stale, capacity, last, first>>
  BY ReceiveStep DEF IInv
<1>2. Running \subseteq DOMAIN event /\ DOMAIN job = DOMAIN event /\ DOMAIN job' = DOMAIN event'
  BY <1>1, RunningFacts DEF IInv, Types
<1>3. LocalInv'
  BY <1>1, <1>2, LocalKept DEF IInv, LocalInv
<1>4. SnapshotInv'
  BY <1>1, SnapshotKept DEF IInv, SnapshotInv
<1>5. HeldInv'
  BY <1>1, <1>2 DEF IInv, HeldInv, Sent
<1>6. TableInv'
  BY <1>1, <1>2 DEF IInv, TableInv, Sent, ChannelsOf
<1>7. AloneInv'
  BY <1>1 DEF IInv, AloneInv
<1>8. DoneMeansStored'
  <2>1. \A m \in message : m.by \in DOMAIN event
    BY DEF IInv, TableInv
  <2> QED
    BY <1>1, <1>2, <2>1 DEF IInv, DoneMeansStored
<1>9. StoredOnce'
  <2>1. \A m \in message : m.by \in DOMAIN event
    BY DEF IInv, TableInv
  <2> QED
    BY <1>1, <2>1 DEF IInv, StoredOnce
<1>10. OneChannelPerSender' /\ RepliesToLastSession'
  BY <1>1 DEF IInv, OneChannelPerSender, RepliesToLastSession
<1>11. NothingLostOneByOne'
  BY <1>1, <1>2 DEF IInv, NothingLostOneByOne, NothingLost
<1> QED
  BY <1>1, <1>3, <1>4, <1>5, <1>6, <1>7, <1>8, <1>9, <1>10, <1>11 DEF IInv

(* The properties of the tables, while these do not change and no job is   *)
(* done or fails.                                                          *)
LEMMA TablesSafe ==
  ASSUME IInv, TablesKept, NEW d \in DOMAIN event, job[d] # "done",
         job'[d] \notin {"done", "failed"}, DOMAIN job' = DOMAIN job,
         \A x \in DOMAIN event \ {d} : job'[x] = job[x]
  PROVE  /\ TableInv' /\ DoneMeansStored' /\ StoredOnce' /\ OneChannelPerSender'
         /\ RepliesToLastSession' /\ NothingLostOneByOne'
<1>1. DOMAIN job = DOMAIN event
  BY DEF IInv, Types
<1>2. TableInv'
  BY <1>1 DEF IInv, TableInv, TablesKept, Sent, ChannelsOf
<1>3. DoneMeansStored'
  BY DEF IInv, TableInv, DoneMeansStored, TablesKept
<1>4. StoredOnce' /\ OneChannelPerSender' /\ RepliesToLastSession'
  BY DEF IInv, StoredOnce, OneChannelPerSender, RepliesToLastSession, TablesKept
<1>5. NothingLostOneByOne'
  BY <1>1 DEF IInv, NothingLostOneByOne, NothingLost, TablesKept
<1> QED
  BY <1>2, <1>3, <1>4, <1>5

LEMMA RunningFinite ==
  ASSUME Types, Cardinality(Running) < 1
  PROVE  Running = {}
<1>1. Running \in SUBSET (1..MaxDeliveries) /\ MaxDeliveries \in Nat
  BY RunningFacts, CapacityAssumption DEF Types, Delivery
<1>2. IsFiniteSet(1..MaxDeliveries)
  BY <1>1, FS_Interval
<1>3. IsFiniteSet(Running)
  BY <1>1, <1>2, FS_Subset
<1>4. Cardinality(Running) \in Nat
  BY <1>3, FS_CardinalityType
<1> QED
  BY <1>3, <1>4, FS_EmptySet

LEMMA StartInv ==
  ASSUME IInv, NEW d, Start(d)
  PROVE  IInv'
<1>1. /\ Types' /\ d \in DOMAIN event \ Running /\ Running' = Running \cup {d}
      /\ TablesKept /\ OthersKept(d)
      /\ job[d] = "pending" /\ job'[d] = "started"
      /\ \A x \in DOMAIN event \ {d} : job'[x] = job[x]
      /\ pc'[d] = "check" /\ own'[d] = Nothing /\ stale'[d] = {}
      /\ seen'[d] = [partner |-> partner, channel |-> channel, message |-> message]
      /\ \A x \in Running : stale'[x] = stale[x]
      /\ Cardinality(Running) < capacity
  BY StartStep DEF IInv
<1>2. /\ DOMAIN job' = DOMAIN job
      /\ UNCHANGED <<event, partner, channel, message, capacity, last, first>>
      /\ \A x \in Running : /\ job'[x] = job[x] /\ pc'[x] = pc[x] /\ x # d
                            /\ seen'[x] = seen[x] /\ own'[x] = own[x]
  BY <1>1 DEF IInv, Types, TablesKept, OthersKept
<1>3. /\ Nothing.partner = "none" /\ Nothing.channel = NoChannel /\ ~ Nothing.metadata
      /\ ~ Nothing.new /\ ~ Nothing.wrote /\ Nothing.files = {}
  BY DEF Nothing
<1>4. LocalInv'
  <2>1. \A x \in Running : job'[x] = "started" /\ LocalAt(x, pc[x], own[x])'
    BY <1>2, LocalKept DEF IInv, LocalInv
  <2>2. LocalAt(d, pc[d], own[d])'
    BY <1>1, <1>3 DEF LocalAt, LocalPlace, LocalPartner, LocalChannel, Nothing
  <2> QED
    BY <1>1, <2>1, <2>2 DEF LocalInv
<1>5. SnapshotInv'
  <2>1. \A x \in Running : Snapshot(x)'
    BY <1>1, <1>2, SnapshotKept DEF IInv, SnapshotInv
  <2>2. Snapshot(d)'
    BY <1>1, <1>2 DEF Snapshot, IInv, TableInv, ChannelsOf
  <2> QED
    BY <1>1, <2>1, <2>2 DEF SnapshotInv
<1>6. HeldInv'
  BY <1>1, <1>2, <1>3 DEF IInv, HeldInv, Sent
<1>7. AloneInv'
  <2> SUFFICES ASSUME capacity = 1
               PROVE  AloneInv'
    BY <1>2 DEF AloneInv
  <2>1. Running = {}
    BY <1>1, RunningFinite DEF IInv
  <2>2. Running' = {d}
    BY <1>1, <2>1
  <2> QED
    BY <1>1, <1>2, <2>2 DEF AloneInv
<1> QED
  BY <1>1, <1>2, <1>4, <1>5, <1>6, <1>7, TablesSafe DEF IInv

LEMMA ProgressHeld ==
  ASSUME IInv, NEW d \in Running, NEW place, NEW w, Progress(d, place, w)
  PROVE  /\ w.wrote /\ ~ w.new => <<"channel", w.channel>> \notin stale[d]
         /\ w.wrote => \A x \in Running \ {d} : own[x].wrote => own[x].channel # w.channel
         /\ w.partner = "created" =>
              /\ Sent(d) \notin DOMAIN partner
              /\ \A x \in Running \ {d} : own[x].partner = "created" => Sent(x) # Sent(d)
<1> DEFINE o == own[d]
           Held(v) == /\ v.wrote /\ ~ v.new => <<"channel", v.channel>> \notin stale[d]
                      /\ v.wrote => \A x \in Running \ {d} :
                                      own[x].wrote => own[x].channel # v.channel
                      /\ v.partner = "created" =>
                           /\ Sent(d) \notin DOMAIN partner
                           /\ \A x \in Running \ {d} :
                                own[x].partner = "created" => Sent(x) # Sent(d)
<1>1. Held(o)
  BY DEF IInv, HeldInv
<1>2. /\ o \in OwnType /\ LocalPlace(d, pc[d], o) /\ LocalPartner(d, o) /\ LocalChannel(d, o)
      /\ job[d] = "started" /\ d \in Delivery
  BY RunningFacts DEF IInv, Types, LocalInv, LocalAt
<1>3. ASSUME NEW x \in Running \ {d}, own[x].wrote
      PROVE  own[x].channel # d
  <2>1. LocalChannel(x, own[x]) /\ own[x].wrote
    BY <1>3 DEF IInv, LocalInv, LocalAt
  <2>2. CASE own[x].new
    BY <2>1, <2>2 DEF LocalChannel
  <2>3. CASE ~ own[x].new
    <3>1. own[x].channel \in DOMAIN channel
      BY <2>1, <2>3 DEF LocalChannel, ChannelsOf, IInv, SnapshotInv, Snapshot
    <3> QED
      BY <1>2, <3>1 DEF IInv, TableInv
  <2> QED
    BY <2>2, <2>3
<1> HIDE DEF o
<1>4. CASE w = o
  BY <1>1, <1>4
<1>5. CASE w = [o EXCEPT !.locked = TRUE]
  <2>1. /\ w.wrote = o.wrote /\ w.new = o.new /\ w.channel = o.channel
        /\ w.partner = o.partner
    BY <1>2, <1>5 DEF OwnType
  <2> QED
    BY <1>1, <2>1
<1>6. ASSUME pc[d] \in {"partner", "create"},
             NEW p \in {"locked", "flagged", "created"}, w = [o EXCEPT !.partner = p],
             p = "created" =>
               /\ Sent(d) \notin DOMAIN partner
               /\ \A x \in Running : own[x].partner = "created" /\ Sent(x) = Sent(d) => x = d
      PROVE  Held(w)
  <2>1. w.partner = p /\ ~ w.wrote
    BY <1>2, <1>6 DEF LocalPlace, Nothing
  <2> QED
    BY <1>6, <2>1
<1>7. ASSUME w = [o EXCEPT !.channel = d, !.new = TRUE, !.metadata = TRUE]
      PROVE  Held(w)
  <2>1. w.partner = o.partner /\ w.channel = d /\ w.new /\ w.wrote = o.wrote
    BY <1>2, <1>7 DEF OwnType
  <2> QED
    BY <1>1, <1>3, <2>1
<1>8. ASSUME pc[d] = "channel", NEW c \in ChannelsOf(seen[d].channel, Sent(d)),
             \/ w = [o EXCEPT !.channel = c]
             \/ /\ ~ Written(d, c) /\ <<"channel", c>> \notin stale[d]
                /\ w = [o EXCEPT !.channel = c, !.metadata = TRUE, !.wrote = TRUE]
      PROVE  Held(w)
  <2>1. ~ o.wrote
    BY <1>2, <1>8 DEF LocalPlace, LocalChannel
  <2>2. w.partner = o.partner /\ w.channel = c
    BY <1>2, <1>8 DEF OwnType
  <2>3. w.wrote => ~ Written(d, c) /\ <<"channel", c>> \notin stale[d]
    BY <1>2, <1>8, <2>1 DEF OwnType
  <2> QED
    BY <1>1, <2>2, <2>3 DEF Written, Others
<1>9. ASSUME NEW files,
             w = [o EXCEPT !.files = files, !.wrote = TRUE], pc[d] = "post",
             o.new \/ (~ Written(d, o.channel) /\ <<"channel", o.channel>> \notin stale[d])
      PROVE  Held(w)
  <2>1. w.partner = o.partner /\ w.channel = o.channel /\ w.new = o.new
    BY <1>2, <1>9 DEF OwnType
  <2>2. o.new => o.channel = d
    BY <1>2 DEF LocalChannel
  <2> QED
    BY <1>1, <1>3, <1>9, <2>1, <2>2 DEF Written, Others
<1> QED
  BY <1>4, <1>5, <1>6, <1>7, <1>8, <1>9 DEF Progress, o

LEMMA ProgressInv ==
  ASSUME IInv, NEW d \in Running,
         NEW place \in {"partner", "create", "channel", "post", "finish"}, NEW w,
         Statement(d, place, w), Progress(d, place, w)
  PROVE  IInv'
<1>1. w \in OwnType
  BY WrittenType DEF IInv
<1>2. /\ Types' /\ Running' = Running /\ TablesKept /\ OthersKept(d)
      /\ pc'[d] = place /\ own'[d] = w
      /\ UNCHANGED <<seen, stale, job, replies>>
  BY <1>1, StatementStep DEF IInv
<1>3. /\ UNCHANGED <<event, partner, channel, message, capacity, last, first>>
      /\ \A x \in Running \ {d} : pc'[x] = pc[x] /\ own'[x] = own[x]
  BY <1>2 DEF TablesKept, OthersKept
<1>4. LocalInv'
  <2>1. \A x \in Running \ {d} : job'[x] = "started" /\ LocalAt(x, pc[x], own[x])'
    BY <1>2, <1>3, LocalKept DEF IInv, LocalInv
  <2>2. LocalAt(d, place, w)
    BY ProgressLocal DEF IInv
  <2>3. job'[d] = "started"
    BY <1>2 DEF IInv, LocalInv
  <2>4. Sent(d)' = Sent(d) /\ Duplicates(d)' = Duplicates(d)
    BY <1>2, <1>3 DEF Sent, Duplicates
  <2>5. LocalAt(d, pc[d], own[d])'
    <3>1. LocalPlace(d, pc[d], own[d])'
      BY <1>2, <1>3, <2>2, <2>4 DEF LocalAt, LocalPlace, Nothing
    <3>2. LocalPartner(d, own[d])'
      BY <1>2, <1>3, <2>2, <2>4 DEF LocalAt, LocalPartner
    <3>3. LocalChannel(d, own[d])'
      BY <1>2, <1>3, <2>2, <2>4 DEF LocalAt, LocalChannel, ChannelsOf
    <3> QED
      BY <3>1, <3>2, <3>3 DEF LocalAt
  <2> QED
    BY <1>2, <2>1, <2>3, <2>5 DEF LocalInv
<1>5. SnapshotInv'
  BY <1>2, <1>3, SnapshotKept DEF IInv, SnapshotInv
<1>6. HeldInv'
  <2>1. /\ w.wrote /\ ~ w.new => <<"channel", w.channel>> \notin stale[d]
        /\ w.wrote => \A x \in Running \ {d} : own[x].wrote => own[x].channel # w.channel
        /\ w.partner = "created" =>
             /\ Sent(d) \notin DOMAIN partner
             /\ \A x \in Running \ {d} : own[x].partner = "created" => Sent(x) # Sent(d)
    BY ProgressHeld
  <2>2. \A x \in Running : Sent(x)' = Sent(x)
    BY <1>3 DEF Sent
  <2> QED
    BY <1>2, <1>3, <2>1, <2>2 DEF IInv, HeldInv
<1>7. AloneInv'
  BY <1>2, <1>3 DEF IInv, AloneInv
<1>8. /\ TableInv' /\ DoneMeansStored' /\ StoredOnce' /\ OneChannelPerSender'
      /\ RepliesToLastSession' /\ NothingLostOneByOne'
  <2>1. d \in DOMAIN event /\ job[d] = "started"
    BY RunningFacts DEF IInv, LocalInv
  <2> QED
    BY <1>2, <2>1, TablesSafe
<1> QED
  BY <1>2, <1>4, <1>5, <1>6, <1>7, <1>8 DEF IInv

LEMMA RollbackInv ==
  ASSUME IInv, NEW d \in Running, RollsBack(d)
  PROVE  IInv'
<1>1. PICK state \in {"pending", "failed"} :
        Rollback(d, state) /\ (state = "failed" => Refused(d))
  BY DEF RollsBack
<1>2. /\ Types' /\ Running' = Running \ {d} /\ TablesKept /\ OthersKept(d)
      /\ job'[d] = state /\ \A x \in DOMAIN event \ {d} : job'[x] = job[x]
      /\ \A x \in Running \ {d} : stale'[x] = stale[x]
  BY <1>1, RollbackStep DEF IInv
<1>3. /\ UNCHANGED <<event, partner, channel, message, capacity, last, first>>
      /\ \A x \in Running' : /\ job'[x] = job[x] /\ pc'[x] = pc[x] /\ x \in Running
                             /\ seen'[x] = seen[x] /\ own'[x] = own[x]
                             /\ stale'[x] = stale[x]
  BY <1>2 DEF TablesKept, OthersKept
<1>4. /\ d \in DOMAIN event /\ job[d] = "started"
      /\ DOMAIN job = DOMAIN event /\ DOMAIN job' = DOMAIN job
  BY <1>2, <1>3, RunningFacts DEF IInv, LocalInv, Types
<1>5. LocalInv'
  BY <1>3, LocalKept DEF IInv, LocalInv
<1>6. SnapshotInv'
  BY <1>3, SnapshotKept DEF IInv, SnapshotInv
<1>7. HeldInv'
  BY <1>3 DEF IInv, HeldInv, Sent
<1>8. AloneInv'
  BY <1>3 DEF IInv, AloneInv
<1>9. /\ TableInv' /\ DoneMeansStored' /\ StoredOnce' /\ OneChannelPerSender'
      /\ RepliesToLastSession'
  <2>1. TableInv'
    BY <1>2, <1>3, <1>4 DEF IInv, TableInv, Sent, ChannelsOf
  <2>2. DoneMeansStored'
    BY <1>2, <1>3, <1>4 DEF IInv, TableInv, DoneMeansStored
  <2>3. StoredOnce' /\ OneChannelPerSender' /\ RepliesToLastSession'
    BY <1>3 DEF IInv, StoredOnce, OneChannelPerSender, RepliesToLastSession
  <2> QED
    BY <2>1, <2>2, <2>3
<1>10. NothingLostOneByOne'
  <2> SUFFICES ASSUME capacity = 1, state = "failed"
               PROVE  Sent(d) = NoSender
    BY <1>2, <1>3, <1>4 DEF IInv, NothingLostOneByOne, NothingLost, Sent
  <2>1. /\ \A x \in Running : d = x
        /\ message = seen[d].message
        /\ DOMAIN partner = DOMAIN seen[d].partner
        /\ \A c \in DOMAIN seen[d].channel : seen[d].channel[c] = channel[c]
        /\ \A s \in Sender : <<"partner", s>> \notin stale[d]
        /\ \A m \in message : <<"message", m>> \notin stale[d]
    BY DEF IInv, AloneInv
  <2>2. Duplicates(d) \subseteq message
    BY <2>1 DEF Duplicates
  <2>3. DOMAIN partner \subseteq Sender
    BY DEF IInv, Types
  <2>4. pc[d] = "create" => Sent(d) \notin DOMAIN partner
    BY <2>1 DEF IInv, LocalInv, LocalAt, LocalPlace
  <2>5. \A c \in DOMAIN seen[d].channel : ~ MemberInserted(d, c)
    BY <2>1 DEF MemberInserted
  <2>6. Refused(d)
    BY <1>1
  <2> QED
    BY <2>1, <2>2, <2>3, <2>4, <2>5, <2>6 DEF Refused
<1> QED
  BY <1>2, <1>5, <1>6, <1>7, <1>8, <1>9, <1>10 DEF IInv

-----------------------------------------------------------------------------
(* The end of a job.                                                       *)
LEMMA FinishChannel ==
  ASSUME IInv, NEW d \in Running, Finish(d)
  PROVE  /\ DOMAIN channel \subseteq DOMAIN channel'
         /\ \A c \in DOMAIN channel : channel'[c].sender = channel[c].sender
         /\ \A c \in DOMAIN channel :
              (Posted(d) /\ c = own[d].channel) \/ channel'[c] = channel[c]
         /\ \A c \in DOMAIN channel' \ DOMAIN channel :
              c = d /\ Posted(d) /\ own[d].new /\ channel'[c].sender = Sent(d)
         /\ Posted(d) => /\ own[d].channel \in DOMAIN channel'
                         /\ channel'[own[d].channel].sender = Sent(d)
                         /\ channel'[own[d].channel].session = event[d].session
<1> DEFINE c == own[d].channel
<1>1. /\ pc[d] = "finish"
      /\ Posted(d) => channel' = IF own[d].metadata THEN Put(channel, c, ChannelRow(d)) ELSE channel
      /\ ~ Posted(d) => channel' = channel
  BY FinishStep DEF IInv
<1>2. /\ LocalChannel(d, own[d]) /\ LocalPlace(d, pc[d], own[d])
      /\ job[d] = "started" /\ d \in Delivery
  BY RunningFacts DEF IInv, LocalInv, LocalAt, Types
<1>3. CASE ~ Posted(d)
  BY <1>1, <1>3
<1>4. CASE Posted(d) /\ own[d].metadata
  <2>1. /\ DOMAIN channel' = DOMAIN channel \cup {c} /\ channel'[c] = ChannelRow(d)
        /\ \A k \in DOMAIN channel \ {c} : channel'[k] = channel[k]
    <3>1. channel' = Put(channel, c, ChannelRow(d))
      BY <1>1, <1>4
    <3> QED
      BY <3>1 DEF Put
  <2>2. channel'[c].sender = Sent(d) /\ channel'[c].session = event[d].session
    BY <2>1 DEF ChannelRow
  <2>3. CASE own[d].new
    <3>1. c = d
      BY <1>2, <2>3 DEF LocalChannel
    <3>2. d \notin DOMAIN channel
      BY <1>2 DEF IInv, TableInv
    <3> QED
      BY <1>4, <2>1, <2>2, <2>3, <3>1, <3>2
  <2>4. CASE ~ own[d].new
    <3>1. c \in DOMAIN channel /\ channel[c].sender = Sent(d)
      BY <1>2, <1>4, <2>4 DEF LocalChannel, Posted, ChannelsOf, IInv, SnapshotInv, Snapshot
    <3> QED
      BY <1>4, <2>1, <2>2, <3>1
  <2> QED
    BY <2>3, <2>4
<1>5. CASE Posted(d) /\ ~ own[d].metadata
  <2>1. channel' = channel
    BY <1>1, <1>5
  <2>2. /\ own[d].wrote /\ ~ own[d].new /\ c \in DOMAIN seen[d].channel
        /\ seen[d].channel[c].sender = Sent(d)
        /\ seen[d].channel[c].session = event[d].session
    BY <1>1, <1>2, <1>5 DEF LocalChannel, LocalPlace, Posted, ChannelsOf
  <2>3. <<"channel", c>> \notin stale[d]
    BY <2>2 DEF IInv, HeldInv
  <2>4. c \in DOMAIN channel /\ channel[c] = seen[d].channel[c]
    BY <2>2, <2>3 DEF IInv, SnapshotInv, Snapshot
  <2> QED
    BY <1>5, <2>1, <2>2, <2>4
<1> QED
  BY <1>3, <1>4, <1>5

LEMMA FinishSnapshot ==
  ASSUME IInv, NEW d \in Running, Finish(d), NEW x \in Running \ {d}
  PROVE  Snapshot(x)'
<1>1. /\ seen'[x] = seen[x] /\ stale'[x] = stale[x] \cup Rows(d) /\ first' = first
      /\ DOMAIN partner \subseteq DOMAIN partner'
      /\ message' = message \/ (Posted(d) /\ message' = message \cup {MessageOf(d)})
  BY FinishStep DEF IInv, OthersKept
<1>2. Snapshot(x)
  BY DEF IInv, SnapshotInv
<1>3. Posted(d) => <<"channel", own[d].channel>> \in Rows(d)
  BY DEF Rows
<1>4. /\ DOMAIN seen[x].partner \subseteq DOMAIN partner'
      /\ DOMAIN seen[x].channel \subseteq DOMAIN channel'
      /\ first.channels \subseteq DOMAIN seen[x].channel
      /\ \A s \in DOMAIN seen[x].partner \ first.partners : ChannelsOf(seen[x].channel, s) # {}
  BY <1>1, <1>2, FinishChannel DEF Snapshot
<1>5. \A c \in DOMAIN seen[x].channel :
        /\ seen[x].channel[c].sender = channel'[c].sender
        /\ <<"channel", c>> \notin stale'[x] => seen[x].channel[c] = channel'[c]
  BY <1>1, <1>2, <1>3, FinishChannel DEF Snapshot
<1>6. \A m \in message' \ seen[x].message : <<"channel", m.channel>> \in stale'[x]
  <2>1. MessageOf(d).channel = own[d].channel
    BY DEF MessageOf
  <2> QED
    BY <1>1, <1>2, <1>3, <2>1 DEF Snapshot
<1>7. \A m \in seen[x].message : m.id # NoId => \E n \in message' : n.id = m.id
  BY <1>1, <1>2 DEF Snapshot
<1> QED
  BY <1>1, <1>4, <1>5, <1>6, <1>7 DEF Snapshot, ChannelsOf

LEMMA FinishHeld ==
  ASSUME IInv, NEW d \in Running, Finish(d)
  PROVE  HeldInv'
<1>1. /\ Running' = Running \ {d} /\ event' = event /\ pc[d] = "finish"
      /\ DOMAIN partner' = DOMAIN partner
                            \cup (IF own[d].partner = "created" THEN {Sent(d)} ELSE {})
      /\ \A x \in Running \ {d} : own'[x] = own[x] /\ stale'[x] = stale[x] \cup Rows(d)
  BY FinishStep DEF IInv, OthersKept
<1>2. \A x \in Running : Sent(x)' = Sent(x)
  BY <1>1 DEF Sent
<1>3. Posted(d) => own[d].wrote
  BY <1>1 DEF IInv, LocalInv, LocalAt, LocalPlace, Posted
<1>4. ASSUME NEW x \in Running \ {d}, own[x].wrote, ~ own[x].new
      PROVE  <<"channel", own[x].channel>> \notin stale'[x]
  <2>1. <<"channel", own[x].channel>> \notin stale[x]
    BY <1>4 DEF IInv, HeldInv
  <2>2. Posted(d) => own[d].channel # own[x].channel
    BY <1>3, <1>4 DEF IInv, HeldInv
  <2> QED
    BY <1>1, <2>1, <2>2 DEF Rows
<1>5. \A x \in Running \ {d} : own[x].partner = "created" => Sent(x) \notin DOMAIN partner'
  BY <1>1 DEF IInv, HeldInv
<1> QED
  BY <1>1, <1>2, <1>4, <1>5 DEF IInv, HeldInv

LEMMA FinishTable ==
  ASSUME IInv, NEW d \in Running, Finish(d)
  PROVE  TableInv'
<1> DEFINE m0 == MessageOf(d)
<1>1. /\ Types' /\ event' = event /\ first' = first /\ pc[d] = "finish"
      /\ job'[d] = "done" /\ \A x \in DOMAIN event \ {d} : job'[x] = job[x]
      /\ DOMAIN partner' = DOMAIN partner
                            \cup (IF own[d].partner = "created" THEN {Sent(d)} ELSE {})
      /\ Posted(d) => /\ message' = message \cup {m0}
                      /\ last' = Put(last, own[d].channel, event[d].session)
      /\ ~ Posted(d) => UNCHANGED <<channel, message, last>>
  BY FinishStep DEF IInv
<1>2. /\ LocalPlace(d, pc[d], own[d]) /\ LocalPartner(d, own[d])
      /\ d \in DOMAIN event /\ DOMAIN job = DOMAIN event /\ DOMAIN job' = DOMAIN event
      /\ own[d] \in OwnType
  BY <1>1, RunningFacts DEF IInv, LocalInv, LocalAt, Types
<1>3. \A c \in DOMAIN channel' \cap Delivery : c \in DOMAIN job' /\ job'[c] = "done"
  BY <1>1, <1>2, FinishChannel DEF IInv, TableInv
<1>4. \A c \in DOMAIN channel' : channel'[c].sender \in DOMAIN partner'
  <2>1. Posted(d) => Sent(d) \in DOMAIN partner'
    <3>1. Posted(d) => own[d].partner \in {"locked", "flagged", "created"}
      BY <1>2 DEF LocalPartner, Posted, OwnType
    <3>2. own[d].partner \in {"locked", "flagged"} => Sent(d) \in DOMAIN partner
      BY <1>2 DEF LocalPartner, IInv, SnapshotInv, Snapshot
    <3> QED
      BY <1>1, <3>1, <3>2
  <2> QED
    BY <1>1, <2>1, FinishChannel DEF IInv, TableInv
<1>5. DOMAIN channel' \subseteq DOMAIN last'
  <2>1. Posted(d) => DOMAIN last' = DOMAIN last \cup {own[d].channel}
    BY <1>1 DEF Put
  <2> QED
    <3>1. \A c \in DOMAIN channel' \ DOMAIN channel : Posted(d) /\ c = own[d].channel
      <4>1. own[d].new => own[d].channel = d
        BY DEF IInv, LocalInv, LocalAt, LocalChannel
      <4> QED
        BY <4>1, FinishChannel
    <3> QED
      BY <1>1, <2>1, <3>1 DEF IInv, TableInv
<1>6. /\ first.partners \subseteq DOMAIN partner' /\ first.channels \subseteq DOMAIN channel'
      /\ \A c \in first.channels : c \in Sender /\ channel'[c].sender = c
  BY <1>1, FinishChannel DEF IInv, TableInv
<1>7. \A s \in DOMAIN partner' \ first.partners : ChannelsOf(channel', s) # {}
  <2>1. ASSUME NEW s \in DOMAIN partner \ first.partners
        PROVE  ChannelsOf(channel', s) # {}
    <3>1. PICK c \in DOMAIN channel : channel[c].sender = s
      BY <2>1 DEF IInv, TableInv, ChannelsOf
    <3>2. c \in DOMAIN channel' /\ channel'[c].sender = s
      BY <3>1, FinishChannel
    <3> QED
      BY <3>2 DEF ChannelsOf
  <2>2. ASSUME own[d].partner = "created"
        PROVE  ChannelsOf(channel', Sent(d)) # {}
    <3>1. Posted(d)
      BY <1>1, <1>2, <2>2 DEF LocalPlace, Posted
    <3>2. own[d].channel \in DOMAIN channel' /\ channel'[own[d].channel].sender = Sent(d)
      BY <3>1, FinishChannel
    <3> QED
      BY <3>2 DEF ChannelsOf
  <2> QED
    BY <1>1, <2>1, <2>2
<1>8. \A m \in message' : /\ m.by \in DOMAIN event /\ job'[m.by] = "done"
                         /\ m.id = event[m.by].id
                         /\ m.channel \in ChannelsOf(channel', Sent(m.by))
                         /\ m.files \subseteq event[m.by].files
                         /\ event[m.by].incoming
  <2>1. ASSUME NEW m \in message
        PROVE  /\ m.by \in DOMAIN event /\ job'[m.by] = "done"
               /\ m.id = event[m.by].id
               /\ m.channel \in ChannelsOf(channel', Sent(m.by))
               /\ m.files \subseteq event[m.by].files
               /\ event[m.by].incoming
    <3>1. /\ m.by \in DOMAIN event /\ job[m.by] = "done"
          /\ m.id = event[m.by].id
          /\ m.channel \in ChannelsOf(channel, Sent(m.by))
          /\ m.files \subseteq event[m.by].files
          /\ event[m.by].incoming
      BY <2>1 DEF IInv, TableInv
    <3>2. m.channel \in ChannelsOf(channel', Sent(m.by))
      BY <3>1, FinishChannel DEF ChannelsOf
    <3> QED
      BY <1>1, <3>1, <3>2
  <2>2. ASSUME Posted(d)
        PROVE  /\ m0.by = d /\ m0.id = event[d].id
               /\ m0.channel \in ChannelsOf(channel', Sent(d))
               /\ m0.files \subseteq event[d].files
               /\ event[d].incoming
    <3>1. m0.by = d /\ m0.id = event[d].id /\ m0.channel = own[d].channel /\ m0.files = own[d].files
      BY DEF MessageOf
    <3>2. own[d].files \subseteq event[d].files /\ event[d].incoming
      BY <1>2, <2>2 DEF LocalPlace, LocalPartner, Posted
    <3>3. own[d].channel \in ChannelsOf(channel', Sent(d))
      BY <2>2, FinishChannel DEF ChannelsOf
    <3> QED
      BY <3>1, <3>2, <3>3
  <2> HIDE DEF m0
  <2>3. \A m \in message' : m \in message \/ (Posted(d) /\ m = m0)
    BY <1>1
  <2> QED
    BY <1>1, <1>2, <2>1, <2>2, <2>3
<1>9. \A m \in message' : Sent(m.by)' = Sent(m.by)
  BY <1>1 DEF Sent
<1> QED
  BY <1>1, <1>2, <1>3, <1>4, <1>5, <1>6, <1>7, <1>8, <1>9 DEF TableInv, ChannelsOf

LEMMA FinishAlone ==
  ASSUME IInv, NEW d \in Running, Finish(d), capacity = 1
  PROVE  Running' = {}
<1>1. Running' = Running \ {d}
  BY FinishStep DEF IInv
<1> QED
  BY <1>1 DEF IInv, AloneInv

LEMMA FinishReplies ==
  ASSUME IInv, NEW d \in Running, Finish(d)
  PROVE  RepliesToLastSession'
<1>1. /\ Posted(d) => last' = Put(last, own[d].channel, event[d].session)
      /\ ~ Posted(d) => UNCHANGED <<channel, last>>
  BY FinishStep DEF IInv
<1>2. CASE ~ Posted(d)
  BY <1>1, <1>2 DEF IInv, RepliesToLastSession
<1>3. CASE Posted(d)
  <2> SUFFICES ASSUME NEW c \in DOMAIN channel'
               PROVE  channel'[c].session = last'[c]
    BY DEF RepliesToLastSession
  <2>1. CASE c = own[d].channel
    <3>1. last'[c] = event[d].session
      BY <1>1, <1>3, <2>1 DEF Put
    <3> QED
      BY <1>3, <2>1, <3>1, FinishChannel
  <2>2. CASE c # own[d].channel
    <3>1. own[d].new => own[d].channel = d
      BY DEF IInv, LocalInv, LocalAt, LocalChannel
    <3>2. c \in DOMAIN channel /\ channel'[c] = channel[c]
      BY <1>3, <2>2, <3>1, FinishChannel
    <3>3. c \in DOMAIN last /\ channel[c].session = last[c]
      BY <3>2 DEF IInv, TableInv, RepliesToLastSession
    <3>4. last'[c] = last[c]
      BY <1>1, <1>3, <2>2, <3>3 DEF Put
    <3> QED
      BY <3>2, <3>3, <3>4
  <2> QED
    BY <2>1, <2>2
<1> QED
  BY <1>2, <1>3

(* A new channel is the only one of its sender: its job saw none.          *)
LEMMA NewChannelAlone ==
  ASSUME IInv, NEW d \in Running, Finish(d), own[d].new, Posted(d),
         capacity = 1 \/ Sent(d) \notin first.partners \ first.channels
  PROVE  \A k \in DOMAIN channel : channel[k].sender # Sent(d)
<1>1. /\ ChannelsOf(seen[d].channel, Sent(d)) = {}
      /\ own[d].partner # "none" /\ own[d] \in OwnType
  BY DEF IInv, Types, LocalInv, LocalAt, LocalChannel, LocalPartner, Posted
<1> SUFFICES ASSUME NEW k \in DOMAIN channel, channel[k].sender = Sent(d)
             PROVE  FALSE
  OBVIOUS
<1>2. k \notin DOMAIN seen[d].channel
  BY <1>1 DEF ChannelsOf, IInv, SnapshotInv, Snapshot
<1>3. capacity # 1
  BY <1>2 DEF IInv, AloneInv
<1>4. Sent(d) \notin first.channels
  <2>1. \A c \in first.channels :
          c \in DOMAIN seen[d].channel /\ c \in DOMAIN channel /\ channel[c].sender = c
    BY DEF IInv, TableInv, SnapshotInv, Snapshot
  <2>2. \A c \in DOMAIN seen[d].channel : seen[d].channel[c].sender = channel[c].sender
    BY DEF IInv, SnapshotInv, Snapshot
  <2> QED
    BY <1>1, <2>1, <2>2 DEF ChannelsOf
<1>5. Sent(d) \notin first.partners
  BY <1>3, <1>4
<1>6. Sent(d) \notin DOMAIN seen[d].partner
  BY <1>1, <1>5 DEF IInv, SnapshotInv, Snapshot
<1>7. own[d].partner = "created"
  BY <1>1, <1>6 DEF OwnType, IInv, LocalInv, LocalAt, LocalPartner
<1>8. Sent(d) \notin DOMAIN partner
  BY <1>7 DEF IInv, HeldInv
<1> QED
  BY <1>8 DEF IInv, TableInv

LEMMA FinishOneChannel ==
  ASSUME IInv, NEW d \in Running, Finish(d)
  PROVE  OneChannelPerSender'
<1>1. capacity' = capacity /\ first' = first
  BY FinishStep DEF IInv
<1> SUFFICES ASSUME NEW c \in DOMAIN channel', NEW k \in DOMAIN channel',
                    channel'[c].sender = channel'[k].sender,
                    capacity = 1 \/ channel'[c].sender \notin first.partners \ first.channels
             PROVE  c = k
  BY <1>1 DEF OneChannelPerSender
<1>2. ASSUME NEW x \in DOMAIN channel' \ DOMAIN channel, NEW y \in DOMAIN channel,
             channel'[x].sender = channel'[y].sender,
             capacity = 1 \/ channel'[x].sender \notin first.partners \ first.channels
      PROVE  FALSE
  <2>1. /\ Posted(d) /\ own[d].new
        /\ channel'[x].sender = Sent(d) /\ channel'[y].sender = channel[y].sender
    BY <1>2, FinishChannel
  <2> QED
    BY <1>2, <2>1, NewChannelAlone
<1>3. CASE c \in DOMAIN channel /\ k \in DOMAIN channel
  <2>1. channel'[c].sender = channel[c].sender /\ channel'[k].sender = channel[k].sender
    BY <1>3, FinishChannel
  <2> QED
    BY <1>3, <2>1 DEF IInv, OneChannelPerSender
<1>4. CASE c \notin DOMAIN channel /\ k \notin DOMAIN channel
  BY <1>4, FinishChannel
<1> QED
  BY <1>2, <1>3, <1>4

(* What a job posts had not been stored, in the cases of StoredOnce.       *)
LEMMA NewMessageAlone ==
  ASSUME IInv, NEW d \in Running, Finish(d), Posted(d), event[d].id # NoId,
         capacity = 1 \/ Sent(d) \in first.channels
  PROVE  \A n \in message : n.id # event[d].id
<1>1. /\ LocalPlace(d, pc[d], own[d]) /\ LocalPartner(d, own[d]) /\ LocalChannel(d, own[d])
      /\ pc[d] = "finish" /\ d \in DOMAIN event
  BY FinishStep, RunningFacts DEF IInv, LocalInv, LocalAt
<1>2. Duplicates(d) = {} /\ own[d].wrote
  BY <1>1 DEF LocalPlace, LocalPartner, Posted
<1> SUFFICES ASSUME NEW n \in message, n.id = event[d].id
             PROVE  FALSE
  OBVIOUS
<1>3. n \notin seen[d].message
  BY <1>2 DEF Duplicates
<1>4. <<"channel", n.channel>> \in stale[d]
  BY <1>3 DEF IInv, SnapshotInv, Snapshot
<1>5. capacity # 1
  BY <1>3 DEF IInv, AloneInv
<1>6. Sent(d) \in first.channels
  BY <1>5
<1>7. /\ n.by \in DOMAIN event /\ n.id = event[n.by].id
      /\ n.channel \in ChannelsOf(channel, Sent(n.by))
  BY DEF IInv, TableInv
<1>8. Sent(n.by) = Sent(d)
  <2>1. event[d] \in Event /\ event[n.by] \in Event
    BY <1>1, <1>7 DEF IInv, Types
  <2> QED
    BY <1>7, <2>1, IdentifierAssumption DEF Sent
<1>9. /\ Sent(d) \in DOMAIN seen[d].channel /\ Sent(d) \in DOMAIN channel
      /\ channel[Sent(d)].sender = Sent(d) /\ seen[d].channel[Sent(d)].sender = Sent(d)
  BY <1>6 DEF IInv, TableInv, SnapshotInv, Snapshot
<1>10. ~ own[d].new
  BY <1>1, <1>9 DEF LocalChannel, ChannelsOf
<1>11. own[d].channel \in DOMAIN channel /\ channel[own[d].channel].sender = Sent(d)
  BY <1>1, <1>10 DEF LocalChannel, ChannelsOf, Posted, IInv, SnapshotInv, Snapshot
<1>12. own[d].channel = n.channel
  BY <1>6, <1>7, <1>8, <1>11 DEF ChannelsOf, IInv, OneChannelPerSender
<1>13. <<"channel", own[d].channel>> \notin stale[d]
  BY <1>2, <1>10 DEF IInv, HeldInv
<1> QED
  BY <1>4, <1>12, <1>13

LEMMA FinishStored ==
  ASSUME IInv, NEW d \in Running, Finish(d)
  PROVE  StoredOnce'
<1> DEFINE m0 == MessageOf(d)
<1>1. /\ capacity' = capacity /\ first' = first /\ event' = event
      /\ Posted(d) => message' = message \cup {m0}
      /\ ~ Posted(d) => message' = message
  BY FinishStep DEF IInv
<1>2. m0.by = d /\ m0.id = event[d].id
  BY DEF MessageOf
<1> HIDE DEF m0
<1> SUFFICES ASSUME NEW m \in message', NEW n \in message', m.id = n.id, m.id # NoId,
                    capacity = 1 \/ event[m.by].sender \in first.channels
             PROVE  m = n
  BY <1>1 DEF StoredOnce
<1>3. CASE m \in message /\ n \in message
  BY <1>3 DEF IInv, StoredOnce
<1>4. ASSUME NEW x \in message, Posted(d), x.id = m0.id, x.id # NoId,
             capacity = 1 \/ Sent(x.by) \in first.channels \/ Sent(d) \in first.channels
      PROVE  FALSE
  <2>1. x.by \in DOMAIN event /\ x.id = event[x.by].id
    BY DEF IInv, TableInv
  <2>2. event[d] \in Event /\ event[x.by] \in Event
    BY <2>1, RunningFacts DEF IInv, Types
  <2>3. Sent(x.by) = Sent(d)
    BY <1>2, <1>4, <2>1, <2>2, IdentifierAssumption DEF Sent
  <2> QED
    BY <1>2, <1>4, <2>3, NewMessageAlone
<1>5. \A x \in message' : x \in message \/ (Posted(d) /\ x = m0)
  BY <1>1
<1> QED
  BY <1>2, <1>3, <1>4, <1>5 DEF Sent

LEMMA FinishDone ==
  ASSUME IInv, NEW d \in Running, Finish(d)
  PROVE  DoneMeansStored'
<1> DEFINE m0 == MessageOf(d)
           Stored(x, ms) == \E m \in ms : m.by = x \/ (m.id = event[x].id /\ m.id # NoId)
<1>1. /\ event' = event /\ pc[d] = "finish"
      /\ job'[d] = "done" /\ \A x \in DOMAIN event \ {d} : job'[x] = job[x]
      /\ Posted(d) => message' = message \cup {m0}
      /\ ~ Posted(d) => message' = message
  BY FinishStep DEF IInv
<1>2. /\ LocalPlace(d, pc[d], own[d]) /\ LocalPartner(d, own[d])
      /\ d \in DOMAIN event
  BY RunningFacts DEF IInv, LocalInv, LocalAt
<1>3. m0.by = d
  BY DEF MessageOf
<1> HIDE DEF m0
<1>4. message \subseteq message' /\ \A m \in message' : m \in message \/ (Posted(d) /\ m = m0)
  BY <1>1
<1>5. ASSUME NEW x \in DOMAIN event \ {d}
      PROVE  /\ job'[x] = "done" /\ event[x].incoming => Stored(x, message')
             /\ ~ event[x].incoming \/ job'[x] # "done" => \A m \in message' : m.by # x
  <2>1. /\ job[x] = "done" /\ event[x].incoming => Stored(x, message)
        /\ ~ event[x].incoming \/ job[x] # "done" => \A m \in message : m.by # x
    BY DEF IInv, DoneMeansStored
  <2> QED
    BY <1>1, <1>3, <1>4, <2>1
<1>6. event[d].incoming => Stored(d, message')
  <2>1. CASE Posted(d)
    BY <1>1, <1>3, <2>1
  <2>2. CASE ~ Posted(d)
    <3> SUFFICES ASSUME event[d].incoming
                 PROVE  Stored(d, message')
      OBVIOUS
    <3>1. Duplicates(d) # {}
      BY <1>1, <1>2, <2>2 DEF LocalPlace, Posted
    <3>2. PICK m \in seen[d].message : m.id = event[d].id /\ m.id # NoId
      BY <3>1 DEF Duplicates
    <3>3. \E n \in message : n.id = m.id
      BY <3>2 DEF IInv, SnapshotInv, Snapshot
    <3> QED
      BY <1>4, <3>2, <3>3
  <2> QED
    BY <2>1, <2>2
<1>7. ~ event[d].incoming => \A m \in message' : m.by # d
  <2>1. \A m \in message : event[m.by].incoming
    BY DEF IInv, TableInv
  <2>2. Posted(d) => event[d].incoming
    BY <1>2 DEF LocalPartner, Posted
  <2> QED
    BY <1>3, <1>4, <2>1, <2>2
<1> QED
  BY <1>1, <1>2, <1>5, <1>6, <1>7 DEF DoneMeansStored

LEMMA FinishInv ==
  ASSUME IInv, NEW d \in Running, Finish(d)
  PROVE  IInv'
<1>1. /\ Types' /\ Running' = Running \ {d} /\ OthersKept(d)
      /\ UNCHANGED <<event, capacity>>
      /\ job'[d] = "done" /\ \A x \in DOMAIN event \ {d} : job'[x] = job[x]
  BY FinishStep DEF IInv
<1>2. LocalInv'
  <2>1. \A x \in Running' : /\ x \in Running /\ pc'[x] = pc[x] /\ job'[x] = job[x]
                            /\ seen'[x] = seen[x] /\ own'[x] = own[x]
    BY <1>1 DEF OthersKept
  <2> QED
    BY <1>1, <2>1, LocalKept DEF IInv, LocalInv
<1>3. SnapshotInv'
  BY <1>1, FinishSnapshot DEF SnapshotInv
<1>4. AloneInv'
  BY <1>1, FinishAlone DEF AloneInv
<1>5. NothingLostOneByOne'
  <2>1. DOMAIN job = DOMAIN event /\ DOMAIN job' = DOMAIN event
    BY <1>1 DEF IInv, Types
  <2> QED
    BY <1>1, <2>1 DEF IInv, NothingLostOneByOne, NothingLost
<1> QED
  BY <1>1, <1>2, <1>3, <1>4, <1>5, FinishHeld, FinishTable, FinishReplies, FinishOneChannel,
     FinishStored, FinishDone DEF IInv

-----------------------------------------------------------------------------
(* The steps of others.                                                    *)
LEMMA ReplyInv ==
  ASSUME IInv, NEW c, Reply(c)
  PROVE  IInv'
<1>1. /\ \A x \in Running : ~ (own[x].channel = c /\ own[x].wrote)
      /\ stale' = [x \in DOMAIN stale |-> stale[x] \cup {<<"channel", c>>}]
      /\ UNCHANGED <<event, job, partner, channel, message, pc, seen, own, capacity, last, first>>
  BY DEF Reply, tables
<1>2. Running' = Running /\ Types'
  BY <1>1 DEF Running, IInv, Types
<1>3. \A x \in Running : stale'[x] = stale[x] \cup {<<"channel", c>>}
  BY <1>1 DEF IInv, Types
<1>4. LocalInv'
  BY <1>1, <1>2, LocalKept DEF IInv, LocalInv
<1>5. SnapshotInv'
  BY <1>1, <1>2, <1>3, SnapshotKept DEF IInv, SnapshotInv
<1>6. HeldInv'
  BY <1>1, <1>2, <1>3 DEF IInv, HeldInv, Sent
<1>7. AloneInv'
  BY <1>1, <1>2, <1>3 DEF IInv, AloneInv
<1>8. TableInv'
  BY <1>1 DEF IInv, TableInv, Sent, ChannelsOf
<1>9. DoneMeansStored' /\ StoredOnce' /\ OneChannelPerSender'
  BY <1>1 DEF IInv, DoneMeansStored, StoredOnce, OneChannelPerSender
<1>10. RepliesToLastSession' /\ NothingLostOneByOne'
  BY <1>1 DEF IInv, RepliesToLastSession, NothingLostOneByOne, NothingLost
<1> QED
  BY <1>2, <1>4, <1>5, <1>6, <1>7, <1>8, <1>9, <1>10 DEF IInv

(* Cleaning up leaves a message of each identifier.                        *)
LEMMA CleanupStep ==
  ASSUME IInv, Cleanup
  PROVE  /\ message' \subseteq message /\ message' # message
         /\ \A m \in message : m.id = NoId => m \in message'
         /\ \A m \in message : m.id # NoId => \E n \in message' : n.id = m.id
         /\ \A x \in Running :
              stale'[x] = stale[x] \cup ({"message"} \X (message \ message'))
         /\ DOMAIN stale' = DOMAIN stale
         /\ UNCHANGED <<event, job, partner, channel, pc, seen, own, capacity, last, first>>
<1> DEFINE group(i) == {m \in message : m.id = i}
           groups == {{m \in message : m.id = e.id} : e \in {x \in Event : x.id # NoId}}
<1>1. /\ message' \subseteq message /\ message' # message
      /\ \A m \in message : m.id = NoId => m \in message'
      /\ \A g \in groups \ {{}} : Cardinality(g \cap message') = 1
      /\ stale' = [x \in DOMAIN stale |-> stale[x] \cup ({"message"} \X (message \ message'))]
      /\ UNCHANGED <<event, job, partner, channel, pc, seen, own, capacity, last, first>>
  BY DEF Cleanup
<1>2. ASSUME NEW m \in message, m.id # NoId
      PROVE  \E n \in message' : n.id = m.id
  <2>1. m.by \in DOMAIN event /\ m.id = event[m.by].id /\ event[m.by] \in Event
    BY DEF IInv, TableInv, Types
  <2>2. group(m.id) \in groups /\ m \in group(m.id)
    BY <1>2, <2>1
  <2>3. Cardinality(group(m.id) \cap message') = 1
    BY <1>1, <2>2
  <2>4. group(m.id) \cap message' # {}
    BY <2>3, FS_EmptySet
  <2> QED
    BY <2>4
<1>3. DOMAIN stale' = DOMAIN stale /\ DOMAIN stale = Running
  BY <1>1 DEF IInv, Types
<1> QED
  BY <1>1, <1>2, <1>3

LEMMA CleanupInv ==
  ASSUME IInv, Cleanup
  PROVE  IInv'
<1>1. /\ message' \subseteq message /\ message' # message
      /\ \A m \in message : m.id = NoId => m \in message'
      /\ \A m \in message : m.id # NoId => \E n \in message' : n.id = m.id
      /\ \A x \in Running :
           stale'[x] = stale[x] \cup ({"message"} \X (message \ message'))
      /\ DOMAIN stale' = DOMAIN stale
      /\ UNCHANGED <<event, job, partner, channel, pc, seen, own, capacity, last, first>>
  BY CleanupStep
<1>2. Running' = Running /\ Types'
  BY <1>1 DEF Running, IInv, Types
<1>3. LocalInv'
  BY <1>1, <1>2, LocalKept DEF IInv, LocalInv
<1>4. \A x \in Running : \A y : <<"channel", y>> \in stale'[x] <=> <<"channel", y>> \in stale[x]
  BY <1>1
<1>5. SnapshotInv'
  <2> SUFFICES ASSUME NEW x \in Running
               PROVE  Snapshot(x)'
    BY <1>2 DEF SnapshotInv
  <2>1. Snapshot(x)
    BY DEF IInv, SnapshotInv
  <2>2. \A m \in message' \ seen[x].message : <<"channel", m.channel>> \in stale'[x]
    BY <1>1, <1>4, <2>1 DEF Snapshot
  <2>3. \A m \in seen[x].message : m.id # NoId => \E n \in message' : n.id = m.id
    BY <1>1, <2>1 DEF Snapshot
  <2>4. /\ DOMAIN seen[x].partner \subseteq DOMAIN partner'
        /\ DOMAIN seen[x].channel \subseteq DOMAIN channel'
        /\ \A c \in DOMAIN seen[x].channel :
             /\ seen[x].channel[c].sender = channel'[c].sender
             /\ <<"channel", c>> \notin stale'[x] => seen[x].channel[c] = channel'[c]
        /\ first'.channels \subseteq DOMAIN seen[x].channel
        /\ \A s \in DOMAIN seen[x].partner \ first'.partners : ChannelsOf(seen[x].channel, s) # {}
    BY <1>1, <1>4, <2>1 DEF Snapshot
  <2> QED
    BY <1>1, <2>2, <2>3, <2>4 DEF Snapshot, ChannelsOf
<1>6. HeldInv'
  BY <1>1, <1>2, <1>4 DEF IInv, HeldInv, Sent
<1>7. AloneInv'
  <2> SUFFICES ASSUME capacity = 1
               PROVE  FALSE
    BY <1>1 DEF AloneInv
  <2>1. PICK m \in message : m \notin message'
    BY <1>1
  <2>2. PICK n \in message' : n.id = m.id /\ m.id # NoId
    BY <1>1, <2>1
  <2>3. m = n
    BY <1>1, <2>2 DEF IInv, StoredOnce
  <2> QED
    BY <2>1, <2>2, <2>3
<1>8. TableInv'
  BY <1>1 DEF IInv, TableInv, Sent, ChannelsOf
<1>9. DoneMeansStored'
  <2> SUFFICES ASSUME NEW d \in DOMAIN event
               PROVE  /\ job[d] = "done" /\ event[d].incoming =>
                           \E m \in message' : m.by = d \/ (m.id = event[d].id /\ m.id # NoId)
                      /\ ~ event[d].incoming \/ job[d] # "done" => \A m \in message' : m.by # d
    BY <1>1 DEF DoneMeansStored
  <2>1. ~ event[d].incoming \/ job[d] # "done" => \A m \in message' : m.by # d
    BY <1>1 DEF IInv, DoneMeansStored
  <2>2. ASSUME job[d] = "done", event[d].incoming
        PROVE  \E m \in message' : m.by = d \/ (m.id = event[d].id /\ m.id # NoId)
    <3>1. PICK m \in message : m.by = d \/ (m.id = event[d].id /\ m.id # NoId)
      BY <2>2 DEF IInv, DoneMeansStored
    <3>2. m.by = d => m.id = event[d].id
      BY DEF IInv, TableInv
    <3> QED
      BY <1>1, <3>1, <3>2
  <2> QED
    BY <2>1, <2>2
<1>10. StoredOnce' /\ OneChannelPerSender' /\ RepliesToLastSession'
  BY <1>1 DEF IInv, StoredOnce, OneChannelPerSender, RepliesToLastSession
<1>11. NothingLostOneByOne'
  BY <1>1 DEF IInv, NothingLostOneByOne, NothingLost
<1> QED
  BY <1>2, <1>3, <1>5, <1>6, <1>7, <1>8, <1>9, <1>10, <1>11 DEF IInv

-----------------------------------------------------------------------------
(* The invariant.                                                          *)
LEMMA InitInv == Init => IInv
<1> SUFFICES ASSUME Init
             PROVE  IInv
  OBVIOUS
<1>1. /\ event = <<>> /\ job = <<>> /\ pc = <<>> /\ seen = <<>> /\ own = <<>> /\ stale = <<>>
      /\ message = {} /\ capacity \in Capacities
      /\ last = [c \in DOMAIN channel |-> channel[c].session]
      /\ first = [partners |-> DOMAIN partner, channels |-> DOMAIN channel]
  BY DEF Init
<1>2. /\ DOMAIN event = {} /\ DOMAIN job = {} /\ DOMAIN pc = {} /\ DOMAIN seen = {}
      /\ DOMAIN own = {} /\ DOMAIN stale = {}
  BY <1>1
<1>3. PICK known \in SUBSET Sender : partner \in [known -> BOOLEAN]
  BY DEF Init
<1>4. PICK old \in SUBSET DOMAIN partner, session \in {e.session : e \in Event} :
        \E members \in [old -> BOOLEAN] :
          channel = [s \in old |-> [sender |-> s, session |-> session, joined |-> members[s]]]
  BY DEF Init
<1>5. Running = {}
  BY <1>2 DEF Running
<1>6. /\ DOMAIN channel = old /\ old \subseteq DOMAIN partner /\ DOMAIN partner \subseteq Sender
      /\ \A c \in DOMAIN channel :
           channel[c].sender = c /\ channel[c] \in ChannelType
      /\ channel \in [old -> ChannelType]
  <2>1. PICK members \in [old -> BOOLEAN] :
          channel = [s \in old |-> [sender |-> s, session |-> session, joined |-> members[s]]]
    BY <1>4
  <2>2. old \subseteq Sender
    BY <1>3
  <2> QED
    BY <1>3, <2>1, <2>2 DEF ChannelType
<1>7. Types
  <2>1. event \in [DOMAIN event -> Event]
    BY <1>1, <1>2
  <2>2. /\ job \in [DOMAIN event -> {"pending", "started", "done", "failed"}]
        /\ pc \in [DOMAIN event
                     -> Place]
        /\ own \in [Running -> OwnType]
    BY <1>1, <1>2, <1>5
  <2>4. channel \in [DOMAIN channel -> ChannelType]
    BY <1>6
  <2>5. partner \in [DOMAIN partner -> BOOLEAN]
    BY <1>3
  <2>6. capacity \in Nat \ {0}
    BY <1>1, CapacityAssumption
  <2> QED
    BY <1>2, <1>5, <1>6, <2>1, <2>2, <2>4, <2>5, <2>6 DEF Types
<1>8. LocalInv /\ SnapshotInv /\ HeldInv /\ AloneInv
  BY <1>5 DEF LocalInv, SnapshotInv, HeldInv, AloneInv
<1>9. TableInv
  BY <1>1, <1>6, ChannelAssumption DEF TableInv
<1>10. DoneMeansStored /\ StoredOnce /\ NothingLostOneByOne
  BY <1>1, <1>2 DEF DoneMeansStored, StoredOnce, NothingLostOneByOne, NothingLost
<1>11. OneChannelPerSender /\ RepliesToLastSession
  BY <1>1, <1>6 DEF OneChannelPerSender, RepliesToLastSession
<1> QED
  BY <1>7, <1>8, <1>9, <1>10, <1>11 DEF IInv

LEMMA StepInv == IInv /\ [Next]_vars => IInv'
<1> SUFFICES ASSUME IInv, [Next]_vars
             PROVE  IInv'
  OBVIOUS
<1>1. ASSUME NEW d \in Delivery, Receive(d)
      PROVE  IInv'
  BY <1>1, ReceiveInv
<1>2. ASSUME NEW d \in Delivery, Work(d)
      PROVE  IInv'
  <2>1. Types
    BY DEF IInv
  <2> QED
    BY <1>2, <2>1, WorkCases, StartInv, FinishInv, RollbackInv, ProgressInv
<1>3. ASSUME NEW c, Reply(c)
      PROVE  IInv'
  BY <1>3, ReplyInv
<1>4. CASE Cleanup
  BY <1>4, CleanupInv
<1>5. CASE UNCHANGED vars
  <2>1. UNCHANGED <<event, job, partner, channel, message, pc, seen, own, stale, capacity,
                    last, first>>
    BY <1>5 DEF vars, tables, transactions
  <2>2. Running' = Running /\ Types' /\ TableInv' /\ HeldInv' /\ AloneInv'
    BY <2>1 DEF Running, IInv, Types, TableInv, HeldInv, AloneInv, Sent, ChannelsOf
  <2>3. LocalInv' /\ SnapshotInv'
    BY <2>1, <2>2, LocalKept, SnapshotKept DEF IInv, LocalInv, SnapshotInv
  <2>4. DoneMeansStored' /\ StoredOnce' /\ OneChannelPerSender'
    BY <2>1 DEF IInv, DoneMeansStored, StoredOnce, OneChannelPerSender
  <2>5. RepliesToLastSession' /\ NothingLostOneByOne'
    BY <2>1 DEF IInv, RepliesToLastSession, NothingLostOneByOne, NothingLost
  <2> QED
    BY <2>2, <2>3, <2>4, <2>5 DEF IInv
<1> QED
  BY <1>1, <1>2, <1>3, <1>4, <1>5 DEF Next

LEMMA Invariant == Spec => []IInv
BY InitInv, StepInv, PTL DEF Spec

-----------------------------------------------------------------------------
(* The tables, the jobs and what transactions hold are of their types      *)
(* (webhook_processor.py, queue_job).                                      *)
THEOREM TypeCorrect == Spec => []TypeOK
<1>1. IInv => TypeOK
  BY DEF IInv, Types, TableInv, ChannelsOf, TypeOK
<1> QED
  BY <1>1, Invariant, PTL

(* A job that is done has left its message, or there is another one with   *)
(* its identifier, and a job that was rolled back has left none, whatever  *)
(* the number of jobs at a time (process_webhook_event).                   *)
THEOREM DoneIsStored == Spec => []DoneMeansStored
<1>1. IInv => DoneMeansStored
  BY DEF IInv
<1> QED
  BY <1>1, Invariant, PTL

(* A redelivered event is stored once, one job at a time or in a channel   *)
(* that was there before: a job that has written the channel knows all the *)
(* messages in it, for what others have stored since its snapshot has made *)
(* the channel stale, which it could not have written then.                *)
THEOREM EventsStoredOnce == Spec => []StoredOnce
<1>1. IInv => StoredOnce
  BY DEF IInv
<1> QED
  BY <1>1, Invariant, PTL

(* The unique constraint on the partner makes the first channel of a new   *)
(* sender the only one, since both are committed together                  *)
(* (find_or_create_partner, find_or_create_channel).                       *)
THEOREM NoSecondChannel == Spec => []OneChannelPerSender
<1>1. IInv => OneChannelPerSender
  BY DEF IInv
<1> QED
  BY <1>1, Invariant, PTL

(* The session of a channel is that of its last event, even when a job has *)
(* found it right in its snapshot and does not write it: its message       *)
(* updates the members of the channel, and would fail if it were stale     *)
(* (find_or_create_channel, message_post).                                 *)
THEOREM SessionIsLast == Spec => []RepliesToLastSession
<1>1. IInv => RepliesToLastSession
  BY DEF IInv
<1> QED
  BY <1>1, Invariant, PTL

(* With one job at a time no event of a known sender fails, for nothing is *)
(* written between a snapshot and its commit that the job writes or locks  *)
(* (find_or_create_partner, _check_and_lock_duplicate).                    *)
THEOREM OneByOneLosesNothing == Spec => []NothingLostOneByOne
<1>1. IInv => NothingLostOneByOne
  BY DEF IInv
<1> QED
  BY <1>1, Invariant, PTL
=============================================================================
