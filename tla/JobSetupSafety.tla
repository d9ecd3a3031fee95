--------------------------- MODULE JobSetupSafety ---------------------------
(***************************************************************************)
(* Proofs about JobSetup: channels stay a tree as they are renamed, moved  *)
(* and deleted, unless one is moved below itself; jobs are deleted once    *)
(* they are over; and only renames make the cache stale, for all names,    *)
(* records, functions and jobs.                                            *)
(***************************************************************************)
EXTENDS JobSetup, SequenceTheorems, TLAPS

-----------------------------------------------------------------------------
(* Prefixes of sequences.                                                   *)

(* The first elements of a sequence.                                       *)
LEMMA FirstElements ==
  ASSUME NEW S, NEW n \in Seq(S), NEW l \in 0..Len(n)
  PROVE  /\ SubSeq(n, 1, l) \in Seq(S)
         /\ Len(SubSeq(n, 1, l)) = l
         /\ \A i \in 1..l : SubSeq(n, 1, l)[i] = n[i]
<1>1. Len(n) \in Nat
  BY LenProperties
<1>2. \A i \in 1..l : n[i] \in S
  BY <1>1, ElementOfSeq
<1> QED
  BY <1>1, <1>2, SubSeqProperties

(* A prefix agrees with the sequence on its own length.                    *)
LEMMA PrefixPointwise ==
  ASSUME NEW S, NEW p \in Seq(S), NEW n \in Seq(S)
  PROVE  IsPrefix(p, n) <=> Len(p) <= Len(n) /\ \A i \in 1..Len(p) : p[i] = n[i]
<1> SUFFICES ASSUME Len(p) <= Len(n)
             PROVE  SubSeq(p, 1, Len(p)) = SubSeq(n, 1, Len(p))
                      <=> \A i \in 1..Len(p) : p[i] = n[i]
  BY DEF IsPrefix
<1> DEFINE s == SubSeq(n, 1, Len(p))
<1>1. Len(p) \in Nat /\ Len(n) \in Nat /\ SubSeq(p, 1, Len(p)) = p
  BY LenProperties, SubSeqFull
<1>2. Len(p) \in 0..Len(n)
  BY <1>1
<1>3. s \in Seq(S) /\ Len(s) = Len(p) /\ \A i \in 1..Len(p) : s[i] = n[i]
  BY <1>2, FirstElements
<1> HIDE DEF s
<1>4. (\A i \in 1..Len(p) : p[i] = n[i]) => s = p
  BY <1>3, SeqEqual
<1> QED
  BY <1>1, <1>3, <1>4 DEF s

(* A sequence is its own prefix, and a prefix of a prefix with an element  *)
(* more.                                                                   *)
LEMMA PrefixAppend ==
  ASSUME NEW S, NEW p \in Seq(S), NEW n \in Seq(S), NEW e \in S
  PROVE  /\ IsPrefix(p, p)
         /\ IsPrefix(p, n) => IsPrefix(p, Append(n, e))
<1>1. Len(p) \in Nat /\ Len(n) \in Nat
  BY LenProperties
<1>2. IsPrefix(p, p)
  BY <1>1, PrefixPointwise
<1>3. ASSUME IsPrefix(p, n)
      PROVE  IsPrefix(p, Append(n, e))
  <2> DEFINE a == Append(n, e)
  <2>1. a \in Seq(S) /\ Len(a) = Len(n) + 1 /\ \A i \in 1..Len(n) : a[i] = n[i]
    BY AppendProperties
  <2>2. Len(p) <= Len(n) /\ \A i \in 1..Len(p) : p[i] = n[i]
    BY <1>3, PrefixPointwise
  <2> HIDE DEF a
  <2>3. Len(p) <= Len(a) /\ \A i \in 1..Len(p) : p[i] = a[i]
    BY <1>1, <2>1, <2>2
  <2>4. IsPrefix(p, a)
    BY <2>1, <2>3, PrefixPointwise
  <2> QED
    BY <2>4 DEF a
<1> QED
  BY <1>2, <1>3

-----------------------------------------------------------------------------
(* The inductive invariant.                                                 *)

Channels == [name : Label, parent_id : Record \cup {RootRecord, NoRecord},
             complete_name : Name, removal_interval : Interval]

States == {"pending", "done", "cancelled"}

Dates == Nat \cup {NoDate}

Rows == [function : Function, channel : Name, state : States, done : Dates, cancelled : Dates]

TypeOK ==
  /\ DOMAIN record \subseteq Record \cup {RootRecord}
  /\ \A c \in DOMAIN record : record[c] \in Channels
  /\ function \in [Function -> DOMAIN record \cup {NoRecord}]
  /\ cache \in [Function -> Name \cup {NoName}]
  /\ \A j \in DOMAIN job : job[j] \in Rows

(* The record of root keeps its names, and has no parent.                  *)
RootStays ==
  /\ RootRecord \in DOMAIN record
  /\ record[RootRecord].name = RootLabel /\ record[RootRecord].parent_id = NoRecord
  /\ record[RootRecord].complete_name = Root

(* The foreign keys: every other record has a parent.                      *)
ParentsThere == \A c \in DOMAIN record \ {RootRecord} : record[c].parent_id \in DOMAIN record

(* A job that is to run has no date: set_pending clears both.              *)
DatedWhenOver ==
  \A j \in DOMAIN job :
    job[j].state = "pending" => job[j].done = NoDate /\ job[j].cancelled = NoDate

Inv == TypeOK /\ RootStays /\ ParentsThere /\ DatedWhenOver

-----------------------------------------------------------------------------
(* The records.                                                             *)

(* create: a new row beside the others.                                    *)
LEMMA CreateRows ==
  ASSUME Inv, NEW c \in Record, NEW l \in Label, NEW q, NEW i \in Interval,
         CreateChannel(c, l, q, i)
  PROVE  /\ c \notin DOMAIN record /\ DOMAIN record' = DOMAIN record \cup {c}
         /\ \A d \in DOMAIN record : record'[d] = record[d]
         /\ record'[c] \in Channels /\ q \in DOMAIN record
         /\ record'[c].parent_id = q /\ record'[c].name = l
         /\ record'[c].complete_name = Append(record[q].complete_name, l)
         /\ record'[c].complete_name \notin Names(record)
         /\ UNCHANGED <<function, cache, job>>
<1> DEFINE n == Append(record[q].complete_name, l)
           new == [name |-> l, parent_id |-> q, complete_name |-> n, removal_interval |-> i]
<1>1. /\ c \notin DOMAIN record /\ q \in DOMAIN record /\ n \in Name /\ n \notin Names(record)
      /\ record' = With(record, c, new) /\ UNCHANGED <<function, cache, job>>
  BY DEF CreateChannel
<1> HIDE DEF n
<1>2. /\ new \in Channels /\ new.parent_id = q /\ new.name = l /\ new.complete_name = n
  BY <1>1 DEF Inv, TypeOK, Channels
<1> HIDE DEF new
<1>3. /\ DOMAIN record' = DOMAIN record \cup {c} /\ record'[c] = new
      /\ \A d \in DOMAIN record : record'[d] = record[d]
  BY <1>1 DEF With
<1> QED
  BY <1>1, <1>2, <1>3 DEF n

LEMMA CreateChannelInv ==
  ASSUME Inv, NEW c \in Record, NEW l \in Label, NEW q, NEW i \in Interval,
         CreateChannel(c, l, q, i)
  PROVE  Inv'
<1>1. /\ c \notin DOMAIN record /\ DOMAIN record' = DOMAIN record \cup {c}
      /\ \A d \in DOMAIN record : record'[d] = record[d]
      /\ record'[c] \in Channels /\ q \in DOMAIN record /\ record'[c].parent_id = q
      /\ UNCHANGED <<function, cache, job>>
  BY CreateRows
<1>2. TypeOK'
  BY <1>1 DEF Inv, TypeOK
<1>3. RootStays'
  BY <1>1 DEF Inv, RootStays
<1>4. ParentsThere'
  BY <1>1 DEF Inv, ParentsThere
<1> QED
  BY <1>1, <1>2, <1>3, <1>4 DEF Inv, DatedWhenOver

(* A change of the interval changes no name and no parent.                 *)
LEMMA IntervalRows ==
  ASSUME Inv, NEW c, NEW i \in Interval, SetInterval(c, i)
  PROVE  /\ DOMAIN record' = DOMAIN record
         /\ \A d \in DOMAIN record :
              /\ record'[d] \in Channels /\ record'[d].name = record[d].name
              /\ record'[d].parent_id = record[d].parent_id
              /\ record'[d].complete_name = record[d].complete_name
         /\ UNCHANGED <<function, cache, job>>
<1> DEFINE new == [record[c] EXCEPT !.removal_interval = i]
<1>1. /\ c \in DOMAIN record /\ record' = [record EXCEPT ![c] = new]
      /\ UNCHANGED <<function, cache, job>>
  BY DEF SetInterval
<1>2. \A d \in DOMAIN record : record[d] \in Channels
  BY DEF Inv, TypeOK
<1>3. /\ new \in Channels /\ new.name = record[c].name /\ new.parent_id = record[c].parent_id
      /\ new.complete_name = record[c].complete_name
  BY <1>1, <1>2 DEF Channels
<1> HIDE DEF new
<1>4. /\ DOMAIN record' = DOMAIN record /\ record'[c] = new
      /\ \A d \in DOMAIN record : d # c => record'[d] = record[d]
  BY <1>1
<1> QED
  BY <1>1, <1>2, <1>3, <1>4

LEMMA SetIntervalInv ==
  ASSUME Inv, NEW c, NEW i \in Interval, SetInterval(c, i)
  PROVE  Inv'
BY IntervalRows DEF Inv, TypeOK, RootStays, ParentsThere, DatedWhenOver

(* What is below c: c, with a parent below c, and nothing else than what   *)
(* any set with these holds.                                               *)
LEMMA BelowLeast ==
  ASSUME NEW r, NEW c \in DOMAIN r
  PROVE  /\ Below(r, c) \subseteq DOMAIN r /\ c \in Below(r, c)
         /\ \A d \in DOMAIN r : r[d].parent_id \in Below(r, c) => d \in Below(r, c)
         /\ \A S \in SUBSET DOMAIN r :
              c \in S /\ (\A d \in DOMAIN r : r[d].parent_id \in S => d \in S)
                => Below(r, c) \subseteq S
BY DEF Below

(* The complete names that a rename computes: of the channels in D, which  *)
(* are c and those below it by the new parents.  Unless the new parent is  *)
(* one of them, each name is its parent's and a label.                     *)
RenamesTo(c, l, q, D) ==
  /\ DOMAIN record' = DOMAIN record
  /\ D \subseteq DOMAIN record /\ c \in D /\ RootRecord \notin D
  /\ \A d \in DOMAIN record :
       /\ record'[d] \in Channels
       /\ record'[d].name = IF d = c THEN l ELSE record[d].name
       /\ record'[d].parent_id = IF d = c THEN q ELSE record[d].parent_id
       /\ d \notin D => record'[d] = record[d] /\ record[d].parent_id \notin D
       /\ d \in D /\ q \notin D =>
            record'[d].complete_name =
              Append(record'[record'[d].parent_id].complete_name, record'[d].name)
  /\ \A S \in SUBSET DOMAIN record :
       c \in S /\ (\A d \in DOMAIN record : d # c /\ record[d].parent_id \in S => d \in S)
         => D \subseteq S

LEMMA RenameRows ==
  ASSUME Inv, NEW c, NEW l \in Label, NEW q, Rename(c, l, q)
  PROVE  /\ c \in DOMAIN record /\ q \in DOMAIN record /\ Unique(record')
         /\ UNCHANGED <<function, cache, job>>
         /\ \E D : RenamesTo(c, l, q, D)
<1> DEFINE moved == [record[c] EXCEPT !.name = l, !.parent_id = q]
           r == [record EXCEPT ![c].name = l, ![c].parent_id = q]
           D == Below(r, c)
<1>1. /\ c \in DOMAIN record /\ q \in DOMAIN record /\ record[c].name # RootLabel
      /\ record' \in Recomputed(r, c) /\ Unique(record') /\ UNCHANGED <<function, cache, job>>
  BY DEF Rename
<1>2. \A d \in DOMAIN record : record[d] \in Channels
  BY DEF Inv, TypeOK
<1>3. /\ moved \in Channels /\ moved.name = l /\ moved.parent_id = q
      /\ moved.complete_name = record[c].complete_name
  BY <1>1, <1>2 DEF Inv, TypeOK, Channels
<1>4. r[c] = moved /\ DOMAIN r = DOMAIN record /\ \A d \in DOMAIN record : d # c => r[d] = record[d]
  BY <1>1
<1> HIDE DEF moved, r
<1>5. \A d \in DOMAIN r :
        /\ r[d] \in Channels /\ r[d].name = IF d = c THEN l ELSE record[d].name
        /\ r[d].parent_id = IF d = c THEN q ELSE record[d].parent_id
        /\ r[d].complete_name = record[d].complete_name
  BY <1>2, <1>3, <1>4
<1>6. /\ D \subseteq DOMAIN r /\ c \in D
      /\ \A d \in DOMAIN r : r[d].parent_id \in D => d \in D
      /\ \A S \in SUBSET DOMAIN r :
           c \in S /\ (\A d \in DOMAIN r : r[d].parent_id \in S => d \in S) => D \subseteq S
  BY <1>1, <1>4, BelowLeast
<1>7. PICK new \in [D -> Name], last \in IF r[c].parent_id \in D THEN D ELSE {NoRecord} :
        /\ \A d \in D : new[d] = Append(IF d # last /\ r[d].parent_id \in D
                                         THEN new[r[d].parent_id]
                                         ELSE r[r[d].parent_id].complete_name, r[d].name)
        /\ record' = Named(r, new)
  BY <1>1 DEF Recomputed
<1> HIDE DEF D
<1>8. /\ DOMAIN record' = DOMAIN r
      /\ \A d \in DOMAIN r :
           record'[d] = IF d \in D THEN [r[d] EXCEPT !.complete_name = new[d]] ELSE r[d]
  BY <1>7 DEF Named
<1>9. \A d \in DOMAIN r :
        /\ record'[d] \in Channels /\ record'[d].name = r[d].name
        /\ record'[d].parent_id = r[d].parent_id
        /\ record'[d].complete_name = IF d \in D THEN new[d] ELSE r[d].complete_name
  <2> SUFFICES ASSUME NEW d \in DOMAIN r
               PROVE  /\ record'[d] \in Channels /\ record'[d].name = r[d].name
                      /\ record'[d].parent_id = r[d].parent_id
                      /\ record'[d].complete_name = IF d \in D THEN new[d] ELSE r[d].complete_name
    OBVIOUS
  <2>1. PICK x \in Channels : x = r[d]
    BY <1>5
  <2>2. CASE d \in D
    <3>1. new[d] \in Name /\ record'[d] = [x EXCEPT !.complete_name = new[d]]
      BY <1>7, <1>8, <2>1, <2>2
    <3> QED
      BY <2>1, <2>2, <3>1 DEF Channels
  <2>3. CASE d \notin D
    BY <1>8, <2>1, <2>3
  <2> QED
    BY <2>2, <2>3
<1>10. RootRecord \notin D /\ c # RootRecord
  <2>1. c # RootRecord
    BY <1>1 DEF Inv, RootStays
  <2>2. r[RootRecord].parent_id = NoRecord /\ NoRecord \notin DOMAIN r
    BY <1>4, <1>5, <2>1, RecordAssumption DEF Inv, RootStays, TypeOK
  <2>3. D \subseteq DOMAIN r \ {RootRecord}
    BY <1>1, <1>4, <1>6, <2>1, <2>2
  <2> QED
    BY <2>1, <2>3
<1>11. ASSUME NEW d \in D, q \notin D
       PROVE  record'[d].complete_name =
                Append(record'[record'[d].parent_id].complete_name, record'[d].name)
  <2>1. d \in DOMAIN r /\ r[d].name = record'[d].name /\ r[d].parent_id = record'[d].parent_id
    BY <1>6, <1>9
  <2>2. last = NoRecord /\ d # last
    BY <1>1, <1>4, <1>5, <1>7, <1>11, <2>1, RecordAssumption DEF Inv, TypeOK
  <2>3. new[d] = Append(IF r[d].parent_id \in D THEN new[r[d].parent_id]
                        ELSE r[r[d].parent_id].complete_name, r[d].name)
    BY <1>7, <2>2
  <2>4. record'[d].complete_name = new[d]
    BY <1>9, <2>1
  <2>5. CASE r[d].parent_id \in D
    <3>1. record'[r[d].parent_id].complete_name = new[r[d].parent_id]
      BY <1>6, <1>9, <2>5
    <3> QED
      BY <2>1, <2>3, <2>4, <2>5, <3>1
  <2>6. CASE r[d].parent_id \in DOMAIN r \ D
    <3>1. record'[r[d].parent_id].complete_name = r[r[d].parent_id].complete_name
      BY <1>9, <2>6
    <3> QED
      BY <2>1, <2>3, <2>4, <2>6, <3>1
  <2>7. r[d].parent_id \in DOMAIN r
    BY <1>1, <1>4, <1>5, <1>10, <2>1 DEF Inv, ParentsThere
  <2> QED
    BY <2>5, <2>6, <2>7
<1>12. ASSUME NEW d \in DOMAIN record, d \notin D
       PROVE  record'[d] = record[d] /\ record[d].parent_id \notin D
  BY <1>4, <1>5, <1>6, <1>8, <1>12
<1>13. ASSUME NEW S \in SUBSET DOMAIN record, c \in S,
              \A d \in DOMAIN record : d # c /\ record[d].parent_id \in S => d \in S
       PROVE  D \subseteq S
  <2>1. \A d \in DOMAIN r : r[d].parent_id \in S => d \in S
    BY <1>4, <1>5, <1>13
  <2> QED
    BY <1>4, <1>6, <1>13, <2>1
<1>14. RenamesTo(c, l, q, D)
  BY <1>4, <1>5, <1>6, <1>8, <1>9, <1>10, <1>11, <1>12, <1>13 DEF RenamesTo
<1> QED
  BY <1>1, <1>14

LEMMA RenameInv ==
  ASSUME Inv, NEW c, NEW l \in Label, NEW q, Rename(c, l, q)
  PROVE  Inv'
<1>1. PICK D : RenamesTo(c, l, q, D)
  BY RenameRows
<1>2. UNCHANGED <<function, cache, job>>
  BY RenameRows
<1>3. TypeOK'
  BY <1>1, <1>2 DEF RenamesTo, Inv, TypeOK
<1>4. RootStays'
  BY <1>1 DEF RenamesTo, Inv, RootStays
<1>5. ParentsThere'
  BY <1>1, RenameRows DEF RenamesTo, Inv, ParentsThere
<1> QED
  BY <1>2, <1>3, <1>4, <1>5 DEF Inv, DatedWhenOver

(* unlink takes a channel away that no function is in, and not root.       *)
LEMMA UnlinkRows ==
  ASSUME Inv, NEW c, UnlinkChannel(c)
  PROVE  /\ c \in DOMAIN record /\ c # RootRecord
         /\ \A f \in Function : function[f] # c
         /\ \A d \in DOMAIN record \ {c} : record[d].parent_id # c
         /\ DOMAIN record' = DOMAIN record \ {c}
         /\ \A d \in DOMAIN record' : record'[d] = record[d]
         /\ UNCHANGED <<function, cache, job>>
BY DEF UnlinkChannel, Inv, RootStays

LEMMA UnlinkChannelInv ==
  ASSUME Inv, NEW c, UnlinkChannel(c)
  PROVE  Inv'
<1>1. /\ c # RootRecord /\ \A f \in Function : function[f] # c
      /\ \A d \in DOMAIN record \ {c} : record[d].parent_id # c
      /\ DOMAIN record' = DOMAIN record \ {c}
      /\ \A d \in DOMAIN record' : record'[d] = record[d]
      /\ UNCHANGED <<function, cache, job>>
  BY UnlinkRows
<1>2. TypeOK'
  BY <1>1 DEF Inv, TypeOK
<1>3. RootStays'
  BY <1>1 DEF Inv, RootStays
<1>4. ParentsThere'
  BY <1>1 DEF Inv, ParentsThere
<1> QED
  BY <1>1, <1>2, <1>3, <1>4 DEF Inv, DatedWhenOver

-----------------------------------------------------------------------------
(* Functions and jobs.                                                      *)

(* The configuration of a job function is a name.                          *)
LEMMA JobConfigType ==
  ASSUME TypeOK, NEW f \in Function
  PROVE  JobConfig(f) \in Name /\ FunctionChannel(f) \in Name
<1>1. FunctionChannel(f) \in Name
  BY NameAssumption DEF TypeOK, Channels, FunctionChannel
<1> QED
  BY <1>1 DEF TypeOK, JobConfig

(* Reading the configuration keeps the type of the cache.                  *)
LEMMA ReadConfigType ==
  ASSUME TypeOK, NEW f \in Function, ReadConfig(f)
  PROVE  cache' \in [Function -> Name \cup {NoName}]
BY JobConfigType DEF TypeOK, ReadConfig

(* Records without dates, unless they are over.                            *)
Undated(row) == row.state = "pending" => row.done = NoDate /\ row.cancelled = NoDate

(* A step on the jobs keeps the invariant if each row is of the right type *)
(* and has no date unless it is over.                                      *)
LEMMA JobsInv ==
  ASSUME Inv, UNCHANGED <<record, function>>, cache' \in [Function -> Name \cup {NoName}],
         \A j \in DOMAIN job' : job'[j] \in Rows /\ Undated(job'[j])
  PROVE  Inv'
BY DEF Inv, TypeOK, RootStays, ParentsThere, DatedWhenOver, Undated

LEMMA NewJobInv ==
  ASSUME Inv, NEW j \in Job, NEW f \in Function, NEW n \in Name \cup {NoName}, NewJob(j, f, n)
  PROVE  Inv'
<1> DEFINE row == [function |-> f, channel |-> IF n = NoName THEN JobConfig(f) ELSE n,
                   state |-> "pending", done |-> NoDate, cancelled |-> NoDate]
<1>1. (IF n = NoName THEN JobConfig(f) ELSE n) \in Name
  BY JobConfigType DEF Inv
<1>2. row \in Rows /\ Undated(row)
  BY <1>1 DEF Rows, Undated, States, Dates
<1>3. job' = With(job, j, row)
  BY DEF NewJob
<1> HIDE DEF row
<1>4. \A i \in DOMAIN job' : job'[i] = row \/ (i \in DOMAIN job /\ job'[i] = job[i])
  BY <1>3 DEF With
<1>5. cache' \in [Function -> Name \cup {NoName}]
  BY ReadConfigType DEF NewJob, Inv
<1> QED
  BY <1>2, <1>4, <1>5, JobsInv DEF NewJob, Inv, TypeOK, DatedWhenOver, Undated

LEMMA StoreInv ==
  ASSUME Inv, NEW j, NEW new \in Rows, Undated(new), Store(j, new)
  PROVE  Inv'
<1>1. j \in DOMAIN job /\ job[j] \in Rows
  BY DEF Store, Inv, TypeOK
<1>2. job[j].function \in Function
  BY <1>1 DEF Rows
<1>3. cache' \in [Function -> Name \cup {NoName}]
  BY <1>2, ReadConfigType DEF Store, Inv
<1>4. job' = [job EXCEPT ![j] = new]
  BY DEF Store
<1>5. \A i \in DOMAIN job' : job'[i] = new \/ (i \in DOMAIN job /\ job'[i] = job[i])
  BY <1>4
<1> QED
  BY <1>3, <1>5, JobsInv DEF Store, Inv, TypeOK, DatedWhenOver, Undated

(* A user's or a worker's change of the state of a job keeps the invariant. *)
LEMMA StateInv ==
  ASSUME Inv, NEW j \in DOMAIN job, SetDone(j) \/ SetCancelled(j) \/ SetPending(j)
  PROVE  Inv'
<1>1. job[j] \in Rows
  BY DEF Inv, TypeOK
<1>2. CASE SetDone(j)
  <2> DEFINE new == [job[j] EXCEPT !.state = "done", !.done = 0]
  <2>1. new \in Rows /\ Undated(new)
    BY <1>1 DEF Rows, States, Dates, Undated
  <2>2. Store(j, new)
    BY <1>2 DEF SetDone
  <2> HIDE DEF new
  <2> QED
    BY <2>1, <2>2, StoreInv
<1>3. CASE SetCancelled(j)
  <2> DEFINE new == [job[j] EXCEPT !.state = "cancelled", !.cancelled = 0]
  <2>1. new \in Rows /\ Undated(new)
    BY <1>1 DEF Rows, States, Dates, Undated
  <2>2. Store(j, new)
    BY <1>3 DEF SetCancelled
  <2> HIDE DEF new
  <2> QED
    BY <2>1, <2>2, StoreInv
<1>4. CASE SetPending(j)
  <2> DEFINE new == [job[j] EXCEPT !.state = "pending", !.done = NoDate, !.cancelled = NoDate]
  <2>1. new \in Rows /\ Undated(new)
    BY <1>1 DEF Rows, States, Dates, Undated
  <2>2. Store(j, new)
    BY <1>4 DEF SetPending
  <2> HIDE DEF new
  <2> QED
    BY <2>1, <2>2, StoreInv
<1> QED
  BY <1>2, <1>3, <1>4

(* Days go by for the dates that are there.                                *)
LEMMA DayInv ==
  ASSUME Inv, Day
  PROVE  Inv'
<1> DEFINE Older(d) == IF d = NoDate THEN d ELSE IF d < MaxDays THEN d + 1 ELSE d
           new(j) == [job[j] EXCEPT !.done = Older(job[j].done),
                                    !.cancelled = Older(job[j].cancelled)]
<1>1. \A d \in Dates : Older(d) \in Dates /\ Older(NoDate) = NoDate
  BY DEF Dates
<1>2. job' = [j \in DOMAIN job |-> new(j)] /\ UNCHANGED <<record, function, cache>>
  BY DEF Day
<1> HIDE DEF Older
<1>3. ASSUME NEW j \in DOMAIN job
      PROVE  new(j) \in Rows /\ Undated(new(j))
  <2>1. job[j] \in Rows /\ Undated(job[j])
    BY DEF Inv, TypeOK, DatedWhenOver, Undated
  <2>2. Older(job[j].done) \in Dates /\ Older(job[j].cancelled) \in Dates
    BY <1>1, <2>1 DEF Rows
  <2>3. new(j) \in Rows
    BY <2>1, <2>2 DEF Rows
  <2>4. /\ new(j).state = job[j].state /\ new(j).done = Older(job[j].done)
        /\ new(j).cancelled = Older(job[j].cancelled)
    BY <2>1 DEF Rows
  <2> QED
    BY <1>1, <2>1, <2>3, <2>4 DEF Undated, Dates
<1> HIDE DEF new
<1>4. \A j \in DOMAIN job' : job'[j] \in Rows /\ Undated(job'[j])
  BY <1>2, <1>3
<1> QED
  BY <1>2, <1>4, JobsInv DEF Inv, TypeOK

(* A write of a function clears the cache.                                 *)
LEMMA WriteFunctionInv ==
  ASSUME Inv, NEW f \in Function, NEW c, WriteFunction(f, c)
  PROVE  Inv'
BY DEF Inv, TypeOK, RootStays, ParentsThere, DatedWhenOver, WriteFunction, NoCache

-----------------------------------------------------------------------------
(* The inductive invariant is an invariant.                                 *)

LEMMA InitInv == Init => Inv
<1> SUFFICES ASSUME Init
             PROVE  Inv
  OBVIOUS
<1>1. PICK i \in Interval :
        record = [c \in {RootRecord} |-> [name |-> RootLabel, parent_id |-> NoRecord,
                                          complete_name |-> Root, removal_interval |-> i]]
  BY DEF Init
<1>2. /\ DOMAIN record = {RootRecord} /\ record[RootRecord].complete_name = Root
      /\ record[RootRecord].name = RootLabel /\ record[RootRecord].parent_id = NoRecord
      /\ record[RootRecord] \in Channels
  BY <1>1, NameAssumption DEF Channels
<1>3. DOMAIN job = {}
  BY DEF Init
<1>4. TypeOK
  BY <1>2, <1>3 DEF Init, TypeOK, NoCache
<1> QED
  BY <1>2, <1>3, <1>4 DEF Inv, RootStays, ParentsThere, DatedWhenOver

LEMMA StepInv == Inv /\ [Next]_vars => Inv'
<1> SUFFICES ASSUME Inv, [Next]_vars
             PROVE  Inv'
  OBVIOUS
<1>1. CASE ChannelNext
  <2>1. ASSUME NEW c, Autovacuum(c)
        PROVE  Inv'
    BY <2>1 DEF Autovacuum, Inv, TypeOK, RootStays, ParentsThere, DatedWhenOver
  <2> QED
    BY <1>1, <2>1, CreateChannelInv, SetIntervalInv, RenameInv, UnlinkChannelInv DEF ChannelNext
<1>2. CASE FunctionNext
  BY <1>2, WriteFunctionInv DEF FunctionNext
<1>3. CASE JobNext
  BY <1>3, NewJobInv, StateInv DEF JobNext
<1>4. CASE Day
  BY <1>4, DayInv
<1>5. CASE UNCHANGED vars
  BY <1>5 DEF vars, Inv, TypeOK, RootStays, ParentsThere, DatedWhenOver
<1> QED
  BY <1>1, <1>2, <1>3, <1>4, <1>5 DEF Next

LEMMA Invariant == Spec => []Inv
BY InitInv, StepInv, PTL DEF Spec

-----------------------------------------------------------------------------
(* Theorems.                                                                *)

(* A step that changes no name and no parent keeps the tree.               *)
LEMMA SameTree ==
  ASSUME ChannelTree, DOMAIN record' = DOMAIN record,
         \A d \in DOMAIN record :
           /\ record'[d].name = record[d].name /\ record'[d].parent_id = record[d].parent_id
           /\ record'[d].complete_name = record[d].complete_name
  PROVE  ChannelTree'
<1>1. RootRecord \in DOMAIN record' /\ record'[RootRecord].complete_name = Root
  BY DEF ChannelTree
<1>2. ASSUME NEW c \in DOMAIN record' \ {RootRecord}
      PROVE  /\ record'[c].parent_id \in DOMAIN record'
             /\ record'[c].complete_name =
                  Append(record'[record'[c].parent_id].complete_name, record'[c].name)
  <2>1. /\ record[c].parent_id \in DOMAIN record
        /\ record[c].complete_name = Append(record[record[c].parent_id].complete_name, record[c].name)
    BY DEF ChannelTree
  <2> QED
    BY <2>1
<1>3. Unique(record')
  BY DEF ChannelTree, Unique
<1> QED
  BY <1>1, <1>2, <1>3 DEF ChannelTree

(* A rename or a move keeps the tree, unless the new parent is the channel *)
(* or below it.                                                            *)
LEMMA RenameKeepsTree ==
  ASSUME Inv, ChannelTree, NEW c, NEW l \in Label, NEW q, Rename(c, l, q), ~ MovedBelowItself(c)
  PROVE  ChannelTree'
<1>1. c \in DOMAIN record /\ q \in DOMAIN record /\ Unique(record')
  BY RenameRows
<1>2. PICK D : RenamesTo(c, l, q, D)
  BY RenameRows
<1> DEFINE name(d) == record[d].complete_name
           S == {d \in DOMAIN record : IsPrefix(name(c), name(d))}
<1>3. \A d \in DOMAIN record : name(d) \in Seq(Label) /\ record[d].name \in Label
  BY NameAssumption DEF Inv, TypeOK, Channels
<1>4. ASSUME NEW d \in DOMAIN record, d # c, record[d].parent_id \in S
      PROVE  d \in S
  <2>1. d # RootRecord
    BY <1>4, RecordAssumption DEF Inv, RootStays, TypeOK
  <2>2. name(d) = Append(name(record[d].parent_id), record[d].name)
    BY <2>1 DEF ChannelTree
  <2>3. IsPrefix(name(c), name(record[d].parent_id)) /\ record[d].parent_id \in DOMAIN record
    BY <1>4
  <2> HIDE DEF name
  <2>4. IsPrefix(name(c), Append(name(record[d].parent_id), record[d].name))
    BY <1>1, <1>3, <2>3, PrefixAppend
  <2> QED
    BY <2>2, <2>4
<1>5. c \in S
  BY <1>1, <1>3, NameAssumption, PrefixAppend
<1>6. q \notin S
  BY <1>1, <1>2 DEF MovedBelowItself, RenamesTo
<1> HIDE DEF S
<1>7. D \subseteq S
  <2>1. S \in SUBSET DOMAIN record
    BY DEF S
  <2> QED
    BY <1>2, <1>4, <1>5, <2>1 DEF RenamesTo
<1>8. q \notin D
  BY <1>6, <1>7
<1>9. RootRecord \in DOMAIN record' /\ record'[RootRecord].complete_name = Root
  BY <1>2 DEF RenamesTo, ChannelTree
<1>10. ASSUME NEW d \in DOMAIN record' \ {RootRecord}
       PROVE  /\ record'[d].parent_id \in DOMAIN record'
              /\ record'[d].complete_name =
                   Append(record'[record'[d].parent_id].complete_name, record'[d].name)
  <2>1. d \in DOMAIN record /\ DOMAIN record' = DOMAIN record
    BY <1>2 DEF RenamesTo
  <2>2. record'[d].parent_id \in DOMAIN record
    BY <1>1, <1>2, <2>1 DEF RenamesTo, ChannelTree
  <2>3. CASE d \in D
    BY <1>2, <1>8, <2>1, <2>2, <2>3 DEF RenamesTo
  <2>4. CASE d \notin D
    <3>1. record'[d] = record[d] /\ record[d].parent_id \notin D
      BY <1>2, <2>1, <2>4 DEF RenamesTo
    <3>2. record'[record[d].parent_id] = record[record[d].parent_id]
      BY <1>2, <2>2, <3>1 DEF RenamesTo
    <3>3. record[d].complete_name = Append(record[record[d].parent_id].complete_name, record[d].name)
      BY <2>1 DEF ChannelTree
    <3> QED
      BY <2>1, <2>2, <3>1, <3>2, <3>3
  <2> QED
    BY <2>3, <2>4
<1> QED
  BY <1>1, <1>9, <1>10 DEF ChannelTree

(* The records of channels stay a tree under every create, rename, move    *)
(* and unlink: each but root has its parent, its complete name is its      *)
(* parent's with its own label, and no two share a complete name.  The one *)
(* exception is a channel that is moved below itself, which neither        *)
(* parent_required nor write refuses.                                      *)
THEOREM TreeUnlessMovedBelowItself == Spec => ChannelsStayATree
<1> DEFINE below == \E c \in DOMAIN record \cap DOMAIN record' : MovedBelowItself(c)
<1>1. Inv /\ [Next]_vars => [ChannelTree => ChannelTree' \/ below]_vars
  <2> SUFFICES ASSUME Inv, [Next]_vars, ChannelTree, ~ below
               PROVE  ChannelTree'
    OBVIOUS
  <2>1. ASSUME UNCHANGED record
        PROVE  ChannelTree'
    BY <2>1 DEF ChannelTree, Unique
  <2>2. ASSUME NEW c \in Record, NEW l \in Label, NEW q, NEW i \in Interval,
               CreateChannel(c, l, q, i)
        PROVE  ChannelTree'
    <3>1. /\ c \notin DOMAIN record /\ DOMAIN record' = DOMAIN record \cup {c}
          /\ \A d \in DOMAIN record : record'[d] = record[d]
          /\ q \in DOMAIN record /\ record'[c].parent_id = q /\ record'[c].name = l
          /\ record'[c].complete_name = Append(record[q].complete_name, l)
          /\ record'[c].complete_name \notin Names(record)
      BY <2>2, CreateRows
    <3>2. Unique(record')
      BY <3>1 DEF ChannelTree, Unique, Names
    <3>3. \A d \in DOMAIN record' \ {RootRecord} :
            /\ record'[d].parent_id \in DOMAIN record'
            /\ record'[d].complete_name =
                 Append(record'[record'[d].parent_id].complete_name, record'[d].name)
      BY <3>1 DEF ChannelTree
    <3> QED
      BY <3>1, <3>2, <3>3 DEF ChannelTree
  <2>3. ASSUME NEW c, NEW i \in Interval, SetInterval(c, i)
        PROVE  ChannelTree'
    BY <2>3, IntervalRows, SameTree
  <2>4. ASSUME NEW c, NEW l \in Label, NEW q, Rename(c, l, q)
        PROVE  ChannelTree'
    <3>1. PICK D : RenamesTo(c, l, q, D)
      BY <2>4, RenameRows
    <3>2. c \in DOMAIN record \cap DOMAIN record'
      BY <3>1 DEF RenamesTo
    <3> QED
      BY <2>4, <3>2, RenameKeepsTree
  <2>5. ASSUME NEW c, UnlinkChannel(c)
        PROVE  ChannelTree'
    <3>1. /\ c # RootRecord /\ \A d \in DOMAIN record \ {c} : record[d].parent_id # c
          /\ DOMAIN record' = DOMAIN record \ {c}
          /\ \A d \in DOMAIN record' : record'[d] = record[d]
      BY <2>5, UnlinkRows
    <3>2. RootRecord \in DOMAIN record' /\ record'[RootRecord].complete_name = Root
      BY <3>1 DEF ChannelTree
    <3>3. ASSUME NEW d \in DOMAIN record' \ {RootRecord}
          PROVE  /\ record'[d].parent_id \in DOMAIN record'
                 /\ record'[d].complete_name =
                      Append(record'[record'[d].parent_id].complete_name, record'[d].name)
      <4>1. /\ record[d].parent_id \in DOMAIN record
            /\ record[d].complete_name = Append(record[record[d].parent_id].complete_name, record[d].name)
        BY <3>1 DEF ChannelTree
      <4> QED
        BY <3>1, <4>1
    <3>4. Unique(record')
      BY <3>1 DEF ChannelTree, Unique
    <3> QED
      BY <3>2, <3>3, <3>4 DEF ChannelTree
  <2>6. ASSUME NEW c, Autovacuum(c)
        PROVE  ChannelTree'
    BY <2>1, <2>6 DEF Autovacuum
  <2>7. CASE ChannelNext
    BY <2>2, <2>3, <2>4, <2>5, <2>6, <2>7 DEF ChannelNext
  <2>8. CASE FunctionNext
    BY <2>1, <2>8 DEF FunctionNext, WriteFunction
  <2>9. CASE JobNext
    BY <2>1, <2>9 DEF JobNext, NewJob, SetDone, SetCancelled, SetPending, Store
  <2>10. CASE Day \/ UNCHANGED vars
    BY <2>1, <2>10 DEF Day, vars
  <2> QED
    BY <2>7, <2>8, <2>9, <2>10 DEF Next
<1> QED
  BY <1>1, Invariant, PTL DEF Spec, ChannelsStayATree

(* Only jobs that are over are deleted, once they have been for the days a *)
(* channel of their name says (autovacuum): a job that was done or         *)
(* cancelled once and is to run again has no date left (set_pending).      *)
THEOREM OnlyOverJobsDeleted == Spec => DeletedWhenOver
<1> DEFINE Deleted(j) ==
             /\ job[j].state \in {"done", "cancelled"}
             /\ \E c \in DOMAIN record :
                  /\ record[c].complete_name = job[j].channel
                  /\ \E d \in {job[j].done, job[j].cancelled} \ {NoDate} :
                       record[c].removal_interval <= d
<1>1. Inv /\ [Next]_vars =>
        [\A j \in DOMAIN job : j \notin DOMAIN job' => Deleted(j)]_vars
  <2> SUFFICES ASSUME Inv, [Next]_vars, NEW j \in DOMAIN job, j \notin DOMAIN job'
               PROVE  Deleted(j)
    OBVIOUS
  <2>1. ASSUME NEW c, Autovacuum(c)
        PROVE  Deleted(j)
    <3>1. c \in DOMAIN record /\ j \in Expired(c)
      BY <2>1 DEF Autovacuum
    <3>2. record[c].complete_name = job[j].channel
      BY <3>1 DEF Expired
    <3>3. PICK d \in {job[j].done, job[j].cancelled} \ {NoDate} : d >= record[c].removal_interval
      BY <3>1 DEF Expired
    <3>4. job[j] \in Rows /\ record[c] \in Channels
      BY <3>1 DEF Inv, TypeOK
    <3>5. d \in Nat /\ record[c].removal_interval \in Nat
      BY <3>3, <3>4, RecordAssumption DEF Rows, Dates, Channels
    <3>6. job[j].state \in {"done", "cancelled"}
      BY <3>3, <3>4 DEF Inv, DatedWhenOver, Rows, States
    <3> QED
      BY <3>1, <3>2, <3>3, <3>5, <3>6
  <2> HIDE DEF Deleted
  <2>2. CASE ChannelNext
    BY <2>1, <2>2 DEF ChannelNext, CreateChannel, SetInterval, Rename, UnlinkChannel
  <2>3. CASE FunctionNext
    BY <2>3 DEF FunctionNext, WriteFunction
  <2>4. ASSUME NEW i, NEW new, Store(i, new)
        PROVE  Deleted(j)
    BY <2>4 DEF Store
  <2>5. ASSUME NEW i, NEW f, NEW n, NewJob(i, f, n)
        PROVE  Deleted(j)
    BY <2>5 DEF NewJob, With
  <2>6. CASE JobNext
    BY <2>4, <2>5, <2>6 DEF JobNext, SetDone, SetCancelled, SetPending
  <2>7. CASE Day
    BY <2>7 DEF Day
  <2>8. CASE UNCHANGED vars
    BY <2>8 DEF vars
  <2> QED
    BY <2>2, <2>3, <2>6, <2>7, <2>8 DEF Next
<1> QED
  BY <1>1, Invariant, PTL DEF Spec, DeletedWhenOver

(* A step that is no rename and leaves the records of the functions alone  *)
(* does not change the channels of functions.                              *)
LEMMA SameChannels ==
  ASSUME Inv, UNCHANGED function,
         \A c \in DOMAIN record : (\E f \in Function : function[f] = c) =>
           c \in DOMAIN record' /\ record'[c].complete_name = record[c].complete_name
  PROVE  \A f \in Function : FunctionChannel(f)' = FunctionChannel(f)
BY DEF Inv, TypeOK, FunctionChannel

(* The configuration that is read is that of the database, if what is in   *)
(* the cache is.                                                           *)
LEMMA ReadCoherent ==
  ASSUME Inv, Coherent, NEW f \in Function, ReadConfig(f), UNCHANGED <<record, function>>
  PROVE  Coherent'
<1>1. \A g \in Function : FunctionChannel(g)' = FunctionChannel(g)
  BY DEF FunctionChannel
<1>2. JobConfig(f) \in {NoName, FunctionChannel(f)}
  BY DEF Coherent, JobConfig
<1>3. \A g \in Function : cache'[g] \in {NoName, FunctionChannel(g)}
  BY <1>2 DEF Coherent, ReadConfig, Inv, TypeOK
<1> QED
  BY <1>1, <1>3 DEF Coherent

(* The cached channel of a function gets out of step with the database     *)
(* only as a channel is renamed or moved: every change of a function       *)
(* clears the caches, and a channel in use cannot be deleted (job_config,  *)
(* the foreign key of queue_job_function).                                 *)
THEOREM OnlyRenamesMakeStale == Spec => StaleByRenameOnly
<1> DEFINE renamed == \E c \in DOMAIN record \cap DOMAIN record' :
                        record'[c].complete_name # record[c].complete_name
<1>1. Inv /\ [Next]_vars => [Coherent => Coherent' \/ renamed]_vars
  <2> SUFFICES ASSUME Inv, [Next]_vars, Coherent, ~ renamed
               PROVE  Coherent'
    OBVIOUS
  <2>1. ASSUME UNCHANGED cache, \A f \in Function : FunctionChannel(f)' = FunctionChannel(f)
        PROVE  Coherent'
    BY <2>1 DEF Coherent
  <2>2. ASSUME UNCHANGED <<function, cache>>,
               \A c \in DOMAIN record : (\E f \in Function : function[f] = c) => c \in DOMAIN record'
        PROVE  Coherent'
    BY <2>1, <2>2, SameChannels
  <2>3. ASSUME NEW c \in Record, NEW l \in Label, NEW q, NEW i \in Interval,
               CreateChannel(c, l, q, i)
        PROVE  Coherent'
    BY <2>2, <2>3, CreateRows
  <2>4. ASSUME NEW c, NEW i \in Interval, SetInterval(c, i)
        PROVE  Coherent'
    BY <2>2, <2>4, IntervalRows
  <2>5. ASSUME NEW c, NEW l \in Label, NEW q, Rename(c, l, q)
        PROVE  Coherent'
    BY <2>2, <2>5, RenameRows DEF RenamesTo
  <2>6. ASSUME NEW c, UnlinkChannel(c)
        PROVE  Coherent'
    BY <2>2, <2>6 DEF UnlinkChannel
  <2>7. ASSUME NEW c, Autovacuum(c)
        PROVE  Coherent'
    BY <2>2, <2>7 DEF Autovacuum
  <2>8. CASE ChannelNext
    BY <2>3, <2>4, <2>5, <2>6, <2>7, <2>8 DEF ChannelNext
  <2>9. CASE FunctionNext
    BY <2>9 DEF FunctionNext, WriteFunction, NoCache, Coherent
  <2>10. ASSUME NEW j \in DOMAIN job, NEW new, Store(j, new)
         PROVE  Coherent'
    <3>1. job[j].function \in Function
      BY DEF Inv, TypeOK, Rows
    <3> QED
      BY <2>10, <3>1, ReadCoherent DEF Store
  <2>11. ASSUME NEW j, NEW f \in Function, NEW n, NewJob(j, f, n)
         PROVE  Coherent'
    BY <2>11, ReadCoherent DEF NewJob
  <2>12. CASE JobNext
    BY <2>10, <2>11, <2>12 DEF JobNext, SetDone, SetCancelled, SetPending
  <2>13. CASE Day
    BY <2>2, <2>13 DEF Day
  <2>14. CASE UNCHANGED vars
    BY <2>2, <2>14 DEF vars
  <2> QED
    BY <2>8, <2>9, <2>12, <2>13, <2>14 DEF Next
<1> QED
  BY <1>1, Invariant, PTL DEF Spec, StaleByRenameOnly

=============================================================================
