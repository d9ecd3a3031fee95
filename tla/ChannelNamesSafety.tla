------------------------- MODULE ChannelNamesSafety -------------------------
(***************************************************************************)
(* Proofs about ChannelNames: a job that is notified again stays in its    *)
(* channel, and its channel is under the configured channels that its name *)
(* is under, for every set of names and every configuration.               *)
(***************************************************************************)
EXTENDS ChannelNames, SequenceTheorems, WellFoundedInduction, TLAPS

-----------------------------------------------------------------------------
(* Prefixes of sequences.                                                   *)

(* The first elements of a sequence.                                       *)
LEMMA FirstElements ==
  ASSUME NEW S, NEW n \in Seq(S), NEW l \in 0..Len(n)
  PROVE  /\ SubSeq(n, 1, l) \in Seq(S)
         /\ Len(SubSeq(n, 1, l)) = l
         /\ \A i \in 1..l : SubSeq(n, 1, l)[i] = n[i]
<1>1. Len(n) \in Nat
  BY LenProperties
<1>2. \A i \in 1..l : n[i] \in S
  BY <1>1, ElementOfSeq
<1> QED
  BY <1>1, <1>2, SubSeqProperties

(* A prefix agrees with the sequence on its own length.                    *)
LEMMA PrefixPointwise ==
  ASSUME NEW S, NEW p \in Seq(S), NEW n \in Seq(S)
  PROVE  IsPrefix(p, n) <=> Len(p) <= Len(n) /\ \A i \in 1..Len(p) : p[i] = n[i]
<1> SUFFICES ASSUME Len(p) <= Len(n)
             PROVE  SubSeq(p, 1, Len(p)) = SubSeq(n, 1, Len(p))
                      <=> \A i \in 1..Len(p) : p[i] = n[i]
  BY DEF IsPrefix
<1> DEFINE s == SubSeq(n, 1, Len(p))
<1>1. Len(p) \in Nat /\ Len(n) \in Nat /\ SubSeq(p, 1, Len(p)) = p
  BY LenProperties, SubSeqFull
<1>2. Len(p) \in 0..Len(n)
  BY <1>1
<1>3. s \in Seq(S) /\ Len(s) = Len(p) /\ \A i \in 1..Len(p) : s[i] = n[i]
  BY <1>2, FirstElements
<1> HIDE DEF s
<1>4. (\A i \in 1..Len(p) : p[i] = n[i]) => s = p
  BY <1>3, SeqEqual
<1> QED
  BY <1>1, <1>3, <1>4 DEF s

(* A prefix of a prefix is a prefix.                                       *)
LEMMA PrefixTransitive ==
  ASSUME NEW S, NEW p \in Seq(S), NEW m \in Seq(S), NEW n \in Seq(S),
         IsPrefix(p, m), IsPrefix(m, n)
  PROVE  IsPrefix(p, n)
<1>1. Len(p) \in Nat /\ Len(m) \in Nat /\ Len(n) \in Nat
  BY LenProperties
<1>2. /\ Len(p) <= Len(m) /\ \A i \in 1..Len(p) : p[i] = m[i]
      /\ Len(m) <= Len(n) /\ \A i \in 1..Len(m) : m[i] = n[i]
  BY PrefixPointwise
<1>3. Len(p) <= Len(n) /\ \A i \in 1..Len(p) : p[i] = n[i]
  BY <1>1, <1>2
<1> QED
  BY <1>3, PrefixPointwise

(* Prefixes gives the prefixes.                                            *)
LEMMA PrefixesArePrefixes ==
  ASSUME NEW S, NEW n \in Seq(S)
  PROVE  \A p : p \in Prefixes(n) <=> p \in Seq(S) /\ IsPrefix(p, n)
<1>1. Len(n) \in Nat
  BY LenProperties
<1>2. ASSUME NEW l \in 0..Len(n)
      PROVE  IsPrefix(SubSeq(n, 1, l), n)
  <2> DEFINE s == SubSeq(n, 1, l)
  <2>1. s \in Seq(S) /\ Len(s) = l /\ l <= Len(n) /\ \A i \in 1..l : s[i] = n[i]
    BY <1>1, FirstElements
  <2> HIDE DEF s
  <2>2. IsPrefix(s, n)
    BY <2>1, PrefixPointwise
  <2> QED
    BY <2>2 DEF s
<1>3. ASSUME NEW p \in Seq(S), IsPrefix(p, n)
      PROVE  p \in Prefixes(n)
  <2>1. Len(p) \in 0..Len(n) /\ \A i \in 1..Len(p) : p[i] = n[i]
    BY <1>1, <1>3, PrefixPointwise, LenProperties
  <2>2. p = SubSeq(n, 1, Len(p))
    BY <2>1, FirstElements, SeqEqual
  <2> QED
    BY <2>1, <2>2 DEF Prefixes
<1>4. \A l \in 0..Len(n) : SubSeq(n, 1, l) \in Seq(S)
  BY FirstElements
<1> QED
  BY <1>2, <1>3, <1>4 DEF Prefixes

(* A concatenation is the first sequence and then the second one.          *)
LEMMA ConcatPointwise ==
  ASSUME NEW S, NEW k \in Seq(S), NEW n \in Seq(S)
  PROVE  /\ k \o n \in Seq(S) /\ Len(k \o n) = Len(k) + Len(n)
         /\ \A i \in 1..Len(k) : (k \o n)[i] = k[i]
         /\ \A i \in 1..Len(n) : (k \o n)[Len(k) + i] = n[i]
<1>1. Len(k) \in Nat /\ Len(n) \in Nat
  BY LenProperties
<1> QED
  BY <1>1, ConcatProperties

(* A set of naturals that is not empty has a least element.                *)
LessThan == {m \in Nat \X Nat : m[1] < m[2]}

LEMMA LeastNatural ==
  ASSUME NEW S \in SUBSET Nat, S # {}
  PROVE  \E x \in S : \A y \in S : x <= y
<1>1. IsWellFoundedOn(LessThan, Nat)
  BY NatLessThanWellFounded, Zenon DEF OpToRel, LessThan
<1>2. \E x \in S : \A y \in S : <<y, x>> \notin LessThan
  BY <1>1, WFMin
<1>3. \A x, y \in Nat : <<y, x>> \notin LessThan => x <= y
  <2> SUFFICES ASSUME NEW x \in Nat, NEW y \in Nat, y < x
               PROVE  <<y, x>> \in LessThan
    OBVIOUS
  <2>1. <<y, x>>[1] = y /\ <<y, x>>[2] = x
    OBVIOUS
  <2> QED
    BY <2>1, Zenon DEF LessThan
<1> QED
  BY <1>2, <1>3

-----------------------------------------------------------------------------
(* The inductive invariant.                                                 *)

(* The channels make a tree from root: one that is there has its ancestors *)
(* there.                                                                  *)
Rooted ==
  /\ Known \subseteq Seq(Label)
  /\ Root \in Known
  /\ \A n \in Known : Prefixes(n) \subseteq Known

ConfigKept == \A n \in DOMAIN config : n \in Known /\ capacity[n] = config[n]

TypeOK ==
  /\ DOMAIN config \subseteq Name
  /\ named \in [Job -> Name \cup {NoName}]
  /\ placed \in [Job -> Seq(Label) \cup {NoName}]

(* A name with a channel of its own, or with an ancestor other than root   *)
(* that has one: once it has been resolved, a name is one of these.        *)
Settled(n) == n \in Known \/ Nearest(n) # Root

Inv ==
  /\ TypeOK /\ Rooted /\ ConfigKept
  /\ \A j \in Job : named[j] # NoName /\ Plain(named[j]) =>
       placed[j] = Resolved(named[j]) /\ Settled(named[j])

-----------------------------------------------------------------------------
(* The nearest ancestor is the longest strict prefix that has a channel.   *)
LEMMA NearestIsLongest ==
  ASSUME Rooted, NEW n \in Seq(Label), n # Root
  PROVE  /\ Nearest(n) \in Known /\ IsStrictPrefix(Nearest(n), n)
         /\ \A k \in Known : IsStrictPrefix(k, n) => Len(k) <= Len(Nearest(n))
<1> DEFINE known == {m \in Known : IsStrictPrefix(m, n)}
           rest  == {Len(n) - Len(m) : m \in known}
<1>1. Root \in known
  BY PrefixPointwise, EmptySeq, LenProperties DEF Rooted, Root, IsStrictPrefix
<1>2. \A m \in known : Len(m) \in Nat /\ Len(m) <= Len(n)
  BY PrefixPointwise, LenProperties DEF Rooted, IsStrictPrefix
<1>3. rest \in SUBSET Nat /\ rest # {}
  BY <1>1, <1>2, LenProperties
<1>4. \E x \in rest : \A y \in rest : x <= y
  BY <1>3, LeastNatural
<1>5. \E m \in known : \A k \in known : Len(n) - Len(m) <= Len(n) - Len(k)
  BY <1>4
<1>6. \E m \in known : \A k \in known : Len(k) <= Len(m)
  BY <1>2, <1>5, LenProperties
<1> QED
  BY <1>6 DEF Nearest

(* What goes beyond the ancestor that a name falls back on, if that is not *)
(* root, has a label twice: the ancestor is followed by all the labels of  *)
(* the name.                                                               *)
LEMMA FallbackRepeats ==
  ASSUME Rooted, NEW n \in Seq(Label), n # Root, Nearest(n) # Root,
         NEW p \in Prefixes(Nearest(n) \o n),
         NEW m \in Seq(Label), IsPrefix(p, m), Plain(m)
  PROVE  IsPrefix(p, Nearest(n))
<1> DEFINE k == Nearest(n)
<1> SUFFICES ASSUME ~ IsPrefix(p, k)
             PROVE  FALSE
  OBVIOUS
<1>1. /\ k \in Known /\ k \in Seq(Label) /\ IsPrefix(k, n)
      /\ Len(k) \in Nat /\ Len(n) \in Nat /\ Len(m) \in Nat
  BY NearestIsLongest, LenProperties DEF Rooted, IsStrictPrefix
<1>2. Len(k) >= 1
  BY <1>1, EmptySeq DEF Root
<1>3. k[1] = n[1] /\ Len(n) >= 1
  BY <1>1, <1>2, PrefixPointwise
<1> DEFINE both == k \o n
<1>4. /\ both \in Seq(Label) /\ Len(both) = Len(k) + Len(n)
      /\ \A i \in 1..Len(k) : both[i] = k[i]
      /\ both[Len(k) + 1] = n[1]
  BY <1>1, <1>3, ConcatPointwise
<1>5. p \in Prefixes(both)
  OBVIOUS
<1> HIDE DEF k, both
<1>6. p \in Seq(Label) /\ IsPrefix(p, both)
  BY <1>4, <1>5, PrefixesArePrefixes
<1>7. Len(p) \in Nat
  BY <1>6, LenProperties
<1>8. /\ IsPrefix(p, m) <=> Len(p) <= Len(m) /\ \A i \in 1..Len(p) : p[i] = m[i]
      /\ IsPrefix(p, k) <=> Len(p) <= Len(k) /\ \A i \in 1..Len(p) : p[i] = k[i]
      /\ Len(p) <= Len(both) /\ \A i \in 1..Len(p) : p[i] = both[i]
  BY <1>1, <1>4, <1>6, PrefixPointwise
<1>9. Len(p) > Len(k)
  <2>1. Len(p) <= Len(k) => \A i \in 1..Len(p) : p[i] = k[i]
    BY <1>1, <1>4, <1>7, <1>8
  <2> QED
    BY <1>1, <1>7, <1>8, <2>1
<1>10. p[1] = k[1] /\ p[Len(k) + 1] = n[1]
  BY <1>1, <1>2, <1>4, <1>7, <1>8, <1>9
<1>11. Len(m) >= Len(k) + 1 /\ m[1] = m[Len(k) + 1]
  BY <1>1, <1>2, <1>3, <1>7, <1>8, <1>9, <1>10
<1>12. 1 \in DOMAIN m /\ Len(k) + 1 \in DOMAIN m /\ 1 # Len(k) + 1
  BY <1>1, <1>2, <1>11, LenProperties
<1> QED
  BY <1>11, <1>12 DEF Plain, IsInjective

(* What a name that falls back on root gets on its way: no channel beyond  *)
(* one, other than root, that was there.                                   *)
LEMMA FallbackOnRoot ==
  ASSUME Rooted, NEW n \in Seq(Label), n \notin Known, Nearest(n) = Root,
         NEW p \in Prefixes(n), p \notin Known, NEW k \in Known, k # Root
  PROVE  ~ IsPrefix(k, p)
<1> SUFFICES ASSUME IsPrefix(k, p)
             PROVE  FALSE
  OBVIOUS
<1>1. /\ n # Root /\ p \in Seq(Label) /\ IsPrefix(p, n) /\ k \in Seq(Label)
      /\ Len(k) \in Nat /\ Len(p) \in Nat /\ Len(n) \in Nat
  BY PrefixesArePrefixes, LenProperties DEF Rooted
<1>2. IsPrefix(k, n)
  BY <1>1, PrefixTransitive
<1>3. IsStrictPrefix(k, n) /\ Len(Root) = 0 /\ Len(k) # 0
  BY <1>1, <1>2, EmptySeq DEF IsStrictPrefix, Root
<1> QED
  BY <1>1, <1>3, NearestIsLongest

(* A name resolves to a sequence of labels.                                *)
LEMMA ResolvedType ==
  ASSUME Rooted, NEW n \in Seq(Label)
  PROVE  /\ Resolved(n) \in Seq(Label)
         /\ Resolved(n) \in Prefixes(Resolved(n))
<1>1. CASE n \in Known
  BY <1>1, PrefixesArePrefixes, PrefixPointwise, LenProperties DEF Resolved
<1>2. CASE n \notin Known
  <2>1. n # Root /\ Nearest(n) \in Seq(Label)
    BY <1>2, NearestIsLongest DEF Rooted
  <2>2. Resolved(n) = Nearest(n) \o n
    BY <1>2 DEF Resolved
  <2> DEFINE r == Resolved(n)
  <2>3. r \in Seq(Label)
    BY <2>1, <2>2, ConcatPointwise
  <2> HIDE DEF r
  <2>4. r \in Prefixes(r)
    BY <2>3, PrefixesArePrefixes, PrefixPointwise, LenProperties
  <2> QED
    BY <2>3, <2>4 DEF r
<1> QED
  BY <1>1, <1>2

(* A resolved name adds no prefix to a plain name that is settled.         *)
LEMMA NothingAdded ==
  ASSUME Rooted, NEW n \in Seq(Label), NEW m \in Seq(Label), Plain(m), Settled(m),
         NEW p \in Prefixes(Resolved(n)), IsPrefix(p, m)
  PROVE  p \in Known
<1> SUFFICES ASSUME p \notin Known
             PROVE  FALSE
  OBVIOUS
<1>1. n \notin Known /\ n # Root
  BY DEF Rooted, Resolved
<1>2. Resolved(n) = Nearest(n) \o n
  BY <1>1 DEF Resolved
<1>3. Nearest(n) = Root
  <2> SUFFICES ASSUME Nearest(n) # Root
               PROVE  p \in Known
    OBVIOUS
  <2>1. IsPrefix(p, Nearest(n)) /\ Nearest(n) \in Known
    BY <1>1, <1>2, FallbackRepeats, NearestIsLongest
  <2>2. p \in Seq(Label)
    BY <1>1, ResolvedType, PrefixesArePrefixes
  <2> QED
    BY <2>1, <2>2, PrefixesArePrefixes DEF Rooted
<1>4. p \in Prefixes(n) /\ p \in Seq(Label)
  BY <1>2, <1>3, ConcatEmptySeq, PrefixesArePrefixes DEF Root
<1>5. m \notin Known
  BY <1>4, PrefixesArePrefixes DEF Rooted
<1> DEFINE k == Nearest(m)
<1>6. /\ k # Root /\ k \in Known /\ k \in Seq(Label) /\ IsPrefix(k, m)
      /\ Len(k) \in Nat /\ Len(p) \in Nat /\ Len(m) \in Nat
  BY <1>4, <1>5, NearestIsLongest, LenProperties DEF Rooted, Settled, IsStrictPrefix
<1>7. Len(p) > Len(k)
  <2> SUFFICES ASSUME Len(p) <= Len(k)
               PROVE  IsPrefix(p, k)
    BY <1>4, <1>6, PrefixesArePrefixes DEF Rooted
  <2> QED
    BY <1>4, <1>6, PrefixPointwise
<1>8. IsPrefix(k, p)
  BY <1>4, <1>6, <1>7, PrefixPointwise
<1> QED
  BY <1>1, <1>3, <1>4, <1>6, <1>8, FallbackOnRoot

-----------------------------------------------------------------------------
(* The steps.                                                               *)

(* The channels of the configuration with their ancestors make a tree.     *)
LEMMA ConfiguredRooted ==
  ASSUME NEW given, DOMAIN given \subseteq Name
  PROVE  /\ DOMAIN Configured(given) \subseteq Seq(Label)
         /\ Root \in DOMAIN Configured(given)
         /\ \A n \in DOMAIN Configured(given) : Prefixes(n) \subseteq DOMAIN Configured(given)
         /\ \A n \in DOMAIN given : /\ n \in DOMAIN Configured(given)
                                   /\ Configured(given)[n] = given[n]
<1> DEFINE names == {Root} \cup UNION {Prefixes(m) : m \in DOMAIN given}
<1>1. DOMAIN Configured(given) = names
  BY DEF Configured
<1>2. DOMAIN given \subseteq Seq(Label) /\ Root \in Seq(Label)
  BY NameAssumption
<1>3. \A m \in DOMAIN given : m \in Prefixes(m) /\ Prefixes(m) \subseteq Seq(Label)
  BY <1>2, PrefixesArePrefixes, PrefixPointwise, LenProperties
<1>4. ASSUME NEW n \in names
      PROVE  Prefixes(n) \subseteq names
  <2>1. CASE n = Root
    <3>1. \A p \in Prefixes(Root) : p \in Seq(Label) /\ Len(p) <= 0
      BY <1>2, PrefixesArePrefixes, PrefixPointwise, EmptySeq DEF Root
    <3>2. \A p \in Prefixes(Root) : p = Root
      BY <3>1, EmptySeq DEF Root
    <3> QED
      BY <2>1, <3>2
  <2>2. ASSUME NEW m \in DOMAIN given, n \in Prefixes(m)
        PROVE  Prefixes(n) \subseteq Prefixes(m)
    <3>1. m \in Seq(Label) /\ n \in Seq(Label) /\ IsPrefix(n, m)
      BY <1>2, <2>2, PrefixesArePrefixes
    <3> QED
      BY <3>1, PrefixesArePrefixes, PrefixTransitive
  <2> QED
    BY <2>1, <2>2
<1>5. \A n \in DOMAIN given : n \in names /\ Configured(given)[n] = given[n]
  BY <1>3 DEF Configured
<1> QED
  BY <1>1, <1>2, <1>3, <1>4, <1>5

(* The runner knows the channels of its configuration, and no job.         *)
Started ==
  /\ DOMAIN config \subseteq Name
  /\ capacity = Configured(config)
  /\ named = Forgotten /\ placed = Forgotten

(* The invariant holds when the runner starts, and starts again.           *)
LEMMA StartInv == Started => Inv
<1> SUFFICES ASSUME Started
             PROVE  Inv
  OBVIOUS
<1>1. Rooted /\ ConfigKept
  BY ConfiguredRooted DEF Started, Rooted, ConfigKept, Known
<1>2. TypeOK /\ \A j \in Job : named[j] = NoName
  BY DEF Started, TypeOK, Forgotten
<1> QED
  BY <1>1, <1>2 DEF Inv

LEMMA InitInv == Init => Inv
<1> SUFFICES ASSUME Init
             PROVE  Inv
  OBVIOUS
<1>1. DOMAIN config \subseteq Name
  BY ConfigurationAssumption DEF Init
<1> QED
  BY <1>1, StartInv DEF Init, Started

(* Where a notified name resolves, and what that adds to the channels.     *)
LEMMA NotifyKnown ==
  ASSUME Inv, NEW i \in Job, NEW n \in Name, Notify(i, n)
  PROVE  /\ Known' = Known \cup Prefixes(Resolved(n))
         /\ Rooted' /\ ConfigKept'
<1>1. n \in Seq(Label)
  BY NameAssumption
<1> DEFINE r == Resolved(n)
<1>2. r \in Seq(Label) /\ capacity' = WithPath(r)
  BY <1>1, ResolvedType DEF Inv, Notify
<1>3. Known' = Known \cup Prefixes(r) /\ \A m \in Known : m \in Known' /\ capacity'[m] = capacity[m]
  BY <1>2 DEF WithPath, Known
<1> HIDE DEF r
<1>4. ConfigKept'
  BY <1>3 DEF Inv, ConfigKept, Notify
<1>5. Prefixes(r) \subseteq Seq(Label) /\ \A m \in Prefixes(r) : Prefixes(m) \subseteq Prefixes(r)
  BY <1>2, PrefixesArePrefixes, PrefixTransitive
<1>6. Rooted'
  BY <1>3, <1>5 DEF Inv, Rooted
<1> QED
  BY <1>3, <1>4, <1>6 DEF r

(* No notification changes where a plain name that is settled resolves.    *)
LEMMA NotifyStable ==
  ASSUME Inv, NEW i \in Job, NEW n \in Name, Notify(i, n),
         NEW m \in Seq(Label), Plain(m), Settled(m)
  PROVE  /\ Resolved(m)' = Resolved(m)
         /\ Settled(m)'
<1>1. n \in Seq(Label) /\ Rooted
  BY NameAssumption DEF Inv
<1>2. Known' = Known \cup Prefixes(Resolved(n))
  BY NotifyKnown
<1>3. ASSUME NEW p \in Known', IsPrefix(p, m)
      PROVE  p \in Known
  BY <1>1, <1>2, <1>3, NothingAdded
<1>4. {p \in Known' : IsStrictPrefix(p, m)} = {p \in Known : IsStrictPrefix(p, m)}
  BY <1>2, <1>3 DEF IsStrictPrefix
<1>5. Nearest(m)' = Nearest(m)
  BY <1>4 DEF Nearest
<1>6. IsPrefix(m, m)
  BY PrefixPointwise, LenProperties
<1>7. m \in Known' <=> m \in Known
  BY <1>2, <1>3, <1>6
<1> QED
  BY <1>5, <1>7 DEF Resolved, Settled

(* Once it has been resolved, a plain name is settled, and resolves where  *)
(* it did.                                                                 *)
LEMMA NotifySettles ==
  ASSUME Inv, NEW i \in Job, NEW n \in Name, Notify(i, n), Plain(n)
  PROVE  Resolved(n)' = Resolved(n) /\ Settled(n)'
<1>1. n \in Seq(Label) /\ Rooted
  BY NameAssumption DEF Inv
<1>2. CASE Settled(n)
  BY <1>1, <1>2, NotifyStable
<1>3. CASE ~ Settled(n)
  <2>1. Resolved(n) = n
    BY <1>1, <1>3, ConcatEmptySeq DEF Settled, Resolved, Root
  <2>2. n \in Known'
    BY <1>1, <2>1, NotifyKnown, ResolvedType
  <2> QED
    BY <2>1, <2>2 DEF Resolved, Settled
<1> QED
  BY <1>2, <1>3

(* A notification keeps the invariant.                                     *)
LEMMA NotifyInv ==
  ASSUME Inv, NEW i \in Job, NEW n \in Name, Notify(i, n)
  PROVE  Inv'
<1>1. n \in Seq(Label) /\ n # NoName /\ Resolved(n) \in Seq(Label)
  BY NameAssumption, ResolvedType DEF Inv
<1>2. TypeOK'
  BY <1>1 DEF Inv, TypeOK, Notify
<1>3. ASSUME NEW j \in Job, named'[j] # NoName, Plain(named[j])'
      PROVE  (placed[j] = Resolved(named[j]) /\ Settled(named[j]))'
  <2>1. PICK m \in Seq(Label) : m = named'[j]
    BY <1>1, <1>2, <1>3, NameAssumption DEF TypeOK
  <2>2. Plain(m)
    BY <1>3, <2>1 DEF Plain
  <2>3. placed'[j] = Resolved(m)' /\ Settled(m)'
    <3>1. CASE j = i
      <4>1. m = n /\ placed'[j] = Resolved(n)
        BY <2>1, <3>1 DEF Inv, TypeOK, Notify
      <4>2. Resolved(m)' = Resolved(m) /\ Settled(m)'
        BY <2>2, <4>1, NotifySettles
      <4> QED
        BY <4>1, <4>2
    <3>2. CASE j # i
      <4>1. m = named[j] /\ placed'[j] = placed[j]
        BY <2>1, <3>2 DEF Inv, TypeOK, Notify
      <4>2. placed[j] = Resolved(m) /\ Settled(m)
        BY <1>3, <2>1, <2>2, <4>1 DEF Inv
      <4>3. Resolved(m)' = Resolved(m) /\ Settled(m)'
        BY <2>2, <4>2, NotifyStable
      <4> QED
        BY <4>1, <4>2, <4>3
    <3> QED
      BY <3>1, <3>2
  <2> QED
    BY <2>1, <2>3 DEF Resolved, Settled, Nearest
<1> QED
  BY <1>2, <1>3, NotifyKnown DEF Inv

(* Every step keeps the invariant.                                         *)
LEMMA StepInv == Inv /\ [Next]_vars => Inv'
<1> SUFFICES ASSUME Inv, [Next]_vars
             PROVE  Inv'
  OBVIOUS
<1>1. ASSUME NEW j \in Job, NEW n \in Name, Notify(j, n)
      PROVE  Inv'
  BY <1>1, NotifyInv
<1>2. ASSUME UNCHANGED <<capacity, config>>,
             named' \in [Job -> Name \cup {NoName}],
             placed' \in [Job -> Seq(Label) \cup {NoName}],
             \A j \in Job : named'[j] # NoName => named'[j] = named[j] /\ placed'[j] = placed[j]
      PROVE  Inv'
  <2>1. TypeOK' /\ Rooted' /\ ConfigKept'
    BY <1>2 DEF Inv, TypeOK, Rooted, ConfigKept, Known
  <2>2. ASSUME NEW j \in Job, named'[j] # NoName, Plain(named[j])'
        PROVE  (placed[j] = Resolved(named[j]) /\ Settled(named[j]))'
    <3>1. placed[j] = Resolved(named[j]) /\ Settled(named[j])
      BY <1>2, <2>2 DEF Inv, Plain
    <3> QED
      BY <1>2, <2>2, <3>1 DEF Resolved, Settled, Nearest, Known
  <2> QED
    BY <2>1, <2>2 DEF Inv
<1>3. ASSUME NEW j \in Job, RemoveJob(j)
      PROVE  Inv'
  <2>1. /\ named' \in [Job -> Name \cup {NoName}]
        /\ placed' \in [Job -> Seq(Label) \cup {NoName}]
        /\ \A i \in Job : named'[i] # NoName => named'[i] = named[i] /\ placed'[i] = placed[i]
    BY <1>3 DEF RemoveJob, Inv, TypeOK
  <2> QED
    BY <1>2, <1>3, <2>1 DEF RemoveJob
<1>4. CASE RemoveDb
  BY <1>2, <1>4 DEF RemoveDb, Forgotten
<1>5. CASE Restart
  <2>1. Started'
    BY <1>5 DEF Restart, Inv, TypeOK, Started, Forgotten, Configured
  <2>2. Started' => Inv'
    BY StartInv, PTL
  <2> QED
    BY <2>1, <2>2
<1>6. CASE UNCHANGED vars
  BY <1>2, <1>6 DEF vars, Inv, TypeOK
<1> QED
  BY <1>1, <1>3, <1>4, <1>5, <1>6 DEF Next

(* The inductive invariant is an invariant.                                *)
LEMMA Invariant == Spec => []Inv
BY InitInv, StepInv, PTL DEF Spec

-----------------------------------------------------------------------------
(* Theorems.                                                                *)

(* Whatever names the runner resolves, a job that it is notified of again  *)
(* under the same name stays in its channel (get_channel_by_name, notify). *)
THEOREM ChannelKept == Spec => []StaysInItsChannel
<1>1. Inv => StaysInItsChannel
  <2> SUFFICES ASSUME Inv, NEW j \in PlainJobs
               PROVE  placed[j] = Resolved(named[j])
    BY DEF StaysInItsChannel
  <2> QED
    BY DEF PlainJobs, Inv
<1> QED
  BY <1>1, Invariant, PTL

(* The configured channels a job counts for are those that its name is in, *)
(* and they have the capacities of the configuration, whatever names the   *)
(* runner resolves (get_channel_by_name, get_channel_from_config).         *)
THEOREM LimitsKept == Spec => []LimitsOfItsName
<1>1. Inv => LimitsOfItsName
  <2> SUFFICES ASSUME Inv, NEW j \in PlainJobs
               PROVE  DOMAIN config \cap Prefixes(placed[j])
                        = DOMAIN config \cap Prefixes(named[j])
    BY DEF LimitsOfItsName, Inv, ConfigKept
  <2> DEFINE n == named[j]
             k == Nearest(n)
  <2>1. /\ n \in Seq(Label) /\ placed[j] = Resolved(n) /\ Settled(n) /\ Rooted
        /\ DOMAIN config \subseteq Known /\ \A c \in DOMAIN config : Plain(c)
    BY NameAssumption DEF PlainJobs, Inv, TypeOK, ConfigKept
  <2>2. CASE n \in Known
    BY <2>1, <2>2 DEF Resolved
  <2>3. CASE n \notin Known
    <3>1. /\ n # Root /\ k # Root /\ k \in Known /\ IsStrictPrefix(k, n)
          /\ \A c \in Known : IsStrictPrefix(c, n) => Len(c) <= Len(k)
      BY <2>1, <2>3, NearestIsLongest DEF Settled, Rooted
    <3>2. placed[j] = k \o n
      BY <2>1, <2>3 DEF Resolved
    <3> HIDE DEF n, k
    <3> DEFINE both == k \o n
    <3>3. /\ k \in Seq(Label) /\ IsPrefix(k, n) /\ both \in Seq(Label)
          /\ Len(both) = Len(k) + Len(n) /\ \A i \in 1..Len(k) : both[i] = k[i]
          /\ Len(k) \in Nat /\ Len(n) \in Nat
      BY <2>1, <3>1, ConcatPointwise, LenProperties DEF Rooted, IsStrictPrefix
    <3> HIDE DEF both
    <3>4. /\ DOMAIN config \subseteq Known /\ \A c \in Known : c \in Seq(Label)
          /\ \A c \in DOMAIN config : Plain(c) /\ IsPrefix(c, c)
      BY <2>1, PrefixPointwise, LenProperties DEF Rooted
    <3>5. IsPrefix(k, both)
      BY <3>3, PrefixPointwise
    <3>6. ASSUME NEW c \in DOMAIN config, c \in Prefixes(both)
          PROVE  IsPrefix(c, n)
      <4>1. both = Nearest(n) \o n /\ k = Nearest(n)
        BY DEF both, k
      <4>2. IsPrefix(c, k)
        BY <2>1, <3>1, <3>4, <3>6, <4>1, FallbackRepeats
      <4> QED
        BY <2>1, <3>3, <3>4, <4>2, PrefixTransitive
    <3>7. ASSUME NEW c \in DOMAIN config, IsPrefix(c, n)
          PROVE  IsPrefix(c, both)
      <4>1. c \in Seq(Label) /\ Len(c) <= Len(k)
        BY <2>3, <3>1, <3>4, <3>7 DEF IsStrictPrefix
      <4>2. /\ Len(c) \in Nat /\ \A i \in 1..Len(c) : c[i] = n[i]
            /\ \A i \in 1..Len(k) : k[i] = n[i]
        BY <2>1, <3>3, <3>7, <4>1, PrefixPointwise, LenProperties
      <4>3. \A i \in 1..Len(c) : c[i] = k[i]
        BY <3>3, <4>1, <4>2
      <4>4. IsPrefix(c, k)
        BY <3>3, <4>1, <4>3, PrefixPointwise
      <4> QED
        BY <3>3, <3>5, <4>1, <4>4, PrefixTransitive
    <3> QED
      BY <2>1, <3>2, <3>3, <3>4, <3>6, <3>7, PrefixesArePrefixes DEF both, n
  <2> QED
    BY <2>2, <2>3
<1> QED
  BY <1>1, Invariant, PTL

=============================================================================
