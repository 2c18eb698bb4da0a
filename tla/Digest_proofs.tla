---------------------------- MODULE Digest_proofs ----------------------------
(***************************************************************************)
(* What a digest promises to its readers, for any catalogue, any caps and  *)
(* any overlap of a killed run's publish with the run after it.            *)
(***************************************************************************)
EXTENDS Digest, FiniteSetTheorems, FunctionTheorems, TLAPS

Rows == [section : Sections, position : Nat, topic : Topics] \cup {Unstaged}

\* The types the proofs use.  The clock and the counters of a run's calls do not
\* matter.
TypeInv ==
  /\ reads \in [Runs -> SUBSET Items]
  /\ staged \in [Runs -> [Items -> Rows]]

SameSource(r, i) == {j \in StagedBy(r) : SourceOf[j] = SourceOf[i]}
SameTopic(r, i) == {j \in StagedBy(r) : staged[r][j].topic = staged[r][i].topic}

\* What select keeps of the staged set: only what was read, within the caps.
WithinCaps(r) ==
  /\ StagedBy(r) \subseteq reads[r]
  /\ \A i \in StagedBy(r) : /\ Cardinality(SameSource(r, i)) <= PerSource
                            /\ Cardinality(SameTopic(r, i)) <= PerTopic

\* What a call that passed its checks still knows when it inserts: its run has no
\* digest and its sections are full, and the digests it saw share nothing with
\* what is staged.  A server has one such call at most.
PublishedRuns == {d.run : d \in digests}

PassedInv ==
  /\ \A c \in passed :
       /\ c.run \in Runs \ PublishedRuns
       /\ c.seen \subseteq PublishedRuns
       /\ Full(c.run)
       /\ \A d \in digests :
            d.run \in c.seen /\ d.at + ShownDays >= c.at
              => ItemsOf(d) \cap StagedBy(c.run) = {}
  /\ \A b, c \in passed : b.run = c.run => b = c

DigestsInv ==
  /\ \A d \in digests : d.seen \subseteq PublishedRuns
  /\ NothingShownTwice
  /\ PositionsAreRanks
  /\ OneDigestPerRun

IInv ==
  /\ TypeInv
  /\ \A r \in Runs : WithinCaps(r)
  /\ PassedInv
  /\ DigestsInv

-----------------------------------------------------------------------------
(* Sets of items *)

\* Sets of items are finite, and their sizes are numbers.
LEMMA ItemSets ==
  ASSUME NEW S \in SUBSET Items
  PROVE  IsFiniteSet(S) /\ Cardinality(S) \in Nat
  BY CatalogAssumption, FS_Subset, FS_CardinalityType

LEMMA SmallerItemSet ==
  ASSUME NEW S \in SUBSET Items, NEW T \in SUBSET S
  PROVE  Cardinality(T) <= Cardinality(S)
  BY ItemSets, FS_Subset

LEMMA StillBelow ==
  ASSUME NEW S \in SUBSET Items, NEW T \in SUBSET S, NEW n \in Nat, Cardinality(S) <= n
  PROVE  Cardinality(T) <= n
<1>1. T \in SUBSET Items /\ Cardinality(S) \in Nat /\ Cardinality(T) \in Nat
  BY ItemSets
<1>2. Cardinality(T) <= Cardinality(S)
  BY SmallerItemSet
<1> QED
  BY <1>1, <1>2

\* A set that was below its cap without i reaches it at most with i.
LEMMA OneMore ==
  ASSUME NEW S \in SUBSET Items, NEW i \in Items, NEW n \in Nat, Cardinality(S) < n,
         NEW T \in SUBSET (S \cup {i})
  PROVE  Cardinality(T) <= n
<1>1. IsFiniteSet(S) /\ Cardinality(S) \in Nat /\ S \cup {i} \in SUBSET Items
  BY ItemSets
<1>2. Cardinality(S \cup {i}) <= Cardinality(S) + 1
  <2>1. Cardinality(S \cup {i}) = IF i \in S THEN Cardinality(S) ELSE Cardinality(S) + 1
    BY <1>1, FS_AddElement
  <2> QED
    BY <1>1, <2>1
<1>3. Cardinality(T) <= Cardinality(S \cup {i})
  BY <1>1, SmallerItemSet
<1>4. Cardinality(T) \in Nat /\ Cardinality(S \cup {i}) \in Nat
  BY <1>1, ItemSets
<1> QED
  BY <1>1, <1>2, <1>3, <1>4

\* Whatever is in a section is staged.
LEMMA SectionsAreStaged ==
  ASSUME NEW r \in Runs, NEW s \in Sections
  PROVE  InSection(r, s) \subseteq StagedBy(r) /\ InSection(r, s) \in SUBSET Items
  BY DEF Sections, Quota, InSection, StagedBy, Unstaged

-----------------------------------------------------------------------------
(* Ranks *)

Before(r, s, i) == {j \in InSection(r, s) : Precedes(r, j, i)}

\* Positions and then ids order a section: nothing comes before itself, of two
\* items one comes before the other, and so does whatever comes before that.
LEMMA PrecedesOrders ==
  ASSUME TypeInv, NEW r \in Runs, NEW s \in Sections
  PROVE  /\ \A i \in InSection(r, s) : ~Precedes(r, i, i)
         /\ \A i, j \in InSection(r, s) : i # j => Precedes(r, i, j) \/ Precedes(r, j, i)
         /\ \A i, j, k \in InSection(r, s) :
              Precedes(r, i, j) /\ Precedes(r, j, k) => Precedes(r, i, k)
<1>1. ASSUME NEW i \in InSection(r, s)
      PROVE  i \in Nat /\ staged[r][i].position \in Nat
  <2>1. i \in Items /\ i \in Nat
    BY CatalogAssumption DEF InSection
  <2>2. staged[r][i] \in Rows
    BY <2>1 DEF TypeInv
  <2> QED
    BY <2>1, <2>2 DEF Rows, Unstaged
<1> QED
  BY <1>1 DEF Precedes

\* The ranks of a section of n items are 1 to n, each once.
LEMMA RanksFill ==
  ASSUME TypeInv, NEW r \in Runs, NEW s \in Sections
  PROVE  {Rank(r, i) : i \in InSection(r, s)} = 1..Cardinality(InSection(r, s))
<1> DEFINE S == InSection(r, s)
           n == Cardinality(S)
           f == [i \in S |-> Rank(r, i)]
<1>1. S \in SUBSET Items /\ IsFiniteSet(S) /\ n \in Nat
  BY SectionsAreStaged, ItemSets
<1>2. ASSUME NEW i \in S
      PROVE  /\ Rank(r, i) = 1 + Cardinality(Before(r, s, i))
             /\ Before(r, s, i) \in SUBSET (S \ {i})
             /\ Cardinality(Before(r, s, i)) \in Nat
             /\ Rank(r, i) \in 1..n
  <2>1. staged[r][i].section = s
    BY DEF InSection
  <2>2. Rank(r, i) = 1 + Cardinality(Before(r, s, i))
    BY <2>1 DEF Rank, Before
  <2>3. Before(r, s, i) \in SUBSET (S \ {i})
    BY PrecedesOrders DEF Before
  <2>4. Cardinality(S \ {i}) = n - 1 /\ S \ {i} \in SUBSET Items
    BY <1>1, FS_RemoveElement
  <2>5. Cardinality(Before(r, s, i)) <= n - 1 /\ Cardinality(Before(r, s, i)) \in Nat
    BY <2>3, <2>4, SmallerItemSet, ItemSets
  <2> QED
    BY <1>1, <2>2, <2>3, <2>5
<1>3. ASSUME NEW i \in S, NEW j \in S, Precedes(r, i, j)
      PROVE  Rank(r, i) < Rank(r, j)
  <2>1. Before(r, s, i) \cup {i} \in SUBSET Before(r, s, j)
    BY <1>3, PrecedesOrders DEF Before
  <2>2. Before(r, s, i) \in SUBSET Items /\ Before(r, s, j) \in SUBSET Items
    BY <1>1, <1>2
  <2>3. i \notin Before(r, s, i)
    BY <1>2
  <2>4. Cardinality(Before(r, s, i) \cup {i}) = Cardinality(Before(r, s, i)) + 1
    BY <2>2, <2>3, ItemSets, FS_AddElement
  <2>5. Cardinality(Before(r, s, i) \cup {i}) <= Cardinality(Before(r, s, j))
    BY <2>1, <2>2, SmallerItemSet
  <2> QED
    BY <1>2, <2>4, <2>5
<1>4. f \in [S -> 1..n]
  BY <1>2
<1>5. \A i, j \in S : f[i] = f[j] => i = j
  <2> SUFFICES ASSUME NEW i \in S, NEW j \in S, i # j, Rank(r, i) = Rank(r, j)
               PROVE  FALSE
    OBVIOUS
  <2>1. Rank(r, i) \in Nat /\ Rank(r, j) \in Nat
    BY <1>2
  <2>2. Precedes(r, i, j) \/ Precedes(r, j, i)
    BY PrecedesOrders
  <2> QED
    BY <1>3, <2>1, <2>2
<1>6. IsFiniteSet(1..n) /\ Cardinality(1..n) = n
  BY <1>1, FS_Interval
<1> HIDE DEF f, n
<1>7. f \in Injection(S, 1..n)
  BY <1>4, <1>5, Fun_IsInj
<1>8. f \in Surjection(S, 1..n)
  BY <1>6, <1>7, FS_Injection DEF n
<1>9. \A k \in 1..n : \E i \in S : f[i] = k
  BY <1>8 DEF Surjection
<1> QED
  BY <1>2, <1>9 DEF f, n

-----------------------------------------------------------------------------
(* The inductive invariant *)

LEMMA InitIInv == Init => IInv
<1> SUFFICES ASSUME Init PROVE IInv
  OBVIOUS
<1>1. TypeInv
  BY DEF Init, TypeInv, Rows
<1>2. \A r \in Runs : WithinCaps(r)
  <2>1. \A r \in Runs : StagedBy(r) = {}
    BY DEF Init, StagedBy
  <2> QED
    BY <2>1 DEF WithinCaps
<1> QED
  BY <1>1, <1>2 DEF IInv, Init, PassedInv, DigestsInv, NothingShownTwice,
                    PositionsAreRanks, OneDigestPerRun

\* A step that publishes nothing leaves what is said of the digests alone.
LEMMA DigestsStay ==
  ASSUME IInv, digests' = digests
  PROVE  DigestsInv'
BY DEF IInv, DigestsInv, PublishedRuns, NothingShownTwice, PositionsAreRanks,
       OneDigestPerRun, ItemsOf

\* A call that has passed its checks holds the connection: what its run has staged
\* stays.
LEMMA PassedStays ==
  ASSUME IInv, digests' = digests, passed' \subseteq passed,
         \A r \in Runs : Busy(r) => staged'[r] = staged[r]
  PROVE  PassedInv'
<1>1. ASSUME NEW c \in passed
      PROVE  /\ StagedBy(c.run)' = StagedBy(c.run)
             /\ \A s : InSection(c.run, s)' = InSection(c.run, s)
  <2>1. c.run \in Runs /\ Busy(c.run)
    BY <1>1 DEF IInv, PassedInv, Busy
  <2> QED
    BY <2>1 DEF StagedBy, InSection
<1>2. PublishedRuns' = PublishedRuns
  BY DEF PublishedRuns
<1>3. \A d : ItemsOf(d)' = ItemsOf(d)
  BY DEF ItemsOf
<1> QED
  BY <1>1, <1>2, <1>3 DEF IInv, PassedInv, Full

\* A run whose rows stay is within its caps if it has still read what it stages.
LEMMA CapsStay ==
  ASSUME IInv, NEW r \in Runs, staged'[r] = staged[r], reads[r] \subseteq reads'[r]
  PROVE  WithinCaps(r)'
BY DEF IInv, WithinCaps, SameSource, SameTopic, StagedBy

LEMMA CapsEmpty ==
  ASSUME NEW r \in Runs, staged'[r] = [i \in Items |-> Unstaged]
  PROVE  WithinCaps(r)'
<1>1. StagedBy(r)' = {}
  BY DEF StagedBy
<1> QED
  BY <1>1 DEF WithinCaps

LEMMA ReadItemIInv ==
  ASSUME IInv, NEW r \in Runs, NEW i \in Offered[r], ReadItem(r, i)
  PROVE  IInv'
<1>1. i \in Items
  BY CatalogAssumption
<1>2. reads' \in [Runs -> SUBSET Items] /\ \A q \in Runs : reads[q] \subseteq reads'[q]
  BY <1>1 DEF ReadItem, IInv, TypeInv
<1>3. \A q \in Runs : WithinCaps(q)'
  BY <1>2, CapsStay DEF ReadItem
<1>4. PassedInv' /\ DigestsInv'
  BY PassedStays, DigestsStay DEF ReadItem
<1> QED
  BY <1>2, <1>3, <1>4 DEF ReadItem, IInv, TypeInv

LEMMA UnstageIInv ==
  ASSUME IInv, NEW r \in Runs, NEW i \in Offered[r], Unstage(r, i)
  PROVE  IInv'
<1>1. i \in Items
  BY CatalogAssumption
<1>2. /\ staged' \in [Runs -> [Items -> Rows]]
      /\ \A q \in Runs \ {r} : staged'[q] = staged[q]
      /\ staged'[r][i] = Unstaged
      /\ \A j \in Items \ {i} : staged'[r][j] = staged[r][j]
  BY <1>1 DEF Unstage, IInv, TypeInv, Rows
<1>3. ASSUME NEW q \in Runs PROVE WithinCaps(q)'
  <2>1. CASE q # r
    BY <2>1, <1>2, CapsStay DEF Unstage
  <2>2. CASE q = r
    <3>1. StagedBy(r)' = StagedBy(r) \ {i}
      BY <1>1, <1>2 DEF StagedBy
    <3>2. StagedBy(r) \in SUBSET Items /\ StagedBy(r)' \in SUBSET Items
      BY <3>1 DEF StagedBy
    <3>3. ASSUME NEW k \in StagedBy(r)'
          PROVE  /\ Cardinality(SameSource(r, k)') <= PerSource
                 /\ Cardinality(SameTopic(r, k)') <= PerTopic
      <4>1. SameSource(r, k)' \in SUBSET SameSource(r, k) /\ SameSource(r, k) \in SUBSET Items
        BY <3>1, <3>2 DEF SameSource
      <4>2. SameTopic(r, k)' \in SUBSET SameTopic(r, k) /\ SameTopic(r, k) \in SUBSET Items
        BY <1>2, <3>1, <3>2, <3>3 DEF SameTopic
      <4>3. Cardinality(SameSource(r, k)) <= PerSource /\ Cardinality(SameTopic(r, k)) <= PerTopic
        BY <3>1, <3>3 DEF IInv, WithinCaps
      <4> QED
        BY <4>1, <4>2, <4>3, StillBelow, CapsAssumption
    <3> QED
      BY <2>2, <3>1, <3>3 DEF IInv, WithinCaps, Unstage
  <2> QED
    BY <2>1, <2>2
<1>4. PassedInv' /\ DigestsInv'
  BY <1>2, PassedStays, DigestsStay DEF Unstage
<1> QED
  BY <1>2, <1>3, <1>4 DEF Unstage, IInv, TypeInv

\* select lets an item in only where its source and its topic have room.
LEMMA SelectIInv ==
  ASSUME IInv, NEW r \in Runs, NEW i \in Offered[r], NEW s \in Sections,
         NEW t \in TopicsOf[i], Select(r, i, s, t)
  PROVE  IInv'
<1> DEFINE new == [section |-> s, position |-> Position(r, i, s), topic |-> t]
<1>1. i \in Items /\ t \in Topics
  BY CatalogAssumption DEF Topics
<1>2. new \in Rows /\ new # Unstaged
  <2>1. Cardinality(InSection(r, s)) \in Nat
    BY SectionsAreStaged, ItemSets
  <2>2. staged[r][i] \in Rows
    BY <1>1 DEF IInv, TypeInv
  <2>3. Position(r, i, s) \in Nat
    BY <2>1, <2>2 DEF Position, Rows, Unstaged
  <2>4. s # "none"
    BY DEF Sections, Quota
  <2> QED
    BY <1>1, <2>3, <2>4 DEF Rows, Unstaged
<1> HIDE DEF new
<1>3. /\ staged' \in [Runs -> [Items -> Rows]]
      /\ \A q \in Runs \ {r} : staged'[q] = staged[q]
      /\ staged'[r][i] = new
      /\ \A j \in Items \ {i} : staged'[r][j] = staged[r][j]
  <2>1. staged' = [staged EXCEPT ![r][i] = new]
    BY DEF Select, new
  <2> QED
    BY <1>1, <1>2, <2>1 DEF IInv, TypeInv
<1>4. ASSUME NEW q \in Runs PROVE WithinCaps(q)'
  <2>1. CASE q # r
    BY <2>1, <1>3, CapsStay DEF Select
  <2>2. CASE q = r
    <3>1. StagedBy(r)' = StagedBy(r) \cup {i}
      BY <1>1, <1>2, <1>3 DEF StagedBy
    <3>2. StagedBy(r) \in SUBSET Items /\ StagedBy(r)' \in SUBSET Items
      BY <1>1, <3>1 DEF StagedBy
    <3>3. StagedBy(r)' \subseteq reads'[r]
      BY <3>1 DEF Select, IInv, WithinCaps
    <3>4. ASSUME NEW k \in StagedBy(r)'
          PROVE  Cardinality(SameSource(r, k)') <= PerSource
      <4>1. CASE SourceOf[k] = SourceOf[i]
        <5> DEFINE S == {j \in Others(r, i) : SourceOf[j] = SourceOf[i]}
        <5>1. Cardinality(S) < PerSource
          BY DEF Select, Room
        <5>2. S \in SUBSET Items /\ SameSource(r, k)' \in SUBSET (S \cup {i})
          BY <3>1, <3>2, <4>1 DEF SameSource, Others
        <5> QED
          BY <1>1, <5>1, <5>2, OneMore, CapsAssumption
      <4>2. CASE SourceOf[k] # SourceOf[i]
        <5>1. k \in StagedBy(r)
          BY <3>1, <3>4, <4>2
        <5>2. SameSource(r, k)' \in SUBSET SameSource(r, k) /\ SameSource(r, k) \in SUBSET Items
          BY <3>1, <3>2, <4>2 DEF SameSource
        <5>3. Cardinality(SameSource(r, k)) <= PerSource
          BY <5>1 DEF IInv, WithinCaps
        <5> QED
          BY <5>2, <5>3, StillBelow, CapsAssumption
      <4> QED
        BY <4>1, <4>2
    <3>5. ASSUME NEW k \in StagedBy(r)'
          PROVE  Cardinality(SameTopic(r, k)') <= PerTopic
      <4>0. new.topic = t
        BY DEF new
      <4>1. CASE staged'[r][k].topic = t
        <5> DEFINE S == {j \in Others(r, i) : staged[r][j].topic = t}
        <5>1. Cardinality(S) < PerTopic
          BY DEF Select, Room
        <5>2. S \in SUBSET Items /\ SameTopic(r, k)' \in SUBSET (S \cup {i})
          BY <1>3, <3>1, <3>2, <4>1 DEF SameTopic, Others
        <5> QED
          BY <1>1, <5>1, <5>2, OneMore, CapsAssumption
      <4>2. CASE staged'[r][k].topic # t
        <5>1. k # i /\ k \in StagedBy(r) /\ staged'[r][k] = staged[r][k]
          BY <1>3, <3>1, <3>2, <3>5, <4>0, <4>2
        <5>2. SameTopic(r, k)' \in SUBSET SameTopic(r, k) /\ SameTopic(r, k) \in SUBSET Items
          BY <1>3, <3>1, <3>2, <4>0, <4>2, <5>1 DEF SameTopic
        <5>3. Cardinality(SameTopic(r, k)) <= PerTopic
          BY <5>1 DEF IInv, WithinCaps
        <5> QED
          BY <5>2, <5>3, StillBelow, CapsAssumption
      <4> QED
        BY <4>1, <4>2
    <3> QED
      BY <2>2, <3>3, <3>4, <3>5 DEF WithinCaps
  <2> QED
    BY <2>1, <2>2
<1>5. PassedInv' /\ DigestsInv'
  BY <1>3, PassedStays, DigestsStay DEF Select
<1> QED
  BY <1>3, <1>4, <1>5 DEF Select, IInv, TypeInv

\* The end of a run leaves its rows, or drops them all.
LEMMA NextRunIInv ==
  ASSUME IInv, NextRun
  PROVE  IInv'
<1>1. reads' \in [Runs -> SUBSET Items]
  BY DEF NextRun, IInv, TypeInv
<1>2. staged' \in [Runs -> [Items -> Rows]]
  <2>1. [i \in Items |-> Unstaged] \in [Items -> Rows]
    BY DEF Rows
  <2> QED
    BY <2>1 DEF NextRun, IInv, TypeInv
<1>3. ASSUME NEW q \in Runs PROVE WithinCaps(q)'
  <2>1. CASE (pending[cur] # <<>> /\ Full(cur)) \/ Busy(cur) \/ q # cur
    <3>1. staged'[q] = staged[q] /\ reads'[q] = reads[q]
      BY <2>1 DEF NextRun, IInv, TypeInv
    <3> QED
      BY <3>1, CapsStay
  <2>2. CASE ~((pending[cur] # <<>> /\ Full(cur)) \/ Busy(cur)) /\ q = cur
    <3>1. staged'[q] = [i \in Items |-> Unstaged]
      BY <2>2 DEF NextRun, IInv, TypeInv
    <3> QED
      BY <3>1, CapsEmpty
  <2> QED
    BY <2>1, <2>2
<1>4. \A q \in Runs : Busy(q) => staged'[q] = staged[q]
  BY DEF NextRun, IInv, TypeInv
<1>5. PassedInv' /\ DigestsInv'
  BY <1>4, PassedStays, DigestsStay DEF NextRun
<1> QED
  BY <1>1, <1>2, <1>3, <1>5 DEF IInv, TypeInv

LEMMA OthersIInv ==
  ASSUME IInv, digests' = digests, reads' = reads, staged' = staged,
         passed' \subseteq passed
  PROVE  IInv'
<1>1. \A q \in Runs : WithinCaps(q)'
  BY CapsStay
<1> QED
  BY <1>1, PassedStays, DigestsStay DEF IInv, TypeInv

\* What publish_digest has checked is what it takes along.
LEMMA CheckIInv ==
  ASSUME IInv, NEW r \in Runs, Check(r)
  PROVE  IInv'
<1>1. PICK at : /\ Publishable(r, at)
                /\ passed' = passed \cup {[run |-> r, at |-> at, seen |-> PublishedRuns]}
  BY DEF Check, PublishedRuns
<1> DEFINE new == [run |-> r, at |-> at, seen |-> PublishedRuns]
<1>2. UNCHANGED <<staged, reads, digests>>
  BY DEF Check
<1>3. TypeInv' /\ DigestsInv' /\ \A q \in Runs : WithinCaps(q)'
  BY <1>2, CapsStay, DigestsStay DEF IInv, TypeInv
<1>4. \A q : /\ StagedBy(q)' = StagedBy(q) /\ Full(q)' = Full(q)
             /\ PublishedRuns' = PublishedRuns
             /\ \A d : ItemsOf(d)' = ItemsOf(d)
  BY <1>2 DEF StagedBy, Full, InSection, PublishedRuns, ItemsOf
<1>5. /\ r \notin PublishedRuns
      /\ \A c \in passed : c.run # r
  BY DEF Check, Published, PublishedRuns, Busy
<1>6. Full(r)
  BY <1>1 DEF Publishable, Full
<1>7. \A d \in digests : d.at + ShownDays >= at => ItemsOf(d) \cap StagedBy(r) = {}
  BY <1>1 DEF Publishable, ShownIds
<1>8. \A c \in passed' : c \in passed \/ c = new
  BY <1>1
<1>9. new.run = r /\ new.at = at /\ new.seen = PublishedRuns
  OBVIOUS
<1> HIDE DEF new
<1>10. ASSUME NEW c \in passed'
       PROVE  /\ c.run \in Runs \ PublishedRuns
              /\ c.seen \subseteq PublishedRuns
              /\ Full(c.run)
              /\ \A d \in digests :
                   d.run \in c.seen /\ d.at + ShownDays >= c.at
                     => ItemsOf(d) \cap StagedBy(c.run) = {}
  BY <1>5, <1>6, <1>7, <1>8, <1>9 DEF IInv, PassedInv
<1>11. \A b, c \in passed' : b.run = c.run => b = c
  BY <1>5, <1>8, <1>9 DEF IInv, PassedInv
<1>12. PassedInv'
  BY <1>2, <1>4, <1>10, <1>11 DEF PassedInv
<1> QED
  BY <1>3, <1>12 DEF IInv

\* The digest that call c publishes.
Row(r, i) == [item |-> i, section |-> staged[r][i].section,
              position |-> Rank(r, i), topic |-> staged[r][i].topic]
DigestOf(c) == [run |-> c.run, at |-> c.at, seen |-> c.seen,
                rows |-> {Row(c.run, i) : i \in StagedBy(c.run)}]

\* Its section s shows what is staged in s, in the order of the ranks.
LEMMA DigestIsRanked ==
  ASSUME TypeInv, NEW c, NEW r \in Runs, c.run = r, NEW s \in Sections
  PROVE  LET rows == {row \in DigestOf(c).rows : row.section = s}
         IN  /\ Cardinality(rows) = Cardinality(InSection(r, s))
             /\ {row.position : row \in rows} = 1..Cardinality(InSection(r, s))
<1> DEFINE S == InSection(r, s)
           rows == {row \in DigestOf(c).rows : row.section = s}
           f == [i \in S |-> Row(r, i)]
<1>0. \A i : Row(r, i).section = staged[r][i].section /\ Row(r, i).position = Rank(r, i)
  BY DEF Row
<1>1. rows = {Row(r, i) : i \in S}
  <2>1. DigestOf(c).rows = {Row(r, i) : i \in StagedBy(r)}
    BY DEF DigestOf
  <2>2. \A i : i \in S <=> i \in StagedBy(r) /\ staged[r][i].section = s
    BY SectionsAreStaged DEF InSection, StagedBy
  <2> QED
    BY <1>0, <2>1, <2>2
<1>2. IsFiniteSet(S)
  BY SectionsAreStaged, ItemSets
<1>3. {row.position : row \in rows} = {Rank(r, i) : i \in S}
  <2>1. ASSUME NEW p, NEW i \in S, p = Rank(r, i) PROVE p \in {row.position : row \in rows}
    BY <1>0, <1>1, <2>1
  <2>2. ASSUME NEW row \in rows PROVE row.position \in {Rank(r, i) : i \in S}
    BY <1>0, <1>1, <2>2
  <2> QED
    BY <2>1, <2>2
<1>4. \A i, j \in S : Row(r, i) = Row(r, j) => i = j
  BY DEF Row
<1> HIDE DEF rows, S
<1>5. f \in Bijection(S, rows)
  <2>1. f \in [S -> rows] /\ \A i, j \in S : f[i] = f[j] => i = j
    BY <1>1, <1>4
  <2>2. \A row \in rows : \E i \in S : f[i] = row
    BY <1>1
  <2> QED
    BY <2>1, <2>2, Fun_IsBij
<1>6. Cardinality(rows) = Cardinality(S)
  BY <1>2, <1>5, FS_Bijection, Fun_ExistsBij
<1> QED
  BY <1>3, <1>6, RanksFill DEF rows, S

\* The insert: nothing that its call saw shows what the new digest shows, and
\* nobody has seen the new digest yet.
LEMMA InsertIInv ==
  ASSUME IInv, NEW c \in passed, Insert(c)
  PROVE  IInv'
<1> DEFINE new == DigestOf(c)
           r == c.run
<1>0. /\ r \in Runs \ PublishedRuns /\ c.seen \subseteq PublishedRuns /\ Full(r)
      /\ \A d \in digests : d.run \in c.seen /\ d.at + ShownDays >= c.at
                              => ItemsOf(d) \cap StagedBy(r) = {}
      /\ \A b \in passed : b.run = r => b = c
  BY DEF IInv, PassedInv
<1>1. digests' = digests \cup {new} /\ passed' = passed \ {c}
  BY DEF Insert, DigestOf, Row
<1>2. /\ ItemsOf(new) = StagedBy(r)
      /\ new.run = r /\ new.at = c.at /\ new.seen = c.seen
  <2>1. /\ new.rows = {Row(r, i) : i \in StagedBy(r)}
        /\ new.run = r /\ new.at = c.at /\ new.seen = c.seen
    BY DEF DigestOf
  <2>2. \A i : Row(r, i).item = i
    BY DEF Row
  <2> QED
    BY <2>1, <2>2 DEF ItemsOf
<1>3. \A s \in Sections :
        LET rows == {row \in new.rows : row.section = s}
        IN  /\ Cardinality(rows) = Quota[s]
            /\ {row.position : row \in rows} = 1..Quota[s]
  BY <1>0, DigestIsRanked DEF Full, IInv
<1> HIDE DEF new
<1>4. PublishedRuns' = PublishedRuns \cup {r}
  BY <1>1, <1>2 DEF PublishedRuns
<1>5. UNCHANGED <<staged, reads>>
  BY DEF Insert
<1> HIDE DEF r
<1>6. TypeInv' /\ \A q \in Runs : WithinCaps(q)'
  BY <1>5, CapsStay DEF IInv, TypeInv
<1>7. NothingShownTwice'
  <2> SUFFICES ASSUME NEW d \in digests', NEW e \in digests',
                      d.run \in e.seen, d.at + ShownDays >= e.at
               PROVE  ItemsOf(d) \cap ItemsOf(e) = {}
    BY DEF NothingShownTwice, ItemsOf
  <2>1. CASE d \in digests /\ e \in digests
    BY <2>1 DEF IInv, DigestsInv, NothingShownTwice
  <2>2. CASE d \in digests /\ e = new
    BY <1>0, <1>2, <2>2
  <2>3. e.seen \subseteq PublishedRuns
    BY <1>0, <1>1, <1>2 DEF IInv, DigestsInv
  <2>4. CASE d = new
    BY <1>0, <1>2, <2>3, <2>4
  <2> QED
    BY <1>1, <2>1, <2>2, <2>4
<1>8. PositionsAreRanks'
  BY <1>1, <1>3 DEF IInv, DigestsInv, PositionsAreRanks
<1>9. OneDigestPerRun'
  <2>1. \A d \in digests : d.run # r
    BY <1>0 DEF PublishedRuns
  <2> QED
    BY <1>1, <1>2, <2>1 DEF IInv, DigestsInv, OneDigestPerRun
<1>10. \A d \in digests' : d.seen \subseteq PublishedRuns'
  BY <1>0, <1>1, <1>2, <1>4 DEF IInv, DigestsInv
<1>11. PassedInv'
  <2>1. \A q : StagedBy(q)' = StagedBy(q) /\ Full(q)' = Full(q)
    BY <1>5 DEF StagedBy, Full, InSection
  <2>2. \A d : ItemsOf(d)' = ItemsOf(d)
    BY DEF ItemsOf
  <2>3. ASSUME NEW b \in passed'
        PROVE  /\ b.run \in Runs \ PublishedRuns'
               /\ b.seen \subseteq PublishedRuns'
               /\ Full(b.run)
               /\ \A d \in digests' :
                    d.run \in b.seen /\ d.at + ShownDays >= b.at
                      => ItemsOf(d) \cap StagedBy(b.run) = {}
    <3>1. b \in passed /\ b.run # r
      BY <1>0, <1>1
    <3>2. /\ b.run \in Runs \ PublishedRuns /\ b.seen \subseteq PublishedRuns
          /\ Full(b.run)
          /\ \A d \in digests : d.run \in b.seen /\ d.at + ShownDays >= b.at
                                  => ItemsOf(d) \cap StagedBy(b.run) = {}
      BY <3>1 DEF IInv, PassedInv
    <3>3. new.run \notin b.seen
      BY <1>0, <1>2, <3>2
    <3> QED
      BY <1>1, <1>4, <3>1, <3>2, <3>3
  <2>4. \A a, b \in passed' : a.run = b.run => a = b
    BY <1>1 DEF IInv, PassedInv
  <2> QED
    BY <2>1, <2>2, <2>3, <2>4 DEF PassedInv
<1> QED
  BY <1>6, <1>7, <1>8, <1>9, <1>10, <1>11 DEF IInv, DigestsInv

LEMMA NextIInv == IInv /\ [Next]_vars => IInv'
<1> SUFFICES ASSUME IInv, [Next]_vars PROVE IInv'
  OBVIOUS
<1>1. ASSUME NEW r \in Runs, NEW i \in Offered[r], ReadItem(r, i) PROVE IInv'
  BY <1>1, ReadItemIInv
<1>2. ASSUME NEW r \in Runs, NEW i \in Offered[r], NEW s \in Sections,
             NEW t \in TopicsOf[i], Select(r, i, s, t)
      PROVE  IInv'
  BY <1>2, SelectIInv
<1>3. ASSUME NEW r \in Runs, NEW i \in Offered[r], Unstage(r, i) PROVE IInv'
  BY <1>3, UnstageIInv
<1>4. ASSUME NEW r \in Runs, CallPublish(r) \/ Refuse(r) \/ CountRejection(r)
      PROVE  IInv'
  BY <1>4, OthersIInv DEF CallPublish, Refuse, CountRejection
<1>5. ASSUME NEW r \in Runs, Check(r) PROVE IInv'
  BY <1>5, CheckIInv
<1>6. ASSUME NEW c \in passed, Insert(c) PROVE IInv'
  BY <1>6, InsertIInv
<1>7. ASSUME NEW c \in passed, InsertErrs(c) PROVE IInv'
  BY <1>7, OthersIInv DEF InsertErrs
<1>8. CASE NextRun
  BY <1>8, NextRunIInv
<1>9. CASE NextDay
  BY <1>9, OthersIInv DEF NextDay
<1>10. CASE UNCHANGED vars
  BY <1>10, OthersIInv DEF vars
<1> QED
  BY <1>1, <1>2, <1>3, <1>4, <1>5, <1>6, <1>7, <1>8, <1>9, <1>10 DEF Next

\* The inductive invariant holds of every behaviour.
THEOREM Invariant == Spec => []IInv
<1> QED
  BY InitIInv, NextIInv, PTL DEF Spec

-----------------------------------------------------------------------------
(* The properties *)

\* publish_digest never shows again what a digest of the last ShownDays shows that
\* was there when it checked, whatever was staged when and whatever a killed run
\* publishes late.
THEOREM ShownOnce == Spec => []NothingShownTwice
<1>1. IInv => NothingShownTwice
  BY DEF IInv, DigestsInv
<1> QED
  BY <1>1, Invariant, PTL

\* A run has one digest at most: the connection is held from the check to the
\* insert, so that of two calls that overlap the second finds the digest.
THEOREM PublishedOnce == Spec => []OneDigestPerRun
<1>1. IInv => OneDigestPerRun
  BY DEF IInv, DigestsInv
<1> QED
  BY <1>1, Invariant, PTL

\* A published section has its quota of items, in positions 1 to that number:
\* publish_digest's renumbering is a bijection, whatever was staged, moved and
\* unstaged before.
THEOREM Ranked == Spec => []PositionsAreRanks
<1>1. IInv => PositionsAreRanks
  BY DEF IInv, DigestsInv
<1> QED
  BY <1>1, Invariant, PTL

\* What select keeps of the caps is all that publish_digest checks again, but for
\* the sections' size, what was shown, and sources that share a title.
THEOREM SelectSuffices == Spec => []FullIsPublishable
<1>1. ASSUME IInv PROVE FullIsPublishable
  <2> SUFFICES ASSUME NEW r \in Runs, Full(r), StagedBy(r) \cap ShownIds(day) = {},
                      ~SharedTitleIsOver(r)
               PROVE  Publishable(r, day)
    BY DEF FullIsPublishable
  <2>1. WithinCaps(r)
    BY <1>1 DEF IInv
  <2>2. ASSUME NEW i \in StagedBy(r)
        PROVE  Cardinality({j \in StagedBy(r) : SameTitle(i, j)}) <= PerSource
    <3> DEFINE S == {j \in StagedBy(r) : SameTitle(i, j)}
    <3>1. CASE \A k \in S : SourceOf[k] = SourceOf[i]
      <4>1. S = SameSource(r, i)
        BY <3>1 DEF SameTitle, SameSource
      <4> QED
        BY <2>1, <4>1 DEF WithinCaps
    <3>2. CASE \E k \in S : SourceOf[k] # SourceOf[i]
      <4>1. ~(Cardinality(S) > PerSource)
        BY <3>2 DEF SharedTitleIsOver
      <4>2. S \in SUBSET Items
        BY DEF StagedBy
      <4>3. Cardinality(S) \in Nat /\ PerSource \in Nat
        BY <4>2, ItemSets, CapsAssumption
      <4>4. \A m, n \in Nat : ~(m > n) => m <= n
        OBVIOUS
      <4> QED
        BY <4>1, <4>3, <4>4
    <3> QED
      BY <3>1, <3>2
  <2>3. ASSUME NEW i \in StagedBy(r)
        PROVE  {j \in StagedBy(r) : staged[r][j].topic = staged[r][i].topic} = SameTopic(r, i)
    BY DEF SameTopic
  <2> QED
    BY <2>1, <2>2, <2>3 DEF Publishable, WithinCaps, Full
<1> QED
  BY <1>1, Invariant, PTL
=============================================================================
