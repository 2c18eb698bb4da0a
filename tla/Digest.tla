------------------------------- MODULE Digest -------------------------------
(***************************************************************************)
(* How an Editor run makes its digest through the MCP server: what it has  *)
(* read (run_reads), what it has staged (selections) and what it publishes *)
(* (digests, digest_items).                                                *)
(*                                                                         *)
(* One run at a time calls the tools: the run lock sees to it.  A run that *)
(* is killed stops calling, but its server may still be in the middle of   *)
(* publish_digest while the next run is at work: it is another process, on *)
(* a connection of its own.  A call that is refused for what it was given  *)
(* (an unknown item or topic, a text that is empty or too long, no reason) *)
(* changes nothing and is left out.                                        *)
(***************************************************************************)
EXTENDS Naturals, Sequences, SequencesExt, FiniteSets

CONSTANTS
  Items,        \* the ids of the items, ordered: ties are broken by id
  SourceOf,     \* the source id of each item
  TitleOf,      \* the title of each source, by which publish counts
  TopicsOf,     \* the topics an agent may file each item under
  ForYou, BeyondRadar, PerSource, PerTopic, ReadCap, ShownDays,   \* Caps
  Offered,      \* the items each run's agent picks from (list_candidates)
  FatalAfter,   \* FATAL_AFTER_REJECTIONS
  MaxRuns,      \* bound: the runs, numbered as they are started
  MaxCalls,     \* bound: publish_digest calls of a run that overlap
  MaxDay        \* bound: the day

Runs == 1..MaxRuns
Quota == [for_you |-> ForYou, beyond_radar |-> BeyondRadar]
Sections == DOMAIN Quota
Topics == UNION {TopicsOf[i] : i \in Items}

ASSUME CatalogAssumption ==
  /\ Items \subseteq Nat /\ IsFiniteSet(Items)
  /\ SourceOf \in [Items -> DOMAIN TitleOf]
  /\ DOMAIN TopicsOf = Items
  /\ \A r \in Runs : Offered[r] \subseteq Items

ASSUME CapsAssumption ==
  /\ ForYou \in Nat /\ BeyondRadar \in Nat /\ PerSource \in Nat
  /\ PerTopic \in Nat /\ ReadCap \in Nat /\ ShownDays \in Nat
  /\ FatalAfter \in Nat /\ MaxRuns \in Nat

VARIABLES
  day,         \* the clock, in days
  cur,         \* the run that calls the tools
  reads,       \* per run: the items it has read
  staged,      \* per run: the row of each item, of section "none" when absent
  pending,     \* per run: the day read by each publish call past the fatal check
  passed,      \* the publish calls that passed the rules and have not written yet
  refused,     \* per run: publish calls refused but not yet counted
  rejections,  \* per run: its server's publish_rejections
  digests      \* the published digests

vars == <<day, cur, reads, staged, pending, passed, refused, rejections, digests>>

-----------------------------------------------------------------------------

Unstaged == [section |-> "none", position |-> 0, topic |-> "none"]

StagedBy(r) == {i \in Items : staged[r][i] # Unstaged}
InSection(r, s) == {i \in Items : staged[r][i].section = s}
Full(r) == \A s \in Sections : Cardinality(InSection(r, s)) = Quota[s]

ItemsOf(d) == {row.item : row \in d.rows}

\* What a digest of the ShownDays before t showed.
ShownIds(t) == UNION {ItemsOf(d) : d \in {d \in digests : d.at + ShownDays >= t}}

\* A server has one connection behind a mutex, and publish_digest holds it from
\* its checks to its transaction: no other call of the run comes between.
Busy(r) == \E c \in passed : c.run = r

Init ==
  /\ day = 0
  /\ cur = 1
  /\ reads = [r \in Runs |-> {}]
  /\ staged = [r \in Runs |-> [i \in Items |-> Unstaged]]
  /\ pending = [r \in Runs |-> <<>>]
  /\ passed = {}
  /\ refused = [r \in Runs |-> 0]
  /\ rejections = [r \in Runs |-> 0]
  /\ digests = {}

\* read_item: reading an item again is free, and changes nothing.
ReadItem(r, i) ==
  /\ r = cur /\ ~Busy(r)
  /\ i \notin reads[r]
  /\ Cardinality(reads[r]) < ReadCap
  /\ reads' = [reads EXCEPT ![r] = @ \cup {i}]
  /\ UNCHANGED <<day, cur, staged, pending, passed, refused, rejections, digests>>

\* The staged items an item is counted against: all but itself.
Others(r, i) == StagedBy(r) \ {i}

Room(r, i, s, t) ==
  /\ Cardinality({j \in Others(r, i) : SourceOf[j] = SourceOf[i]}) < PerSource
  /\ Cardinality({j \in Others(r, i) : staged[r][j].topic = t}) < PerTopic
  /\ Cardinality(InSection(r, s) \ {i}) < Quota[s]

\* The place of an item in its section: kept, or after those that are there.
Position(r, i, s) ==
  IF staged[r][i].section = s THEN staged[r][i].position
                              ELSE Cardinality(InSection(r, s)) + 1

\* select, into a section.
Select(r, i, s, t) ==
  /\ r = cur /\ ~Busy(r)
  /\ i \in reads[r]
  /\ i \notin ShownIds(day)
  /\ Room(r, i, s, t)
  /\ staged' = [staged EXCEPT ![r][i] =
       [section |-> s, position |-> Position(r, i, s), topic |-> t]]
  /\ UNCHANGED <<day, cur, reads, pending, passed, refused, rejections, digests>>

\* select with section "none": never an error, even if there is no row.
Unstage(r, i) ==
  /\ r = cur /\ ~Busy(r)
  /\ i \in StagedBy(r)
  /\ staged' = [staged EXCEPT ![r][i] = Unstaged]
  /\ UNCHANGED <<day, cur, reads, pending, passed, refused, rejections, digests>>

-----------------------------------------------------------------------------
(* publish_digest *)

Published(r) == \E d \in digests : d.run = r

SameTitle(i, j) == TitleOf[SourceOf[i]] = TitleOf[SourceOf[j]]

\* Mutant: the items were checked when they were staged.
PublishableAsStaged(r, at) ==
  \A s \in Sections : Cardinality(InSection(r, s)) = Quota[s]

\* Mutant: fewer than the cap, not at most the cap.
PublishableBelowCap(r, at) ==
  /\ \A s \in Sections : Cardinality(InSection(r, s)) = Quota[s]
  /\ \A i \in StagedBy(r) :
       Cardinality({j \in StagedBy(r) : SameTitle(i, j)}) < PerSource

\* No violation: every rule is checked again on the staged set as a whole.
Publishable(r, at) ==
  /\ \A s \in Sections : Cardinality(InSection(r, s)) = Quota[s]
  /\ StagedBy(r) \subseteq reads[r]
  /\ StagedBy(r) \cap ShownIds(at) = {}
  /\ \A i \in StagedBy(r) :
       /\ Cardinality({j \in StagedBy(r) : SameTitle(i, j)}) <= PerSource
       /\ Cardinality({j \in StagedBy(r) :
                         staged[r][j].topic = staged[r][i].topic}) <= PerTopic

\* j comes before i: by position, then by id.
Precedes(r, j, i) ==
  \/ staged[r][j].position < staged[r][i].position
  \/ staged[r][j].position = staged[r][i].position /\ j < i

\* Mutant: the digest takes the staged positions.
RankAsStaged(r, i) == staged[r][i].position

\* Positions are renumbered from 1 in each section.
Rank(r, i) ==
  1 + Cardinality({j \in InSection(r, staged[r][i].section) : Precedes(r, j, i)})

\* A call is refused outright after FatalAfter rejections.  It reads the clock
\* before it waits for the connection.
CallPublish(r) ==
  /\ r = cur
  /\ rejections[r] < FatalAfter
  /\ Len(pending[r]) + Cardinality({c \in passed : c.run = r}) + refused[r] < MaxCalls
  /\ pending' = [pending EXCEPT ![r] = Append(@, day)]
  /\ UNCHANGED <<day, cur, reads, staged, passed, refused, rejections, digests>>

\* The rules are checked by reads, each of them a transaction of its own: the digests
\* of other servers that one of them sees (`seen`) may not be all there are by the
\* time of the insert.  The run's own rows stay as they are.
Check(r) ==
  /\ ~Busy(r)
  /\ ~Published(r)
  /\ \E k \in DOMAIN pending[r] :
       /\ Publishable(r, pending[r][k])
       /\ passed' = passed \cup {[run |-> r, at |-> pending[r][k],
                                  seen |-> {d.run : d \in digests}]}
       /\ pending' = [pending EXCEPT ![r] = RemoveAt(@, k)]
  /\ UNCHANGED <<day, cur, reads, staged, refused, rejections, digests>>

\* insert_digest: the digest and its items in one transaction.  No rule is looked
\* at again, and no index forbids an item that another digest has.
Insert(c) ==
  /\ digests' = digests \cup
       {[run |-> c.run, at |-> c.at, seen |-> c.seen,
         rows |-> {[item |-> i, section |-> staged[c.run][i].section,
                    position |-> Rank(c.run, i), topic |-> staged[c.run][i].topic]
                   : i \in StagedBy(c.run)}]}
  /\ passed' = passed \ {c}
  /\ UNCHANGED <<day, cur, reads, staged, pending, refused, rejections>>

\* An error of the database rolls the transaction back and is not counted; nor
\* is anything left of it when the server is killed.
InsertErrs(c) ==
  /\ passed' = passed \ {c}
  /\ UNCHANGED <<day, cur, reads, staged, pending, refused, rejections, digests>>

Refuse(r) ==
  /\ ~Busy(r)
  /\ \E k \in DOMAIN pending[r] :
       /\ Published(r) \/ ~Publishable(r, pending[r][k])
       /\ pending' = [pending EXCEPT ![r] = RemoveAt(@, k)]
  /\ refused' = [refused EXCEPT ![r] = @ + 1]
  /\ UNCHANGED <<day, cur, reads, staged, passed, rejections, digests>>

\* The counter is bumped after the database has answered.
CountRejection(r) ==
  /\ refused[r] > 0
  /\ refused' = [refused EXCEPT ![r] = @ - 1]
  /\ rejections' = [rejections EXCEPT ![r] = @ + 1]
  /\ UNCHANGED <<day, cur, reads, staged, pending, passed, digests>>

-----------------------------------------------------------------------------

\* The run ends, by itself or killed, and the next one starts with no row of
\* its own.  Rows of a run that is over stay in the tables, but only its own
\* last publish reads them: the model drops them when there is none.
NextRun ==
  /\ cur < MaxRuns
  /\ cur' = cur + 1
  /\ IF (pending[cur] # <<>> /\ Full(cur)) \/ Busy(cur)
       THEN UNCHANGED <<reads, staged>>
       ELSE /\ reads' = [reads EXCEPT ![cur] = {}]
            /\ staged' = [staged EXCEPT ![cur] = [i \in Items |-> Unstaged]]
  /\ UNCHANGED <<day, pending, passed, refused, rejections, digests>>

NextDay ==
  /\ day < MaxDay
  /\ day' = day + 1
  /\ UNCHANGED <<cur, reads, staged, pending, passed, refused, rejections, digests>>

Next ==
  \/ \E r \in Runs : \E i \in Offered[r] :
       \/ ReadItem(r, i)
       \/ \E s \in Sections, t \in TopicsOf[i] : Select(r, i, s, t)
       \/ Unstage(r, i)
  \/ \E r \in Runs : CallPublish(r) \/ Check(r) \/ Refuse(r) \/ CountRejection(r)
  \/ \E c \in passed : Insert(c) \/ InsertErrs(c)
  \/ NextRun
  \/ NextDay

Spec == Init /\ [][Next]_vars

-----------------------------------------------------------------------------
(* Properties *)

\* select counts by source, publish_digest by the title of the source: sources that
\* share a title may be over the cap together.
SharedTitleIsOver(r) ==
  \E i, k \in StagedBy(r) :
    /\ SourceOf[i] # SourceOf[k] /\ SameTitle(i, k)
    /\ Cardinality({j \in StagedBy(r) : SameTitle(i, j)}) > PerSource

\* A full staged set of which nothing was shown meanwhile is publishable: an agent
\* that fills its sections through select, however it moves and drops items, burns
\* none of its rejections, but for sources that share a title.
FullIsPublishable ==
  \A r \in Runs :
    Full(r) /\ StagedBy(r) \cap ShownIds(day) = {}
      => Publishable(r, day) \/ SharedTitleIsOver(r)

\* What a digest shows was not shown in the ShownDays before it by any digest that
\* was there when publish_digest checked it, though the item may have been staged
\* long before, while the killed run before it went on publishing.  Of two servers
\* that check before either inserts it says nothing, nor does the code: both insert.
NothingShownTwice ==
  \A d, e \in digests :
    d.run \in e.seen /\ d.at + ShownDays >= e.at => ItemsOf(d) \cap ItemsOf(e) = {}

\* A run has one digest at most, however its publish calls overlap.
OneDigestPerRun ==
  \A d, e \in digests : d.run = e.run => d = e

\* A published section has its quota of items, in positions 1 to that number.
PositionsAreRanks ==
  \A d \in digests, s \in Sections :
    LET rows == {row \in d.rows : row.section = s}
    IN  /\ Cardinality(rows) = Quota[s]
        /\ {row.position : row \in rows} = 1..Quota[s]
=============================================================================
