------------------------------- MODULE Profile -------------------------------
(***************************************************************************)
(* What the reader's profile is made of and who may change it: the tables  *)
(* `topics`, `sources` and `proposals`.  The Curator's MCP server checks a *)
(* change and inserts it as a pending proposal, in two database calls; the *)
(* approval page applies or rejects it, in one; every run first mirrors    *)
(* `topics.toml`, and every ingest mirrors `feeds.toml`.                   *)
(*                                                                         *)
(* A weight is a number of halves.  A mirror is one step although it is    *)
(* one statement per row: no other operation looks at two rows.            *)
(***************************************************************************)
EXTENDS Naturals, Sequences, FiniteSets

CONSTANTS
  TopicIds,      \* the slugs a topic may have
  SourceIds,     \* the slugs a source may have
  Urls,          \* the feed urls the Curator may find, as numbers
  Runs,          \* the Curator runs, each with a MCP server of its own
  Weights,       \* the weights a proposal may ask for: MIN_WEIGHT..MAX_WEIGHT
  MaxWeight,     \* MAX_WEIGHT
  TopicsToml,    \* topics.toml: the weight of every topic listed there
  FeedsToml,     \* feeds.toml: whether each source listed there is enabled
  MaxProposals   \* bound: the proposals in the queue and under way

ASSUME ProfileAssumption ==
  /\ MaxWeight \in Nat
  /\ Weights \subseteq 0 .. MaxWeight
  /\ Urls \subseteq Nat
  /\ DOMAIN TopicsToml \subseteq TopicIds /\ \A t \in DOMAIN TopicsToml : TopicsToml[t] \in Nat
  /\ DOMAIN FeedsToml \subseteq SourceIds

VARIABLES
  topics,      \* the table: id |-> [weight, origin]
  sources,     \* the table: id |-> enabled
  proposals,   \* the table, in insertion order
  validated,   \* the urls each run's server has seen validate_feed accept
  inflight,    \* the propose_change calls past the check of their target
  approved     \* ghost: the proposals approved, in that order

vars == <<topics, sources, proposals, validated, inflight, approved>>

-----------------------------------------------------------------------------

Change(kind, ids, args) == [kind : {kind}, id : ids, arg : args]

TopicChanges ==
  Change("topic_weight", TopicIds, Weights)
    \cup Change("add_topic", TopicIds, Weights)
    \cup Change("promote_explore_topic", TopicIds, {0})

SourceChanges ==
  Change("disable_source", SourceIds, {0}) \cup Change("add_source", SourceIds, Urls)

Changes == TopicChanges \cup SourceChanges

Init ==
  /\ topics = <<>>
  /\ sources = <<>>
  /\ proposals = <<>>
  /\ validated = [r \in Runs |-> {}]
  /\ inflight = {}
  /\ approved = <<>>

\* Row id of table tab becomes v, inserted when it is not there.
Put(tab, id, v) ==
  [i \in DOMAIN tab \cup {id} |-> IF i = id THEN v ELSE tab[i]]

-----------------------------------------------------------------------------
(* The Curator *)

\* Mutant: an update of a topic that is not there is no error.
TargetUnchecked(c) ==
  CASE c.kind \in {"topic_weight", "promote_explore_topic"} -> TRUE
    [] c.kind = "add_topic" -> c.id \notin DOMAIN topics
    [] c.kind = "disable_source" -> c.id \in DOMAIN sources /\ sources[c.id]
    [] c.kind = "add_source" -> c.id \notin DOMAIN sources

\* The change names a row that is there to change, or one that is not there
\* to create: asked when a change is proposed and again when it is applied.
TargetFits(c) ==
  CASE c.kind \in {"topic_weight", "promote_explore_topic"} -> c.id \in DOMAIN topics
    [] c.kind = "add_topic" -> c.id \notin DOMAIN topics
    [] c.kind = "disable_source" -> c.id \in DOMAIN sources /\ sources[c.id]
    [] c.kind = "add_source" -> c.id \notin DOMAIN sources

\* validate_feed accepts a url and its server remembers it.
ValidateFeed(r, u) ==
  /\ validated' = [validated EXCEPT ![r] = @ \cup {u}]
  /\ UNCHANGED <<topics, sources, proposals, inflight, approved>>

\* propose_change, first call: the target is checked now.
CheckTarget(r, c) ==
  /\ TargetFits(c)
  /\ Len(proposals) + Cardinality(inflight) < MaxProposals
  /\ inflight' = inflight \cup {[run |-> r, change |-> c]}
  /\ UNCHANGED <<topics, sources, proposals, validated, approved>>

\* Mutant: any server's memory will do.
UrlKnownToAny(r, c) ==
  c.kind = "add_source" => \E s \in Runs : c.arg \in validated[s]

\* A new source needs a url this run's server saw validated.
UrlKnown(r, c) == c.kind = "add_source" => c.arg \in validated[r]

\* propose_change, the rest: refused, or one pending row and nothing else.
Propose(r, c) ==
  /\ [run |-> r, change |-> c] \in inflight
  /\ inflight' = inflight \ {[run |-> r, change |-> c]}
  /\ proposals' = IF UrlKnown(r, c)
       THEN Append(proposals, [run |-> r, change |-> c, status |-> "pending",
                               before |-> 0, after |-> 0])
       ELSE proposals
  /\ UNCHANGED <<topics, sources, validated, approved>>

-----------------------------------------------------------------------------
(* The approval page *)

Pending(i) == proposals[i].status = "pending"

WeightOf(t) == IF t \in DOMAIN topics THEN topics[t].weight ELSE 0

\* The weight of the topic once the change is applied; a promotion adds 0.5.
WeightAfter(c) ==
  IF c.kind # "promote_explore_topic" THEN c.arg
  ELSE IF WeightOf(c.id) < MaxWeight THEN WeightOf(c.id) + 1 ELSE MaxWeight

OriginAfter(c) ==
  CASE c.kind = "topic_weight" -> topics[c.id].origin
    [] c.kind = "add_topic" -> "curator"
    [] c.kind = "promote_explore_topic" -> "explore-promoted"

\* The one target row of the change (an UPDATE of no row changes none).
ChangeTopic(c) ==
  topics' = IF c.kind = "add_topic" \/ c.id \in DOMAIN topics
    THEN Put(topics, c.id, [weight |-> WeightAfter(c), origin |-> OriginAfter(c)])
    ELSE topics

ChangeSource(c) == sources' = Put(sources, c.id, c.kind = "add_source")

\* One transaction: the pending check, the target, its row and the verdict.
Approve(i) ==
  LET c == proposals[i].change IN
  /\ Pending(i)
  /\ TargetFits(c)
  /\ IF c \in TopicChanges
       THEN /\ ChangeTopic(c)
            /\ proposals' = [proposals EXCEPT ![i].status = "approved",
                               ![i].before = WeightOf(c.id),
                               ![i].after = WeightAfter(c)]
            /\ UNCHANGED sources
       ELSE /\ ChangeSource(c)
            /\ proposals' = [proposals EXCEPT ![i].status = "approved"]
            /\ UNCHANGED topics
  /\ approved' = Append(approved, i)
  /\ UNCHANGED <<validated, inflight>>

Reject(i) ==
  /\ Pending(i)
  /\ proposals' = [proposals EXCEPT ![i].status = "rejected"]
  /\ UNCHANGED <<topics, sources, validated, inflight, approved>>

\* POST /curator/{id}/approve and /reject; what cannot apply is answered with 409.
Decide(i) == Approve(i) \/ Reject(i)

-----------------------------------------------------------------------------
(* The mirrors *)

\* A row the mirror deletes: seeded, and not in the list it is given.
Unlisted(t, list) == topics[t].origin = "seed" /\ t \notin DOMAIN list

\* sync_topics: what is listed is inserted or overwritten, weight and origin;
\* a seed that is not listed is deleted.
MirrorTopics(list) ==
  /\ topics' = [t \in DOMAIN list \cup {u \in DOMAIN topics : ~Unlisted(u, list)} |->
       IF t \in DOMAIN list THEN [weight |-> list[t], origin |-> "seed"]
                            ELSE topics[t]]
  /\ UNCHANGED <<sources, proposals, validated, inflight, approved>>

\* The Editor's runner and the commands mirror the list they have loaded.
EditorRun == MirrorTopics(TopicsToml)

\* The Curator's runner in `serve` was given no list.
ScheduledCuratorRun == MirrorTopics(<<>>)

\* upsert_source of every feed, whatever the row says.
Ingest ==
  /\ sources' = [s \in DOMAIN FeedsToml \cup DOMAIN sources |->
                   IF s \in DOMAIN FeedsToml THEN FeedsToml[s] ELSE sources[s]]
  /\ UNCHANGED <<topics, proposals, validated, inflight, approved>>

-----------------------------------------------------------------------------

Next ==
  \/ \E r \in Runs : \/ \E u \in Urls : ValidateFeed(r, u)
                     \/ \E c \in Changes : CheckTarget(r, c) \/ Propose(r, c)
  \/ \E i \in DOMAIN proposals : Decide(i)
  \/ EditorRun
  \/ ScheduledCuratorRun
  \/ Ingest

Spec == Init /\ [][Next]_vars

-----------------------------------------------------------------------------

\* Where in `approved` the approvals of changes to one row are.
Approvals(changes, id) ==
  {n \in DOMAIN approved : LET c == proposals[approved[n]].change IN c \in changes /\ c.id = id}

IsFirst(n, places) == \A m \in places : n <= m
IsLast(n, places) == \A m \in places : m <= n
Adjacent(m, n, places) == m < n /\ \A k \in places : k <= m \/ n <= k

\* A topic that only the queue can have made exists once its addition was
\* approved, and from then on; it has the weight the last approval gave it.
\* Each approval found the weight the one before had left, so the before and
\* after kept with the proposals are the topic's whole history, although runs
\* mirror topics.toml and other proposals for it wait in the queue.
TopicsFollowTheQueue ==
  \A t \in TopicIds \ DOMAIN TopicsToml :
    LET a == Approvals(TopicChanges, t)
        before(n) == proposals[approved[n]].before
        after(n) == proposals[approved[n]].after
    IN  /\ t \in DOMAIN topics <=> a # {}
        /\ \A n \in a : /\ IsFirst(n, a) => before(n) = 0
                        /\ IsLast(n, a) => topics[t].weight = after(n)
        /\ \A m, n \in a : Adjacent(m, n, a) => before(n) = after(m)

\* A source that only the queue can have made is there once it was approved,
\* enabled unless its disabling was approved since, although every run mirrors
\* feeds.toml; and the run that proposed its feed had validated it itself.
SourcesFollowTheQueue ==
  \A s \in SourceIds \ DOMAIN FeedsToml :
    LET a == Approvals(SourceChanges, s)
        proposal(n) == proposals[approved[n]]
    IN  /\ s \in DOMAIN sources <=> a # {}
        /\ \A n \in a :
             LET c == proposal(n).change IN
             /\ IsLast(n, a) => sources[s] = (c.kind = "add_source")
             /\ IsFirst(n, a) => c.kind = "add_source" /\ c.arg \in validated[proposal(n).run]

\* What delete_seed_topics_not_in says of itself: it removes seed topics that
\* are no longer in topics.toml, and no other.
ListedTopicsStay ==
  [][\A t \in DOMAIN topics \cap DOMAIN TopicsToml : t \in DOMAIN topics']_vars
=============================================================================
