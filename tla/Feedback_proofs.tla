-------------------------- MODULE Feedback_proofs ---------------------------
(***************************************************************************)
(* What the reader's feedback does, for any topics, sources, items, runs,  *)
(* tabs and interleavings: the profile follows the approvals, however      *)
(* often the files are mirrored; a rating names the digest that showed its *)
(* item, and a dislike leaves the scores alone.                            *)
(***************************************************************************)
EXTENDS Profile, Signals, SequenceTheorems, WellFoundedInduction, TLAPS

-----------------------------------------------------------------------------
(* The profile and its queue *)

Statuses == {"pending", "approved", "rejected"}
Origins == {"seed", "curator", "explore-promoted"}
Proposal == [run : Runs, change : Changes, status : Statuses, before : Nat, after : Nat]
Topic == [weight : Nat, origin : Origins]

\* The rows have their types.
RowsInv ==
  /\ proposals \in Seq(Proposal)
  /\ \A t \in DOMAIN topics : topics[t] \in Topic
  /\ inflight \subseteq [run : Runs, change : Changes]

\* An approval was given once, to a proposal of the table.
ApprovedInv ==
  /\ approved \in Seq(Nat)
  /\ \A n \in DOMAIN approved : /\ approved[n] \in DOMAIN proposals
                                /\ proposals[approved[n]].status = "approved"

\* A source that is proposed was validated by the run that proposes it.
ValidatedInv ==
  /\ validated \in [Runs -> SUBSET Urls]
  /\ \A i \in DOMAIN proposals :
       proposals[i].change.kind = "add_source" =>
         proposals[i].change.arg \in validated[proposals[i].run]

QueueInv == RowsInv /\ ApprovedInv /\ ValidatedInv

\* What no file lists was made by the queue, and says so.
OriginInv == \A t \in DOMAIN topics \ DOMAIN TopicsToml : topics[t].origin # "seed"

IInv == QueueInv /\ OriginInv /\ TopicsFollowTheQueue /\ SourcesFollowTheQueue

-----------------------------------------------------------------------------
(* Changes *)

\* A change is of a topic or of a source, and its kind says which.
LEMMA ChangeKinds ==
  /\ Changes = TopicChanges \cup SourceChanges
  /\ \A c \in TopicChanges : /\ c.kind \in {"topic_weight", "add_topic", "promote_explore_topic"}
                             /\ c.id \in TopicIds /\ c.arg \in Nat
  /\ \A c \in SourceChanges : /\ c.kind \in {"disable_source", "add_source"}
                              /\ c.id \in SourceIds /\ c.arg \in Nat
  /\ TopicChanges \cap SourceChanges = {}
<1>1. Weights \subseteq Nat /\ Urls \subseteq Nat
  BY ProfileAssumption
<1>2. ASSUME NEW k, NEW ids, NEW args, args \subseteq Nat, NEW c \in Change(k, ids, args)
      PROVE  c.kind = k /\ c.id \in ids /\ c.arg \in Nat
  BY <1>2 DEF Change
<1> HIDE DEF Change
<1>3. \A c \in TopicChanges : /\ c.kind \in {"topic_weight", "add_topic", "promote_explore_topic"}
                              /\ c.id \in TopicIds /\ c.arg \in Nat
  <2>1. 0 \in Nat /\ {0} \subseteq Nat
    OBVIOUS
  <2> QED
    BY <1>1, <1>2, <2>1, Zenon DEF TopicChanges
<1>4. \A c \in SourceChanges : /\ c.kind \in {"disable_source", "add_source"}
                               /\ c.id \in SourceIds /\ c.arg \in Nat
  <2>1. 0 \in Nat /\ {0} \subseteq Nat
    OBVIOUS
  <2> QED
    <3>1. \A c \in Change("disable_source", SourceIds, {0}) :
            c.kind = "disable_source" /\ c.id \in SourceIds /\ c.arg \in Nat
      BY <1>2, <2>1, Zenon
    <3>2. \A c \in Change("add_source", SourceIds, Urls) :
            c.kind = "add_source" /\ c.id \in SourceIds /\ c.arg \in Nat
      BY <1>1, <1>2, Zenon
    <3> QED
      BY <3>1, <3>2 DEF SourceChanges
<1> QED
  BY <1>3, <1>4 DEF Changes

\* A row of the table, with the verdict and what it changed.
Judged(p, s) == [p EXCEPT !.status = s]
Applied(p, b, a) == [p EXCEPT !.status = "approved", !.before = b, !.after = a]

LEMMA RowsAreJudged ==
  ASSUME NEW p \in Proposal
  PROVE  /\ p.run \in Runs /\ p.change \in Changes
         /\ \A s \in Statuses : /\ Judged(p, s) \in Proposal /\ Judged(p, s).run = p.run
                                /\ Judged(p, s).change = p.change /\ Judged(p, s).status = s
         /\ \A b, a \in Nat :
              /\ Applied(p, b, a) \in Proposal /\ Applied(p, b, a).run = p.run
              /\ Applied(p, b, a).change = p.change /\ Applied(p, b, a).status = "approved"
              /\ Applied(p, b, a).before = b /\ Applied(p, b, a).after = a
  BY DEF Proposal, Statuses, Judged, Applied

\* A row of the table that is set.
LEMMA RowReplaced ==
  ASSUME NEW S, NEW s \in Seq(S), NEW i \in DOMAIN s, NEW x \in S
  PROVE  LET u == [s EXCEPT ![i] = x]
         IN  /\ u \in Seq(S) /\ DOMAIN u = DOMAIN s /\ u[i] = x
             /\ \A j \in DOMAIN s \ {i} : u[j] = s[j]
  OBVIOUS

LEMMA WeightIsNumber ==
  ASSUME RowsInv, NEW c \in TopicChanges
  PROVE  WeightOf(c.id) \in Nat /\ WeightAfter(c) \in Nat
  BY ChangeKinds, ProfileAssumption DEF RowsInv, WeightOf, WeightAfter, Topic

-----------------------------------------------------------------------------
(* What the steps do to the queue *)

\* The verdict goes to one pending row.
LEMMA ApproveMoves ==
  ASSUME QueueInv, NEW i \in DOMAIN proposals, Approve(i)
  PROVE  /\ proposals' \in Seq(Proposal) /\ DOMAIN proposals' = DOMAIN proposals
         /\ \A j \in DOMAIN proposals \ {i} : proposals'[j] = proposals[j]
         /\ proposals'[i].run = proposals[i].run /\ proposals'[i].change = proposals[i].change
         /\ proposals'[i].status = "approved" /\ proposals[i].status = "pending"
         /\ proposals[i].change \in Changes
         /\ approved' = Append(approved, i)
         /\ proposals[i].change \in TopicChanges =>
              /\ proposals'[i].before = WeightOf(proposals[i].change.id)
              /\ proposals'[i].after = WeightAfter(proposals[i].change)
         /\ UNCHANGED <<validated, inflight>>
<1>1. PICK p : p = proposals[i]
  OBVIOUS
<1>2. proposals \in Seq(Proposal) /\ p \in Proposal
  BY <1>1 DEF QueueInv, RowsInv
<1>3. p.status = "pending" /\ approved' = Append(approved, i) /\ UNCHANGED <<validated, inflight>>
  BY <1>1 DEF Approve, Pending
<1>4. PICK c : c = p.change /\ c \in Changes
  BY <1>2, RowsAreJudged
<1>5. CASE c \in TopicChanges
  <2>1. WeightOf(c.id) \in Nat /\ WeightAfter(c) \in Nat
    BY <1>5, WeightIsNumber DEF QueueInv
  <2>2. proposals' = [proposals EXCEPT ![i] = Applied(p, WeightOf(c.id), WeightAfter(c))]
    BY <1>1, <1>2, <1>4, <1>5 DEF Approve, Applied
  <2> QED
    BY <1>1, <1>2, <1>3, <1>4, <1>5, <2>1, <2>2, RowsAreJudged, RowReplaced
<1>6. CASE c \notin TopicChanges
  <2>1. proposals' = [proposals EXCEPT ![i] = Judged(p, "approved")] /\ "approved" \in Statuses
    BY <1>1, <1>2, <1>4, <1>6 DEF Approve, Judged, Statuses
  <2> QED
    BY <1>1, <1>2, <1>3, <1>4, <1>6, <2>1, RowsAreJudged, RowReplaced
<1> QED
  BY <1>5, <1>6

LEMMA RejectMoves ==
  ASSUME QueueInv, NEW i \in DOMAIN proposals, Reject(i)
  PROVE  /\ proposals' \in Seq(Proposal) /\ DOMAIN proposals' = DOMAIN proposals
         /\ \A j \in DOMAIN proposals \ {i} : proposals'[j] = proposals[j]
         /\ proposals'[i].run = proposals[i].run /\ proposals'[i].change = proposals[i].change
         /\ proposals[i].status = "pending"
         /\ UNCHANGED <<topics, sources, validated, inflight, approved>>
<1>1. PICK p : p = proposals[i]
  OBVIOUS
<1>2. proposals \in Seq(Proposal) /\ p \in Proposal
  BY <1>1 DEF QueueInv, RowsInv
<1>3. p.status = "pending" /\ UNCHANGED <<topics, sources, validated, inflight, approved>>
  BY <1>1 DEF Reject, Pending
<1>4. proposals' = [proposals EXCEPT ![i] = Judged(p, "rejected")] /\ "rejected" \in Statuses
  BY <1>1, <1>2 DEF Reject, Judged, Statuses
<1> QED
  BY <1>1, <1>2, <1>3, <1>4, RowsAreJudged, RowReplaced

LEMMA ProposeMoves ==
  ASSUME QueueInv, NEW r \in Runs, NEW c \in Changes, Propose(r, c)
  PROVE  /\ \/ proposals' = proposals
            \/ \E p \in Proposal : /\ proposals' = Append(proposals, p)
                                   /\ p.run = r /\ p.change = c /\ UrlKnown(r, c)
         /\ proposals' \in Seq(Proposal)
         /\ UNCHANGED <<topics, sources, validated, approved>>
<1> DEFINE p == [run |-> r, change |-> c, status |-> "pending", before |-> 0, after |-> 0]
<1>1. p \in Proposal /\ p.run = r /\ p.change = c
  BY DEF Proposal, Statuses
<1>2. \/ proposals' = proposals
      \/ proposals' = Append(proposals, p) /\ UrlKnown(r, c)
  BY DEF Propose
<1> HIDE DEF p
<1>3. proposals \in Seq(Proposal)
  BY DEF QueueInv, RowsInv
<1>4. UNCHANGED <<topics, sources, validated, approved>>
  BY DEF Propose
<1> QED
  BY <1>1, <1>2, <1>3, <1>4, AppendProperties

Mirror == EditorRun \/ ScheduledCuratorRun

\* A mirror leaves what the queue made, which is not a seed.
LEMMA MirrorMoves ==
  ASSUME OriginInv, RowsInv, Mirror
  PROVE  /\ \A t \in TopicIds \ DOMAIN TopicsToml :
              /\ t \in DOMAIN topics <=> t \in DOMAIN topics'
              /\ t \in DOMAIN topics => topics'[t] = topics[t]
         /\ \A t \in DOMAIN topics' : topics'[t] \in Topic
         /\ \A t \in DOMAIN topics' \ DOMAIN TopicsToml : t \in DOMAIN topics /\ topics'[t] = topics[t]
         /\ UNCHANGED <<sources, proposals, validated, inflight, approved>>
<1>1. ASSUME NEW list, MirrorTopics(list), DOMAIN list \subseteq DOMAIN TopicsToml,
             \A t \in DOMAIN list : list[t] \in Nat
      PROVE  /\ \A t \in TopicIds \ DOMAIN TopicsToml :
                  /\ t \in DOMAIN topics <=> t \in DOMAIN topics'
                  /\ t \in DOMAIN topics => topics'[t] = topics[t]
             /\ \A t \in DOMAIN topics' : topics'[t] \in Topic
             /\ \A t \in DOMAIN topics' \ DOMAIN TopicsToml : t \in DOMAIN topics /\ topics'[t] = topics[t]
  <2>1. /\ DOMAIN topics' = DOMAIN list \cup {u \in DOMAIN topics : ~Unlisted(u, list)}
        /\ \A t \in DOMAIN topics' :
             topics'[t] = IF t \in DOMAIN list THEN [weight |-> list[t], origin |-> "seed"] ELSE topics[t]
    BY <1>1 DEF MirrorTopics
  <2>2. \A t \in DOMAIN list : [weight |-> list[t], origin |-> "seed"] \in Topic
    BY <1>1 DEF Topic, Origins
  <2>3. \A t \in DOMAIN topics \ DOMAIN TopicsToml : ~Unlisted(t, list)
    BY DEF OriginInv, Unlisted
  <2> QED
    BY <1>1, <2>1, <2>2, <2>3 DEF RowsInv
<1>2. DOMAIN <<>> = {}
  OBVIOUS
<1> QED
  BY <1>1, <1>2, ProfileAssumption DEF Mirror, EditorRun, ScheduledCuratorRun, MirrorTopics

-----------------------------------------------------------------------------
(* The queue *)

LEMMA StepQueue == QueueInv /\ OriginInv /\ [Next]_vars => QueueInv'
<1> SUFFICES ASSUME QueueInv, OriginInv, [Next]_vars PROVE QueueInv'
  OBVIOUS
<1>0. proposals \in Seq(Proposal) /\ DOMAIN proposals = 1..Len(proposals) /\ Len(proposals) \in Nat
  BY LenProperties DEF QueueInv, RowsInv
<1>1. ASSUME NEW r \in Runs, NEW u \in Urls, ValidateFeed(r, u) PROVE QueueInv'
  <2>1. /\ validated' \in [Runs -> SUBSET Urls]
        /\ \A s \in Runs : validated[s] \subseteq validated'[s]
    BY <1>1 DEF ValidateFeed, QueueInv, ValidatedInv
  <2>2. UNCHANGED <<topics, proposals, inflight, approved>>
    BY <1>1 DEF ValidateFeed
  <2>3. \A i \in DOMAIN proposals : proposals[i].run \in Runs
    BY <1>0, RowsAreJudged
  <2> QED
    BY <2>1, <2>2, <2>3 DEF QueueInv, RowsInv, ApprovedInv, ValidatedInv
<1>2. ASSUME NEW r \in Runs, NEW c \in Changes, CheckTarget(r, c) PROVE QueueInv'
  BY <1>2 DEF CheckTarget, QueueInv, RowsInv, ApprovedInv, ValidatedInv
<1>3. ASSUME NEW r \in Runs, NEW c \in Changes, Propose(r, c) PROVE QueueInv'
  <2>1. UNCHANGED <<topics, validated, approved>> /\ proposals' \in Seq(Proposal)
        /\ inflight' \subseteq inflight
    BY <1>3, ProposeMoves DEF Propose
  <2>2. CASE proposals' = proposals
    BY <2>1, <2>2 DEF QueueInv, RowsInv, ApprovedInv, ValidatedInv
  <2>3. ASSUME NEW p \in Proposal, proposals' = Append(proposals, p),
               p.run = r, p.change = c, UrlKnown(r, c)
        PROVE  QueueInv'
    <3>1. /\ DOMAIN proposals' = DOMAIN proposals \cup {Len(proposals) + 1}
          /\ \A i \in DOMAIN proposals : proposals'[i] = proposals[i]
          /\ proposals'[Len(proposals) + 1] = p
      BY <1>0, <2>3, AppendProperties, LenProperties
    <3>2. p.change.kind = "add_source" => p.change.arg \in validated[p.run]
      BY <2>3 DEF UrlKnown
    <3> QED
      BY <2>1, <3>1, <3>2 DEF QueueInv, RowsInv, ApprovedInv, ValidatedInv
  <2> QED
    BY <1>3, <2>2, <2>3, ProposeMoves
<1>4. ASSUME NEW i \in DOMAIN proposals, Approve(i) PROVE QueueInv'
  <2>1. /\ approved \in Seq(Nat) /\ i \in Nat /\ approved' = Append(approved, i)
        /\ \A j \in DOMAIN proposals : /\ proposals'[j].run = proposals[j].run
                                       /\ proposals'[j].change = proposals[j].change
        /\ \A j \in DOMAIN proposals \ {i} : proposals'[j] = proposals[j]
        /\ DOMAIN proposals' = DOMAIN proposals /\ proposals' \in Seq(Proposal)
        /\ proposals'[i].status = "approved"
        /\ validated' = validated /\ inflight' = inflight
    <3>1. approved \in Seq(Nat) /\ i \in Nat
      BY <1>0 DEF QueueInv, ApprovedInv
    <3>2. /\ approved' = Append(approved, i)
          /\ \A j \in DOMAIN proposals \ {i} : proposals'[j] = proposals[j]
          /\ proposals'[i].run = proposals[i].run /\ proposals'[i].change = proposals[i].change
          /\ DOMAIN proposals' = DOMAIN proposals /\ proposals' \in Seq(Proposal)
          /\ proposals'[i].status = "approved"
          /\ validated' = validated /\ inflight' = inflight
      BY <1>4, ApproveMoves
    <3>3. \A j \in DOMAIN proposals : /\ proposals'[j].run = proposals[j].run
                                      /\ proposals'[j].change = proposals[j].change
      BY <3>2
    <3> QED
      BY <3>1, <3>2, <3>3
  <2>2. ApprovedInv'
    <3>1. /\ approved' \in Seq(Nat) /\ Len(approved) \in Nat /\ DOMAIN approved = 1..Len(approved)
          /\ DOMAIN approved' = DOMAIN approved \cup {Len(approved) + 1}
          /\ \A n \in DOMAIN approved : approved'[n] = approved[n]
          /\ approved'[Len(approved) + 1] = i
      BY <2>1, AppendProperties, LenProperties
    <3>2. \A n \in DOMAIN approved : /\ approved[n] \in DOMAIN proposals
                                     /\ proposals'[approved[n]].status = "approved"
      BY <2>1 DEF QueueInv, ApprovedInv
    <3> QED
      BY <2>1, <3>1, <3>2 DEF ApprovedInv
  <2>3. ValidatedInv'
    BY <2>1 DEF QueueInv, ValidatedInv
  <2>4. \A t \in DOMAIN topics' : topics'[t] \in Topic
    <3>1. CASE proposals[i].change \in TopicChanges
      <4>1. PICK c \in TopicChanges : c = proposals[i].change
        BY <3>1
      <4>2. WeightAfter(c) \in Nat
        BY <4>1, WeightIsNumber DEF QueueInv
      <4>3. topics' = IF c.kind = "add_topic" \/ c.id \in DOMAIN topics
                      THEN Put(topics, c.id, [weight |-> WeightAfter(c), origin |-> OriginAfter(c)])
                      ELSE topics
        BY <1>4, <4>1 DEF Approve, ChangeTopic
      <4>4. c.kind = "add_topic" \/ c.id \in DOMAIN topics => OriginAfter(c) \in Origins
        BY <4>1, ChangeKinds DEF OriginAfter, Origins, Topic, QueueInv, RowsInv
      <4>5. c.kind = "add_topic" \/ c.id \in DOMAIN topics
              => [weight |-> WeightAfter(c), origin |-> OriginAfter(c)] \in Topic
        BY <4>2, <4>4 DEF Topic
      <4> QED
        BY <4>3, <4>5 DEF Put, QueueInv, RowsInv
    <3>2. CASE proposals[i].change \notin TopicChanges
      BY <1>4, <3>2 DEF Approve, QueueInv, RowsInv
    <3> QED
      BY <3>1, <3>2
  <2> QED
    BY <2>1, <2>2, <2>3, <2>4 DEF QueueInv, RowsInv
<1>5. ASSUME NEW i \in DOMAIN proposals, Reject(i) PROVE QueueInv'
  <2>1. /\ \A j \in DOMAIN proposals : /\ proposals'[j].run = proposals[j].run
                                       /\ proposals'[j].change = proposals[j].change
        /\ \A j \in DOMAIN proposals \ {i} : proposals'[j] = proposals[j]
        /\ DOMAIN proposals' = DOMAIN proposals /\ proposals' \in Seq(Proposal)
        /\ proposals[i].status = "pending"
        /\ UNCHANGED <<topics, validated, inflight, approved>>
    BY <1>5, RejectMoves
  <2>2. \A n \in DOMAIN approved : approved[n] # i
    BY <2>1 DEF QueueInv, ApprovedInv
  <2> QED
    BY <2>1, <2>2 DEF QueueInv, RowsInv, ApprovedInv, ValidatedInv
<1>6. CASE Mirror
  BY <1>6, MirrorMoves DEF QueueInv, RowsInv, ApprovedInv, ValidatedInv
<1>7. CASE Ingest
  BY <1>7 DEF Ingest, QueueInv, RowsInv, ApprovedInv, ValidatedInv
<1>8. CASE UNCHANGED vars
  BY <1>8 DEF vars, QueueInv, RowsInv, ApprovedInv, ValidatedInv
<1> QED
  BY <1>1, <1>2, <1>3, <1>4, <1>5, <1>6, <1>7, <1>8 DEF Next, Decide, Mirror

-----------------------------------------------------------------------------
(* The history of a row *)

\* Between two approvals the history stays as it is.
Unapproved ==
  /\ approved' = approved
  /\ \A n \in DOMAIN approved : proposals'[approved[n]] = proposals[approved[n]]

LEMMA HistoryStays ==
  ASSUME Unapproved, NEW changes, NEW id
  PROVE  Approvals(changes, id)' = Approvals(changes, id)
  BY DEF Unapproved, Approvals

\* An approval is the last of its row, and of no other.
LEMMA HistoryGrows ==
  ASSUME QueueInv, NEW i \in DOMAIN proposals, Approve(i), NEW changes, NEW id
  PROVE  /\ Approvals(changes, id)' =
              IF proposals[i].change \in changes /\ proposals[i].change.id = id
                THEN Approvals(changes, id) \cup {Len(approved) + 1}
                ELSE Approvals(changes, id)
         /\ Approvals(changes, id) \subseteq 1..Len(approved) /\ Len(approved) \in Nat
         /\ approved'[Len(approved) + 1] = i
         /\ \A n \in DOMAIN approved : /\ approved'[n] = approved[n]
                                       /\ proposals'[approved'[n]] = proposals[approved[n]]
<1>1. /\ approved \in Seq(Nat) /\ i \in Nat
      /\ \A n \in DOMAIN approved : approved[n] \in DOMAIN proposals /\ approved[n] # i
  <2>1. DOMAIN proposals \subseteq Nat
    BY LenProperties DEF QueueInv, RowsInv
  <2>2. proposals[i].status = "pending"
    BY ApproveMoves
  <2> QED
    BY <2>1, <2>2 DEF QueueInv, ApprovedInv
<1>2. /\ approved' = Append(approved, i) /\ proposals'[i].change = proposals[i].change
      /\ \A j \in DOMAIN proposals \ {i} : proposals'[j] = proposals[j]
  BY ApproveMoves
<1>3. /\ Len(approved) \in Nat /\ DOMAIN approved = 1..Len(approved)
      /\ DOMAIN approved' = DOMAIN approved \cup {Len(approved) + 1}
      /\ \A n \in DOMAIN approved : approved'[n] = approved[n]
      /\ approved'[Len(approved) + 1] = i
  BY <1>1, <1>2, AppendProperties, LenProperties
<1>4. \A n \in DOMAIN approved : proposals'[approved'[n]] = proposals[approved[n]]
  BY <1>1, <1>2, <1>3
<1>5. Approvals(changes, id)' =
        {n \in DOMAIN approved' : /\ proposals'[approved'[n]].change \in changes
                                  /\ proposals'[approved'[n]].change.id = id}
  BY DEF Approvals
<1>6. Approvals(changes, id) =
        {n \in DOMAIN approved : /\ proposals[approved[n]].change \in changes
                                 /\ proposals[approved[n]].change.id = id}
  BY DEF Approvals
<1> QED
  BY <1>2, <1>3, <1>4, <1>5, <1>6

\* The places b are a with a new one after them.
Grows(L, a, N, b) == L \in Nat /\ a \subseteq 1..L /\ N = L + 1 /\ b = a \cup {N}

\* What a new place changes in the order of the places.
LEMMA NewPlace ==
  ASSUME NEW L, NEW a, NEW N, NEW b, Grows(L, a, N, b)
  PROVE  /\ \A n \in a : ~IsLast(n, b) /\ (IsFirst(n, b) => IsFirst(n, a))
         /\ IsFirst(N, b) => a = {}
         /\ \A m, n \in a : Adjacent(m, n, b) => Adjacent(m, n, a)
         /\ \A n \in b : ~Adjacent(N, n, b)
         /\ \A m \in a : Adjacent(m, N, b) => IsLast(m, a)
<1>1. L \in Nat /\ N = L + 1 /\ b = a \cup {N} /\ \A n \in a : n \in Nat /\ n <= L
  BY DEF Grows
<1> QED
  BY <1>1 DEF IsLast, IsFirst, Adjacent

\* A step that approves nothing and leaves what the queue made.
LEMMA TopicsStay ==
  ASSUME TopicsFollowTheQueue, Unapproved,
         \A t \in TopicIds \ DOMAIN TopicsToml : /\ t \in DOMAIN topics <=> t \in DOMAIN topics'
                                                 /\ t \in DOMAIN topics => topics'[t] = topics[t]
  PROVE  TopicsFollowTheQueue'
<1> SUFFICES ASSUME NEW t \in TopicIds \ DOMAIN TopicsToml
             PROVE  LET a == Approvals(TopicChanges, t)
                        before(n) == proposals[approved[n]].before
                        after(n) == proposals[approved[n]].after
                    IN  (/\ t \in DOMAIN topics <=> a # {}
                         /\ \A n \in a : /\ IsFirst(n, a) => before(n) = 0
                                         /\ IsLast(n, a) => topics[t].weight = after(n)
                         /\ \A m, n \in a : Adjacent(m, n, a) => before(n) = after(m))'
  BY DEF TopicsFollowTheQueue
<1>1. Approvals(TopicChanges, t)' = Approvals(TopicChanges, t)
  BY HistoryStays
<1>2. Approvals(TopicChanges, t) \subseteq DOMAIN approved
  BY DEF Approvals
<1> QED
  BY <1>1, <1>2 DEF TopicsFollowTheQueue, Unapproved, IsFirst, IsLast, Adjacent

LEMMA SourcesStay ==
  ASSUME SourcesFollowTheQueue, Unapproved, ValidatedInv, QueueInv,
         \A r \in Runs : validated[r] \subseteq validated'[r],
         \A s \in SourceIds \ DOMAIN FeedsToml : /\ s \in DOMAIN sources <=> s \in DOMAIN sources'
                                                 /\ s \in DOMAIN sources => sources'[s] = sources[s]
  PROVE  SourcesFollowTheQueue'
<1> SUFFICES ASSUME NEW s \in SourceIds \ DOMAIN FeedsToml
             PROVE  LET a == Approvals(SourceChanges, s)
                        proposal(n) == proposals[approved[n]]
                    IN  (/\ s \in DOMAIN sources <=> a # {}
                         /\ \A n \in a :
                              LET c == proposal(n).change IN
                              /\ IsLast(n, a) => sources[s] = (c.kind = "add_source")
                              /\ IsFirst(n, a) => /\ c.kind = "add_source"
                                                  /\ c.arg \in validated[proposal(n).run])'
  BY DEF SourcesFollowTheQueue
<1>1. Approvals(SourceChanges, s)' = Approvals(SourceChanges, s)
  BY HistoryStays
<1>2. Approvals(SourceChanges, s) \subseteq DOMAIN approved
  BY DEF Approvals
<1>3. \A n \in DOMAIN approved : proposals[approved[n]].run \in Runs
  BY RowsAreJudged DEF QueueInv, RowsInv, ApprovedInv
<1> QED
  BY <1>1, <1>2, <1>3 DEF SourcesFollowTheQueue, Unapproved, IsFirst, IsLast

\* Every step but an approval leaves the history as it was.
LEMMA OthersApproveNothing ==
  ASSUME QueueInv, OriginInv, [Next]_vars, \A i \in DOMAIN proposals : ~Approve(i)
  PROVE  /\ Unapproved
         /\ \A t \in TopicIds \ DOMAIN TopicsToml : /\ t \in DOMAIN topics <=> t \in DOMAIN topics'
                                                    /\ t \in DOMAIN topics => topics'[t] = topics[t]
         /\ \A t \in DOMAIN topics' \ DOMAIN TopicsToml : t \in DOMAIN topics /\ topics'[t] = topics[t]
         /\ \A s \in SourceIds \ DOMAIN FeedsToml : /\ s \in DOMAIN sources <=> s \in DOMAIN sources'
                                                    /\ s \in DOMAIN sources => sources'[s] = sources[s]
         /\ \A r \in Runs : validated[r] \subseteq validated'[r]
<1> DEFINE TopicsSame ==
             /\ \A t \in TopicIds \ DOMAIN TopicsToml : /\ t \in DOMAIN topics <=> t \in DOMAIN topics'
                                                        /\ t \in DOMAIN topics => topics'[t] = topics[t]
             /\ \A t \in DOMAIN topics' \ DOMAIN TopicsToml : t \in DOMAIN topics /\ topics'[t] = topics[t]
           SourcesSame ==
             \A s \in SourceIds \ DOMAIN FeedsToml : /\ s \in DOMAIN sources <=> s \in DOMAIN sources'
                                                     /\ s \in DOMAIN sources => sources'[s] = sources[s]
           ValidatedKept == \A r \in Runs : validated[r] \subseteq validated'[r]
<1>0. topics' = topics => TopicsSame
  OBVIOUS
<1>1. sources' = sources => SourcesSame
  OBVIOUS
<1>2. validated' = validated => ValidatedKept
  OBVIOUS
<1>3. proposals' = proposals /\ approved' = approved => Unapproved
  BY DEF Unapproved
<1> HIDE DEF TopicsSame, SourcesSame, ValidatedKept
<1> SUFFICES Unapproved /\ TopicsSame /\ SourcesSame /\ ValidatedKept
  BY DEF TopicsSame, SourcesSame, ValidatedKept
<1>4. ASSUME NEW r \in Runs, NEW u \in Urls, ValidateFeed(r, u)
      PROVE  Unapproved /\ TopicsSame /\ SourcesSame /\ ValidatedKept
  <2>1. ValidatedKept
    BY <1>4 DEF ValidateFeed, QueueInv, ValidatedInv, ValidatedKept
  <2> QED
    BY <1>0, <1>1, <1>3, <1>4, <2>1 DEF ValidateFeed
<1>5. ASSUME NEW r \in Runs, NEW c \in Changes, CheckTarget(r, c)
      PROVE  Unapproved /\ TopicsSame /\ SourcesSame /\ ValidatedKept
  BY <1>0, <1>1, <1>2, <1>3, <1>5 DEF CheckTarget
<1>6. ASSUME NEW r \in Runs, NEW c \in Changes, Propose(r, c)
      PROVE  Unapproved /\ TopicsSame /\ SourcesSame /\ ValidatedKept
  <2>1. UNCHANGED <<topics, sources, validated, approved>>
    BY <1>6, ProposeMoves
  <2>2. \A i \in DOMAIN proposals : proposals'[i] = proposals[i]
    <3>1. proposals \in Seq(Proposal)
      BY DEF QueueInv, RowsInv
    <3>2. CASE proposals' = proposals
      BY <3>2
    <3>3. ASSUME NEW p \in Proposal, proposals' = Append(proposals, p)
          PROVE  \A i \in DOMAIN proposals : proposals'[i] = proposals[i]
      BY <3>1, <3>3, AppendProperties, LenProperties
    <3> QED
      BY <1>6, <3>2, <3>3, ProposeMoves
  <2>3. Unapproved
    BY <2>1, <2>2 DEF Unapproved, QueueInv, ApprovedInv
  <2> QED
    BY <1>0, <1>1, <1>2, <2>1, <2>3
<1>7. ASSUME NEW i \in DOMAIN proposals, Reject(i)
      PROVE  Unapproved /\ TopicsSame /\ SourcesSame /\ ValidatedKept
  <2>1. UNCHANGED <<topics, sources, validated, approved>>
    BY <1>7, RejectMoves
  <2>2. \A n \in DOMAIN approved : approved[n] \in DOMAIN proposals \ {i}
    BY <1>7, RejectMoves DEF QueueInv, ApprovedInv
  <2>3. Unapproved
    BY <1>7, <2>1, <2>2, RejectMoves DEF Unapproved
  <2> QED
    BY <1>0, <1>1, <1>2, <2>1, <2>3
<1>8. CASE Mirror
  <2>1. TopicsSame /\ UNCHANGED <<sources, proposals, validated, inflight, approved>>
    BY <1>8, MirrorMoves DEF QueueInv, TopicsSame
  <2> QED
    BY <1>1, <1>2, <1>3, <2>1
<1>9. CASE Ingest
  <2>1. SourcesSame
    BY <1>9 DEF Ingest, SourcesSame
  <2> QED
    BY <1>0, <1>2, <1>3, <1>9, <2>1 DEF Ingest
<1>10. CASE UNCHANGED vars
  BY <1>0, <1>1, <1>2, <1>3, <1>10 DEF vars
<1> QED
  BY <1>4, <1>5, <1>6, <1>7, <1>8, <1>9, <1>10 DEF Next, Decide, Mirror

\* An approval of a topic's change finds the weight the one before left.
LEMMA ApproveTopics ==
  ASSUME IInv, NEW i \in DOMAIN proposals, Approve(i)
  PROVE  TopicsFollowTheQueue' /\ OriginInv'
<1>1. PICK c : c = proposals[i].change /\ c \in Changes /\ TargetFits(c)
  BY ApproveMoves DEF IInv, Approve
<1>2. CASE c \notin TopicChanges
  <2>1. topics' = topics
    BY <1>1, <1>2 DEF Approve
  <2>2. OriginInv'
    BY <2>1 DEF IInv, OriginInv
  <2>3. ASSUME NEW t \in TopicIds
        PROVE  /\ Approvals(TopicChanges, t)' = Approvals(TopicChanges, t)
               /\ \A n \in Approvals(TopicChanges, t) : proposals'[approved'[n]] = proposals[approved[n]]
    <3>1. Approvals(TopicChanges, t)' = Approvals(TopicChanges, t)
      BY <1>1, <1>2, HistoryGrows DEF IInv
    <3>2. Approvals(TopicChanges, t) \subseteq DOMAIN approved
      BY DEF Approvals
    <3>3. \A n \in DOMAIN approved : proposals'[approved'[n]] = proposals[approved[n]]
      BY HistoryGrows DEF IInv
    <3> QED
      BY <3>1, <3>2, <3>3
  <2> QED
    BY <2>1, <2>2, <2>3 DEF IInv, TopicsFollowTheQueue, IsFirst, IsLast, Adjacent
<1>3. CASE c \in TopicChanges
  <2>1. /\ c.kind \in {"topic_weight", "add_topic", "promote_explore_topic"} /\ c.id \in TopicIds
        /\ c.kind = "add_topic" <=> c.id \notin DOMAIN topics
    BY <1>1, <1>3, ChangeKinds DEF TargetFits
  <2>2. /\ DOMAIN topics' = DOMAIN topics \cup {c.id}
        /\ topics'[c.id].weight = WeightAfter(c) /\ topics'[c.id].origin = OriginAfter(c)
        /\ \A t \in DOMAIN topics \ {c.id} : topics'[t] = topics[t]
    BY <1>1, <1>3, <2>1 DEF Approve, ChangeTopic, Put
  <2>3. OriginInv'
    BY <2>1, <2>2 DEF IInv, OriginInv, OriginAfter
  <2>4. ASSUME NEW t \in TopicIds \ DOMAIN TopicsToml
        PROVE  LET a == Approvals(TopicChanges, t)
                   before(n) == proposals[approved[n]].before
                   after(n) == proposals[approved[n]].after
               IN  (/\ t \in DOMAIN topics <=> a # {}
                    /\ \A n \in a : /\ IsFirst(n, a) => before(n) = 0
                                    /\ IsLast(n, a) => topics[t].weight = after(n)
                    /\ \A m, n \in a : Adjacent(m, n, a) => before(n) = after(m))'
    <3>1. PICK a, b, N : /\ a = Approvals(TopicChanges, t) /\ b = Approvals(TopicChanges, t)'
                         /\ N = Len(approved) + 1
      OBVIOUS
    <3>2. /\ t \in DOMAIN topics <=> a # {}
          /\ \A n \in a : /\ IsFirst(n, a) => proposals[approved[n]].before = 0
                          /\ IsLast(n, a) => topics[t].weight = proposals[approved[n]].after
          /\ \A m, n \in a : Adjacent(m, n, a) =>
               proposals[approved[n]].before = proposals[approved[m]].after
      BY <3>1 DEF IInv, TopicsFollowTheQueue
    <3>3. \A n \in a : proposals'[approved'[n]] = proposals[approved[n]]
      <4>1. a \subseteq DOMAIN approved
        BY <3>1 DEF Approvals
      <4> QED
        BY <4>1, HistoryGrows DEF IInv
    <3>4. SUFFICES /\ t \in DOMAIN topics' <=> b # {}
                   /\ \A n \in b :
                        /\ IsFirst(n, b) => proposals'[approved'[n]].before = 0
                        /\ IsLast(n, b) => topics'[t].weight = proposals'[approved'[n]].after
                   /\ \A m, n \in b : Adjacent(m, n, b) =>
                        proposals'[approved'[n]].before = proposals'[approved'[m]].after
      BY <3>1 DEF IsFirst, IsLast, Adjacent
    <3>5. CASE t # c.id
      <4>1. b = a
        BY <1>1, <3>1, <3>5, HistoryGrows DEF IInv
      <4> QED
        BY <2>2, <3>2, <3>3, <3>5, <4>1
    <3>6. CASE t = c.id
      <4>1. b = a \cup {N} /\ a \in SUBSET (1..Len(approved)) /\ Len(approved) \in Nat
            /\ approved'[N] = i
        BY <1>1, <1>3, <3>1, <3>6, HistoryGrows DEF IInv
      <4>2. /\ proposals'[approved'[N]].before = WeightOf(t)
            /\ proposals'[approved'[N]].after = WeightAfter(c)
        BY <1>1, <1>3, <3>6, <4>1, ApproveMoves DEF IInv
      <4>3. /\ \A n \in a : ~IsLast(n, b) /\ (IsFirst(n, b) => IsFirst(n, a))
            /\ IsFirst(N, b) => a = {}
            /\ \A m, n \in a : Adjacent(m, n, b) => Adjacent(m, n, a)
            /\ \A n \in b : ~Adjacent(N, n, b)
            /\ \A m \in a : Adjacent(m, N, b) => IsLast(m, a)
        <5>1. Grows(Len(approved), a, N, b)
          BY <3>1, <4>1 DEF Grows
        <5> QED
          BY <5>1, NewPlace
      <4>4. t \in DOMAIN topics' /\ topics'[t].weight = WeightAfter(c)
        BY <2>2, <3>6
      <4>5. IsFirst(N, b) => WeightOf(t) = 0
        BY <3>2, <4>3 DEF WeightOf
      <4>6. \A m \in a : Adjacent(m, N, b) => WeightOf(t) = proposals[approved[m]].after
        BY <3>2, <4>3 DEF WeightOf
      <4>7. \A n \in b : /\ IsFirst(n, b) => proposals'[approved'[n]].before = 0
                         /\ IsLast(n, b) => topics'[t].weight = proposals'[approved'[n]].after
        BY <3>2, <3>3, <4>1, <4>2, <4>3, <4>4, <4>5
      <4>8. \A m, n \in b : Adjacent(m, n, b) =>
              proposals'[approved'[n]].before = proposals'[approved'[m]].after
        <5> TAKE m, n \in b
        <5>1. CASE m = N
          BY <4>3, <5>1
        <5>2. CASE m \in a /\ n \in a
          BY <3>2, <3>3, <4>3, <5>2
        <5>3. CASE m \in a /\ n = N
          BY <3>3, <4>2, <4>6, <5>3
        <5> QED
          BY <4>1, <5>1, <5>2, <5>3
      <4> QED
        BY <4>1, <4>4, <4>7, <4>8
    <3> QED
      BY <3>5, <3>6
  <2> QED
    BY <2>3, <2>4 DEF TopicsFollowTheQueue
<1> QED
  BY <1>2, <1>3

\* An approval of a source's change finds the row as the one before left it.
LEMMA ApproveSources ==
  ASSUME IInv, NEW i \in DOMAIN proposals, Approve(i)
  PROVE  SourcesFollowTheQueue'
<1>1. PICK c : c = proposals[i].change /\ c \in Changes /\ TargetFits(c)
  BY ApproveMoves DEF IInv, Approve
<1>2. validated' = validated /\ proposals'[i].run = proposals[i].run /\ proposals'[i].change = c
  BY <1>1, ApproveMoves DEF IInv
<1> SUFFICES ASSUME NEW s \in SourceIds \ DOMAIN FeedsToml
             PROVE  LET a == Approvals(SourceChanges, s)
                        proposal(n) == proposals[approved[n]]
                    IN  (/\ s \in DOMAIN sources <=> a # {}
                         /\ \A n \in a :
                              LET d == proposal(n).change IN
                              /\ IsLast(n, a) => sources[s] = (d.kind = "add_source")
                              /\ IsFirst(n, a) => /\ d.kind = "add_source"
                                                  /\ d.arg \in validated[proposal(n).run])'
  BY DEF SourcesFollowTheQueue
<1>3. PICK a, b, N : /\ a = Approvals(SourceChanges, s) /\ b = Approvals(SourceChanges, s)'
                     /\ N = Len(approved) + 1
  OBVIOUS
<1>4. /\ s \in DOMAIN sources <=> a # {}
      /\ \A n \in a : LET p == proposals[approved[n]] IN
           /\ IsLast(n, a) => sources[s] = (p.change.kind = "add_source")
           /\ IsFirst(n, a) => p.change.kind = "add_source" /\ p.change.arg \in validated[p.run]
  BY <1>3 DEF IInv, SourcesFollowTheQueue
<1>5. \A n \in a : proposals'[approved'[n]] = proposals[approved[n]]
  <2>1. a \subseteq DOMAIN approved
    BY <1>3 DEF Approvals
  <2> QED
    BY <2>1, HistoryGrows DEF IInv
<1>6. SUFFICES /\ s \in DOMAIN sources' <=> b # {}
               /\ \A n \in b : LET p == proposals'[approved'[n]] IN
                    /\ IsLast(n, b) => sources'[s] = (p.change.kind = "add_source")
                    /\ IsFirst(n, b) => p.change.kind = "add_source" /\ p.change.arg \in validated[p.run]
  BY <1>2, <1>3 DEF IsFirst, IsLast
<1>7. CASE c \notin SourceChanges \/ s # c.id
  <2>1. b = a
    BY <1>1, <1>3, <1>7, HistoryGrows DEF IInv
  <2>2. (s \in DOMAIN sources' <=> s \in DOMAIN sources) /\ (s \in DOMAIN sources => sources'[s] = sources[s])
    BY <1>1, <1>7, ChangeKinds DEF Approve, ChangeSource, Put
  <2> QED
    BY <1>4, <1>5, <2>1, <2>2
<1>8. CASE c \in SourceChanges /\ s = c.id
  <2>1. b = a \cup {N} /\ a \in SUBSET (1..Len(approved)) /\ Len(approved) \in Nat
        /\ approved'[N] = i
    BY <1>1, <1>3, <1>8, HistoryGrows DEF IInv
  <2>2. /\ \A n \in a : ~IsLast(n, b) /\ (IsFirst(n, b) => IsFirst(n, a))
        /\ IsFirst(N, b) => a = {}
    <3>1. Grows(Len(approved), a, N, b)
      BY <1>3, <2>1 DEF Grows
    <3> QED
      BY <3>1, NewPlace
  <2>3. s \in DOMAIN sources' /\ sources'[s] = (c.kind = "add_source")
    BY <1>1, <1>8, ChangeKinds DEF Approve, ChangeSource, Put
  <2>4. IsFirst(N, b) => c.kind = "add_source"
    BY <1>1, <1>4, <1>8, <2>2, ChangeKinds DEF TargetFits
  <2>5. c.kind = "add_source" => c.arg \in validated[proposals[i].run]
    BY <1>1 DEF IInv, QueueInv, ValidatedInv
  <2> QED
    BY <1>2, <1>4, <1>5, <2>1, <2>2, <2>3, <2>4, <2>5
<1> QED
  BY <1>7, <1>8

LEMMA InitProfile == Init => IInv
<1> SUFFICES ASSUME Init PROVE IInv
  OBVIOUS
<1>1. /\ topics = <<>> /\ sources = <<>> /\ proposals = <<>> /\ approved = <<>>
      /\ inflight = {} /\ validated = [r \in Runs |-> {}]
  BY DEF Init
<1>2. DOMAIN topics = {} /\ DOMAIN sources = {} /\ DOMAIN proposals = {} /\ DOMAIN approved = {}
  BY <1>1
<1>3. QueueInv /\ OriginInv
  BY <1>1, <1>2 DEF QueueInv, RowsInv, ApprovedInv, ValidatedInv, OriginInv
<1>4. \A changes, id : Approvals(changes, id) = {}
  BY <1>2 DEF Approvals
<1> QED
  BY <1>2, <1>3, <1>4 DEF IInv, TopicsFollowTheQueue, SourcesFollowTheQueue

LEMMA StepProfile == IInv /\ [Next]_vars => IInv'
<1> SUFFICES ASSUME IInv, [Next]_vars PROVE IInv'
  OBVIOUS
<1>1. QueueInv'
  BY StepQueue DEF IInv
<1>2. ASSUME NEW i \in DOMAIN proposals, Approve(i) PROVE IInv'
  BY <1>1, <1>2, ApproveTopics, ApproveSources DEF IInv
<1>3. ASSUME \A i \in DOMAIN proposals : ~Approve(i) PROVE IInv'
  <2>1. OriginInv'
    BY <1>3, OthersApproveNothing DEF IInv, OriginInv
  <2>2. TopicsFollowTheQueue'
    BY <1>3, OthersApproveNothing, TopicsStay DEF IInv
  <2>3. SourcesFollowTheQueue'
    BY <1>3, OthersApproveNothing, SourcesStay DEF IInv, QueueInv
  <2> QED
    BY <1>1, <2>1, <2>2, <2>3 DEF IInv
<1> QED
  BY <1>2, <1>3

\* No mirror, refusal or second proposal comes between the approvals of a topic that
\* no file lists: it exists from the first one on, and each found the weight the one
\* before had left (core/feedback.rs apply, db/repo.rs sync_topics).
THEOREM TopicsFollow == Spec => []TopicsFollowTheQueue
<1>1. IInv => TopicsFollowTheQueue
  BY DEF IInv
<1> QED
  BY <1>1, InitProfile, StepProfile, PTL DEF Spec

\* A source that no file lists is there and enabled as the last approval said, and
\* its feed was validated by the very run that proposed it.
THEOREM SourcesFollow == Spec => []SourcesFollowTheQueue
<1>1. IInv => SourcesFollowTheQueue
  BY DEF IInv
<1> QED
  BY <1>1, InitProfile, StepProfile, PTL DEF Spec

-----------------------------------------------------------------------------
(* Ratings and digests *)

\* A set of naturals has a least element.
LEMMA Least ==
  ASSUME NEW T \in SUBSET Nat, T # {}
  PROVE  \E k \in T : \A m \in T : k <= m
<1> DEFINE Below == {ss \in Nat \X Nat : ss[1] < ss[2]}
<1>1. IsWellFoundedOn(Below, Nat)
  BY NatLessThanWellFounded DEF OpToRel
<1>2. \A a, b \in Nat : a < b => <<a, b>> \in Below
  OBVIOUS
<1> HIDE DEF Below
<1>3. PICK k \in T : \A m \in T : ~(<<m, k>> \in Below)
  BY <1>1, WFMin
<1>4. ASSUME NEW m \in T PROVE k <= m
  <2>1. k \in Nat /\ m \in Nat /\ ~(m < k)
    BY <1>2, <1>3
  <2> QED
    BY <2>1
<1> QED
  BY <1>4

\* A set of numbers up to n has a greatest one.
LEMMA Greatest ==
  ASSUME NEW n \in Nat, NEW S \in SUBSET (1..n), S # {}
  PROVE  Max(S) \in S
<1> DEFINE T == {k \in Nat : n - k \in S}
<1>1. \A x \in S : n - x \in Nat /\ n - (n - x) = x /\ x \in Nat
  OBVIOUS
<1>2. T # {} /\ T \in SUBSET Nat
  BY <1>1
<1>3. PICK k \in T : \A m \in T : k <= m
  BY <1>2, Least
<1>4. ASSUME NEW y \in S PROVE n - k >= y
  <2>1. k <= n - y
    BY <1>1, <1>3
  <2> QED
    BY <1>1, <2>1
<1>5. \E x \in S : \A y \in S : x >= y
  BY <1>4
<1> QED
  BY <1>5, Zenon DEF Max

-----------------------------------------------------------------------------
(* Ids *)

\* An item has one row, a row an id of its own, and the counter is ahead of
\* every id that was ever given out.
IdInv ==
  /\ nextId \in Nat
  /\ \A r \in ratings : r.id \in Nat /\ r.id < nextId
  /\ \A q, r \in ratings : q.item = r.item \/ q.id = r.id => q = r
  /\ \A e \in evidence : e.id \in Nat /\ e.id < nextId
  /\ EvidenceNamesItsItem

LEMMA StoreKeepsIds ==
  ASSUME IdInv, NEW t \in Tabs, StoreRating(t)
  PROVE  IdInv'
<1> DEFINE i == posts[t].item
           others == ratings \ RatingOf(i)
           new == [id |-> IdOf(i), item |-> i, digest |-> posts[t].digest,
                   sign |-> posts[t].sign, at |-> posts[t].at]
<1>1. evidence' = evidence
  BY DEF StoreRating
<1>2. CASE posts[t].sign = "none"
  <2>1. ratings' \subseteq ratings /\ nextId' = nextId
    BY <1>2 DEF StoreRating
  <2> QED
    BY <1>1, <2>1 DEF IdInv, EvidenceNamesItsItem
<1>3. CASE posts[t].sign # "none"
  <2>1. /\ ratings' = others \cup {new}
        /\ nextId' = IF IdOf(i) < nextId THEN nextId ELSE IdOf(i) + 1
    BY <1>3 DEF StoreRating
  <2>2. \A r \in others : r \in ratings /\ r.item # i
    BY DEF RatingOf
  <2>3. new.id = IdOf(i) /\ new.item = i
    OBVIOUS
  <2> HIDE DEF new, others, i
  <2>4. CASE RatingOf(i) # {}
    <3>1. PICK old \in ratings : old.item = i /\ IdOf(i) = old.id
      BY <2>4, Zenon DEF IdOf, RatingOf
    <3>2. nextId' = nextId /\ new.id = old.id /\ new.item = old.item
      BY <2>1, <2>3, <3>1 DEF IdInv
    <3> QED
      BY <1>1, <2>1, <2>2, <2>3, <3>1, <3>2 DEF IdInv, EvidenceNamesItsItem
  <2>5. CASE RatingOf(i) = {}
    <3>1. IdOf(i) = nextId /\ nextId' = nextId + 1
      BY <2>1, <2>5 DEF IdOf, IdInv
    <3> QED
      BY <1>1, <2>1, <2>2, <2>3, <3>1 DEF IdInv, EvidenceNamesItsItem
  <2> QED
    BY <2>4, <2>5
<1> QED
  BY <1>2, <1>3

LEMMA NextIdInv == IdInv /\ [SignalsNext]_signalsVars => IdInv'
<1> SUFFICES ASSUME IdInv, [SignalsNext]_signalsVars PROVE IdInv'
  OBVIOUS
<1>1. CASE \E t \in Tabs : StoreRating(t)
  BY <1>1, StoreKeepsIds
<1>2. CASE GetFeedback
  <2>1. UNCHANGED <<ratings, nextId>>
    BY <1>2 DEF GetFeedback
  <2>2. ASSUME NEW e \in evidence'
        PROVE  e \in evidence \/ \E r \in ratings : e.id = r.id /\ e.item = r.item
    BY <1>2 DEF GetFeedback, InWindow
  <2> QED
    BY <2>1, <2>2 DEF IdInv, EvidenceNamesItsItem
<1>3. CASE UNCHANGED <<ratings, nextId, evidence>>
  BY <1>3 DEF IdInv, EvidenceNamesItsItem
<1>4. Publish \/ (\E i \in Touched : Click(i)) \/ Tick \/ UNCHANGED signalsVars
      \/ (\E t \in Tabs, i \in Touched, sign \in {"up", "down", "none"} :
            FindTarget(t, i, sign))
      => UNCHANGED <<ratings, nextId, evidence>>
  BY DEF Publish, Click, Tick, FindTarget, signalsVars
<1> QED
  BY <1>1, <1>2, <1>3, <1>4 DEF SignalsNext

\* An id the Curator may cite never becomes the rating of another item: undone
\* ratings take their ids with them (AUTOINCREMENT), and a rating anew keeps its.
THEOREM EvidenceIsStable == SignalsSpec => []EvidenceNamesItsItem
<1>1. SignalsInit => IdInv
  BY DEF SignalsInit, IdInv, EvidenceNamesItsItem
<1>2. IdInv => EvidenceNamesItsItem
  BY DEF IdInv
<1> QED
  BY <1>1, <1>2, NextIdInv, PTL DEF SignalsSpec

-----------------------------------------------------------------------------
(* Digests *)

DigestRow == [at : Nat, items : SUBSET Items]

\* A digest that showed the item, before time `at`.
WasShown(n, i, at) ==
  n = Nil \/ (n \in DOMAIN digests /\ i \in digests[n].items /\ digests[n].at <= at)

\* A request between its two calls carries what its rating will say.
TargetInv ==
  /\ now \in Nat
  /\ digests \in Seq(DigestRow)
  /\ \A n \in DOMAIN digests : digests[n].at <= now
  /\ posts \in [Tabs -> {Nil} \cup [item : Items, sign : {"up", "down", "none"},
                                    digest : {Nil} \cup Nat, at : Nat]]
  /\ \A t \in Tabs : posts[t] # Nil => WasShown(posts[t].digest, posts[t].item, posts[t].at)
  /\ \A r \in ratings : WasShown(r.digest, r.item, r.at)

LEMMA LatestWasShown ==
  ASSUME TargetInv, NEW i \in Items
  PROVE  WasShown(LatestDigestFor(i), i, now) /\ LatestDigestFor(i) \in {Nil} \cup Nat
<1> DEFINE showing == {n \in DOMAIN digests : i \in digests[n].items}
<1>1. CASE showing = {}
  BY <1>1 DEF LatestDigestFor, WasShown
<1>2. CASE showing # {}
  <2>1. Len(digests) \in Nat /\ DOMAIN digests = 1..Len(digests)
    BY DEF TargetInv
  <2>2. Max(showing) \in showing
    BY <1>2, <2>1, Greatest
  <2>3. LatestDigestFor(i) = Max(showing)
    BY <1>2 DEF LatestDigestFor
  <2> QED
    BY <2>1, <2>2, <2>3 DEF WasShown, TargetInv
<1> QED
  BY <1>1, <1>2

LEMMA NextTargetInv == TargetInv /\ [SignalsNext]_signalsVars => TargetInv'
<1> SUFFICES ASSUME TargetInv, [SignalsNext]_signalsVars PROVE TargetInv'
  OBVIOUS
<1>1. CASE Publish
  <2>1. UNCHANGED <<now, posts, ratings>>
    BY <1>1 DEF Publish
  <2>2. PICK items \in SUBSET Items :
          digests' = Append(digests, [at |-> now, items |-> items])
    BY <1>1, SignalsAssumption DEF Publish
  <2> DEFINE d == [at |-> now, items |-> items]
  <2>3. d \in DigestRow /\ d.at = now
    BY DEF TargetInv, DigestRow
  <2> HIDE DEF d
  <2>4. /\ digests' \in Seq(DigestRow)
        /\ DOMAIN digests' = DOMAIN digests \cup {Len(digests) + 1}
        /\ digests'[Len(digests) + 1] = d
        /\ \A n \in DOMAIN digests : digests'[n] = digests[n]
    BY <2>2, <2>3 DEF TargetInv, d
  <2>5. \A n, i, at : WasShown(n, i, at) => WasShown(n, i, at)'
    BY <2>4 DEF WasShown
  <2>6. \A n \in DOMAIN digests' : digests'[n].at <= now
    BY <2>3, <2>4 DEF TargetInv
  <2> QED
    BY <2>1, <2>4, <2>5, <2>6 DEF TargetInv
<1>2. ASSUME NEW t \in Tabs, NEW i \in Touched, NEW sign \in {"up", "down", "none"},
             FindTarget(t, i, sign)
      PROVE  TargetInv'
  <2> DEFINE p == [item |-> i, sign |-> sign, digest |-> LatestDigestFor(i), at |-> now]
  <2>1. UNCHANGED <<now, digests, ratings>> /\ posts' = [posts EXCEPT ![t] = p]
    BY <1>2 DEF FindTarget
  <2>2. i \in Items
    BY SignalsAssumption
  <2>3. /\ p \in [item : Items, sign : {"up", "down", "none"},
                  digest : {Nil} \cup Nat, at : Nat]
        /\ WasShown(p.digest, p.item, p.at)
    BY <2>2, LatestWasShown DEF TargetInv
  <2> HIDE DEF p
  <2>4. \A n, j, at : WasShown(n, j, at)' <=> WasShown(n, j, at)
    BY <2>1 DEF WasShown
  <2>5. \A u \in Tabs : posts'[u] = IF u = t THEN p ELSE posts[u]
    BY <2>1 DEF TargetInv
  <2> QED
    BY <2>1, <2>3, <2>4, <2>5 DEF TargetInv
<1>3. ASSUME NEW t \in Tabs, StoreRating(t) PROVE TargetInv'
  <2>1. /\ UNCHANGED <<now, digests>> /\ posts' = [posts EXCEPT ![t] = Nil]
        /\ posts[t] # Nil
    BY <1>3 DEF StoreRating
  <2>2. ASSUME NEW r \in ratings'
        PROVE  \/ r \in ratings
               \/ r.digest = posts[t].digest /\ r.item = posts[t].item /\ r.at = posts[t].at
    BY <1>3 DEF StoreRating
  <2>3. \A n, j, at : WasShown(n, j, at)' <=> WasShown(n, j, at)
    BY <2>1 DEF WasShown
  <2>4. \A r \in ratings' : WasShown(r.digest, r.item, r.at)
    BY <2>1, <2>2 DEF TargetInv
  <2> QED
    BY <2>1, <2>3, <2>4 DEF TargetInv
<1>4. CASE Tick
  <2>1. UNCHANGED <<digests, posts, ratings>> /\ now' = now + 1
    BY <1>4 DEF Tick
  <2>2. \A n, j, at : WasShown(n, j, at)' <=> WasShown(n, j, at)
    BY <2>1 DEF WasShown
  <2>3. now \in Nat /\ now' \in Nat
    BY <2>1 DEF TargetInv
  <2>4. ASSUME NEW n \in DOMAIN digests' PROVE digests'[n].at <= now'
    <3>0. n \in DOMAIN digests /\ digests \in Seq(DigestRow)
      BY <2>1 DEF TargetInv
    <3>1. digests[n].at <= now
      BY <3>0 DEF TargetInv
    <3>2. digests[n].at \in Nat
      <4>1. digests[n] \in DigestRow
        BY <3>0
      <4> QED
        BY <4>1 DEF DigestRow
    <3> QED
      BY <2>1, <2>3, <3>1, <3>2
  <2> QED
    BY <2>1, <2>2, <2>3, <2>4 DEF TargetInv
<1>5. CASE (\E i \in Touched : Click(i)) \/ GetFeedback \/ UNCHANGED signalsVars
  <2>1. UNCHANGED <<now, digests, posts, ratings>>
    BY <1>5 DEF Click, GetFeedback, signalsVars
  <2> QED
    BY <2>1 DEF TargetInv, WasShown
<1> QED
  BY <1>1, <1>2, <1>3, <1>4, <1>5 DEF SignalsNext

\* What POST /rate found out before a digest was published, or a day went by,
\* is still true of what it stores: the digest showed that item.
THEOREM RatingsAreTrue == SignalsSpec => []RatingsAreOfWhatWasShown
<1>1. SignalsInit => TargetInv
  BY DEF SignalsInit, TargetInv
<1>2. TargetInv => RatingsAreOfWhatWasShown
  BY DEF TargetInv, WasShown, RatingsAreOfWhatWasShown
<1> QED
  BY <1>1, <1>2, NextTargetInv, PTL DEF SignalsSpec

-----------------------------------------------------------------------------
(* Scores *)

\* What the scores and the lists are made of, but for the state they read.
ScoresOf(weight, recent) ==
  [i \in Items |->
     MapThenSumSet(LAMBDA t : TopicWeight[t] * Similarity[i][t], Topics) +
     MapThenSumSet(LAMBDA s : weight[s] * Similarity[i][s.item], recent)]

UnmatchedOf(score, candidates) ==
  LET pool == SetToSeq(candidates)
      cutoff == Percentile([n \in DOMAIN pool |-> score[pool[n]]])
  IN {i \in candidates : score[i] <= cutoff}

ListsOf(score, candidates) ==
  LET byScore == SetToSortSeq(candidates, LAMBDA i, j : ByScoreThenId(score, i, j))
      rest == candidates \ ToSet(First(byScore, ExcludeTop))
  IN [exploit |-> First(byScore, Limit),
      cold_topic |-> First(SetToSortSeq(rest, LAMBDA i, j : ByScoreThenId(Cold, i, j)), Limit),
      popular_unmatched |-> First(SetToSortSeq(UnmatchedOf(score, candidates), ByPopularity), Limit)]

RanksOf(signals, s) == 1 + Cardinality({u \in signals : Newer(u, s)})
RecentOf(signals) == {s \in signals : RanksOf(signals, s) <= Len(ReadWeight)}
WeightsOf(signals) == [s \in RecentOf(signals) |-> ReadWeight[RanksOf(signals, s)]]

\* The scores are a function of the signals, the lists of scores and pool.
LEMMA ScoresAre ==
  ASSUME NEW rs
  PROVE  Exploit(rs) = ScoresOf(WeightsOf(Signals(rs)), RecentOf(Signals(rs)))
BY DEF Exploit, ScoresOf, WeightsOf, RecentOf, Recent, RanksOf, RankOf

LEMMA ListsAre ==
  ASSUME NEW rs
  PROVE  ListCandidates(rs) = ListsOf(Exploit(rs), Pool)
BY DEF ListCandidates, ListsOf, Unmatched, UnmatchedOf

\* What is not a like is no signal.
LEMMA OnlyLikesAreSignals ==
  ASSUME NEW rs, NEW r, r.sign # "up"
  PROVE  Signals(rs \cup {r}) = Signals(rs)
<1>1. {q \in rs \cup {r} : q.sign = "up"} = {q \in rs : q.sign = "up"}
  OBVIOUS
<1> QED
  BY <1>1 DEF Signals, Likes

\* Only its own second call ends a request.
LEMMA EndsByStoring ==
  ASSUME TargetInv, [SignalsNext]_signalsVars, NEW t \in Tabs, posts[t] # Nil, posts'[t] = Nil
  PROVE  StoreRating(t)
<1>1. \A u \in Tabs \ {t} : \A v : posts' = [posts EXCEPT ![u] = v] => posts'[t] = posts[t]
  BY DEF TargetInv
<1>2. ASSUME NEW u \in Tabs, NEW i \in Touched, NEW sign \in {"up", "down", "none"},
             FindTarget(u, i, sign)
      PROVE  FALSE
  <2>1. u # t /\ \E v : posts' = [posts EXCEPT ![u] = v]
    BY <1>2 DEF FindTarget
  <2> QED
    BY <1>1, <2>1
<1>3. ASSUME NEW u \in Tabs, StoreRating(u) PROVE u = t
  <2>1. \E v : posts' = [posts EXCEPT ![u] = v]
    BY <1>3 DEF StoreRating
  <2> QED
    BY <1>1, <2>1
<1>4. posts' # posts
  OBVIOUS
<1> QED
  BY <1>2, <1>3, <1>4 DEF SignalsNext, Publish, Click, GetFeedback, Tick, signalsVars

\* A stored dislike counts as no rating at all, whatever it replaces: for any
\* topics, vectors, weights and limits, and whatever other tabs do between its
\* two calls, the scores and lists are those of the table without the item.
THEOREM DislikesAreSilent == SignalsSpec => DislikesScoreNothing
<1>1. SignalsInit => TargetInv
  BY DEF SignalsInit, TargetInv
<1>2. ASSUME TargetInv, [SignalsNext]_signalsVars, NEW t \in Tabs,
             posts[t] # Nil, posts'[t] = Nil, posts[t].sign = "down"
      PROVE  LET unrated == ratings \ RatingOf(posts[t].item)
             IN /\ Exploit(ratings') = Exploit(unrated)
                /\ ListCandidates(ratings') = ListCandidates(unrated)
  <2> DEFINE unrated == ratings \ RatingOf(posts[t].item)
  <2>1. StoreRating(t)
    BY <1>2, EndsByStoring
  <2>2. PICK r : r.sign = "down" /\ ratings' = unrated \cup {r}
    BY <1>2, <2>1 DEF StoreRating
  <2>3. Signals(ratings') = Signals(unrated)
    BY <2>2, OnlyLikesAreSignals
  <2>4. Exploit(ratings') = Exploit(unrated)
    BY <2>3, ScoresAre
  <2>5. ListCandidates(ratings') = ListCandidates(unrated)
    BY <2>4, ListsAre
  <2> QED
    BY <2>4, <2>5
<1>3. TargetInv /\ [SignalsNext]_signalsVars =>
        (\A t \in Tabs :
           posts[t] # Nil /\ posts'[t] = Nil /\ posts[t].sign = "down" =>
             LET unrated == ratings \ RatingOf(posts[t].item)
             IN /\ Exploit(ratings') = Exploit(unrated)
                /\ ListCandidates(ratings') = ListCandidates(unrated))
  BY <1>2, Zenon
<1> QED
  BY <1>1, <1>3, NextTargetInv, PTL DEF SignalsSpec, DislikesScoreNothing
=============================================================================
