------------------------------- MODULE Signals -------------------------------
(***************************************************************************)
(* What the reader leaves behind, and who reads it: clicks (`reads`), one  *)
(* rating per item (`ratings`, written by two tabs at once), and the       *)
(* digests that showed the items.  The Editor's candidate lists score the  *)
(* pool by them, and the Curator's get_feedback gathers them as evidence.  *)
(*                                                                         *)
(* Time is in days.  Cosines and weights are small integers; a score is    *)
(* kept as its numerator, its divisor being one for all items.  No code    *)
(* writes `last_positive_at` or `saturation`, so every topic is cold and   *)
(* none is damped.                                                         *)
(***************************************************************************)
EXTENDS Integers, Sequences, FiniteSets, FiniteSetsExt, SequencesExt

CONSTANTS
  Items,          \* the items, which all have a vector; a number is an id
  Topics,         \* the topics with a vector
  Touched,        \* those a digest may show and the reader click and rate
  Tabs,           \* pages that rate at the same time
  Nil,            \* no digest, no request
  Fetched,        \* [Items -> Int]: the day an item was fetched
  Published,      \* [Items -> Int]: published_or_fetched
  SourceWeight,   \* [Items -> Nat]: the weight of the item's source
  TopicWeight,    \* [Topics -> Nat]
  Similarity,     \* [Items -> [Topics \cup Items -> Nat]]: the cosines
  ReadWeight,     \* the weights of the recent signals, by rank; READ_LIMIT of them
  ExcludeTop,     \* COLD_EXCLUDE_TOP
  Limit,          \* the limit of a list, clamped
  CandidateDays, ShownDays, WindowDays,
  MaxTime, MaxDigests, MaxReads, MaxPosts   \* bounds

ASSUME SignalsAssumption ==
  /\ Items \subseteq Nat /\ Touched \subseteq Items /\ Items \cap Topics = {}
  /\ Fetched \in [Items -> Int] /\ Published \in [Items -> Int]
  /\ \A n \in 2..Len(ReadWeight) : ReadWeight[n] < ReadWeight[n - 1]
  /\ ExcludeTop \in Nat /\ Limit \in Nat \ {0}

VARIABLES
  now,
  digests,   \* the digests in the order they were published
  reads,     \* the table `reads`
  ratings,   \* the rows of `ratings`
  nextId,    \* its AUTOINCREMENT counter
  posts,     \* POST /rate of each tab, between its two database calls
  posted,    \* bounded by MaxPosts
  evidence   \* the ratings the Curator has been shown, which it may cite

signalsVars == <<now, digests, reads, ratings, nextId, posts, posted, evidence>>

-----------------------------------------------------------------------------
(* Digests, clicks and ratings *)

Shown(since) == UNION {digests[n].items : n \in {m \in DOMAIN digests : digests[m].at >= since}}

\* Mutant: the newest digest, whether or not it showed the item.
LatestOfAll(i) == IF digests = <<>> THEN Nil ELSE Len(digests)

\* The digest that showed the item last.
LatestDigestFor(i) ==
  LET showing == {n \in DOMAIN digests : i \in digests[n].items}
  IN IF showing = {} THEN Nil ELSE Max(showing)

SignalsInit ==
  /\ now = 0
  /\ digests = <<>>
  /\ reads = <<>>
  /\ ratings = {}
  /\ nextId = 1
  /\ posts = [t \in Tabs |-> Nil]
  /\ posted = 0
  /\ evidence = {}

\* A digest of items that were not shown lately.
Publish ==
  /\ Len(digests) < MaxDigests
  /\ \E items \in SUBSET (Touched \ Shown(now - ShownDays)) \ {{}} :
       digests' = Append(digests, [at |-> now, items |-> items])
  /\ UNCHANGED <<now, reads, ratings, nextId, posts, posted, evidence>>

\* GET /r/{id}; nothing reads the digest the row names.
Click(i) ==
  /\ Len(reads) < MaxReads
  /\ reads' = Append(reads, [item |-> i, at |-> now])
  /\ UNCHANGED <<now, digests, ratings, nextId, posts, posted, evidence>>

\* POST /rate, first call: the digest the item was in; then the clock is read.
FindTarget(t, i, sign) ==
  /\ posts[t] = Nil
  /\ posted < MaxPosts
  /\ posts' = [posts EXCEPT ![t] =
                 [item |-> i, sign |-> sign, digest |-> LatestDigestFor(i), at |-> now]]
  /\ posted' = posted + 1
  /\ UNCHANGED <<now, digests, reads, ratings, nextId, evidence>>

RatingOf(i) == {r \in ratings : r.item = i}

\* Mutant: without AUTOINCREMENT a new row takes the largest id plus one.
IdOfMax(i) == IF RatingOf(i) # {} THEN (CHOOSE r \in RatingOf(i) : TRUE).id
              ELSE IF ratings = {} THEN 1 ELSE 1 + Max({r.id : r \in ratings})

\* A rating that replaces another keeps the id of its row.
IdOf(i) == IF RatingOf(i) # {} THEN (CHOOSE r \in RatingOf(i) : TRUE).id ELSE nextId

\* Second call: the sign `none` deletes the row, another replaces it.
StoreRating(t) ==
  /\ posts[t] # Nil
  /\ LET p == posts[t]
         others == ratings \ RatingOf(p.item)
     IN IF p.sign = "none"
          THEN ratings' = others /\ UNCHANGED nextId
          ELSE /\ ratings' = others \cup
                    {[id |-> IdOf(p.item), item |-> p.item, digest |-> p.digest,
                      sign |-> p.sign, at |-> p.at]}
               /\ nextId' = IF IdOf(p.item) < nextId THEN nextId ELSE IdOf(p.item) + 1
  /\ posts' = [posts EXCEPT ![t] = Nil]
  /\ UNCHANGED <<now, digests, reads, posted, evidence>>

-----------------------------------------------------------------------------
(* The profile and the candidate lists *)

Clicks == {[kind |-> "read", id |-> n, item |-> reads[n].item, at |-> reads[n].at] :
             n \in DOMAIN reads}

\* Mutant: any rating counts as a read.
LikedOrNot(rs) == {[kind |-> "rating", id |-> r.id, item |-> r.item, at |-> r.at] : r \in rs}

Likes(rs) == {[kind |-> "rating", id |-> r.id, item |-> r.item, at |-> r.at] :
                r \in {q \in rs : q.sign = "up"}}

Signals(rs) == Clicks \cup Likes(rs)

\* at, kind and id, all descending.
Newer(a, b) ==
  \/ a.at > b.at
  \/ a.at = b.at /\ a.kind = "read" /\ b.kind = "rating"
  \/ a.at = b.at /\ a.kind = b.kind /\ a.id > b.id

RankOf(s, signals) == 1 + Cardinality({u \in signals : Newer(u, s)})
Recent(signals) == {s \in signals : RankOf(s, signals) <= Len(ReadWeight)}

\* exploit_score of every item, were these the rows of `ratings`.
Exploit(rs) ==
  LET signals == Signals(rs)
      recent == Recent(signals)
      weight == [s \in recent |-> ReadWeight[RankOf(s, signals)]]
  IN [i \in Items |->
        MapThenSumSet(LAMBDA t : TopicWeight[t] * Similarity[i][t], Topics) +
        MapThenSumSet(LAMBDA s : weight[s] * Similarity[i][s.item], recent)]

Pool == {i \in Items : /\ Fetched[i] >= now - CandidateDays
                       /\ Published[i] >= now - CandidateDays
                       /\ i \notin Shown(now - ShownDays)}

First(seq, n) == SubSeq(seq, 1, IF n < Len(seq) THEN n ELSE Len(seq))

ByScoreThenId(score, i, j) == score[i] > score[j] \/ (score[i] = score[j] /\ i < j)

\* The nearest of the cold topics.
Cold == [i \in Items |-> Max({0} \cup {Similarity[i][t] : t \in Topics})]

\* percentile(values, 0.4): index ceil(0.4 n) - 1 of the sorted values, clamped.
Percentile(values) ==
  LET n == Len(values)
      sorted == SortSeq(values, LAMBDA a, b : a < b)
      raw == (2 * n + 4) \div 5 - 1
  IN IF n = 0 THEN 0 ELSE sorted[(IF raw < 0 THEN 0 ELSE raw) + 1]

Unmatched(score) ==
  LET pool == SetToSeq(Pool)
      cutoff == Percentile([n \in DOMAIN pool |-> score[pool[n]]])
  IN {i \in Pool : score[i] <= cutoff}

ByPopularity(i, j) ==
  \/ SourceWeight[i] > SourceWeight[j]
  \/ SourceWeight[i] = SourceWeight[j] /\ Published[i] > Published[j]
  \/ SourceWeight[i] = SourceWeight[j] /\ Published[i] = Published[j] /\ i < j

ListCandidates(rs) ==
  LET score == Exploit(rs)
      byScore == SetToSortSeq(Pool, LAMBDA i, j : ByScoreThenId(score, i, j))
      rest == Pool \ ToSet(First(byScore, ExcludeTop))
  IN [exploit |-> First(byScore, Limit),
      cold_topic |-> First(SetToSortSeq(rest, LAMBDA i, j : ByScoreThenId(Cold, i, j)), Limit),
      popular_unmatched |-> First(SetToSortSeq(Unmatched(score), ByPopularity), Limit)]

-----------------------------------------------------------------------------
(* The Curator's evidence *)

InWindow == {r \in ratings : r.at >= now - WindowDays}

\* get_feedback: the ratings of the last WindowDays, whose ids a proposal may cite.
GetFeedback ==
  /\ evidence' = evidence \cup {[id |-> r.id, item |-> r.item] : r \in InWindow}
  /\ UNCHANGED <<now, digests, reads, ratings, nextId, posts, posted>>

Tick ==
  /\ now < MaxTime
  /\ now' = now + 1
  /\ UNCHANGED <<digests, reads, ratings, nextId, posts, posted, evidence>>

SignalsNext ==
  \/ Publish
  \/ \E i \in Touched : Click(i)
  \/ \E t \in Tabs, i \in Touched, sign \in {"up", "down", "none"} : FindTarget(t, i, sign)
  \/ \E t \in Tabs : StoreRating(t)
  \/ GetFeedback
  \/ Tick

SignalsSpec == SignalsInit /\ [][SignalsNext]_signalsVars

-----------------------------------------------------------------------------
(* Properties *)

\* A proposal stores the ids of the ratings it rests on, and the approval page
\* shows them: whatever was undone or rated anew since, an id the Curator was
\* given is never the rating of another item (migration 0002, upsert_rating).
EvidenceNamesItsItem ==
  \A e \in evidence : \A r \in ratings : r.id = e.id => r.item = e.item

\* A rating that carries a digest was made of what that digest showed, and not
\* before it was published: the Curator reads the item's topic through it
\* (rate.rs target, list_rating_details_since).
RatingsAreOfWhatWasShown ==
  \A r \in ratings : r.digest # Nil => /\ r.item \in digests[r.digest].items
                                       /\ digests[r.digest].at <= r.at

\* "a 👎 changes no score" (profile.rs:3): whatever the reader thought of the item
\* before, and whatever else was rated and read meanwhile, a 👎 that is stored
\* leaves the scores and lists that there would be had the item never been rated.
\* A 👍 it replaces is gone from them, and nothing takes its place.
DislikesScoreNothing ==
  [][\A t \in Tabs :
       posts[t] # Nil /\ posts'[t] = Nil /\ posts[t].sign = "down" =>
         LET unrated == ratings \ RatingOf(posts[t].item)
         IN /\ Exploit(ratings') = Exploit(unrated)
            /\ ListCandidates(ratings') = ListCandidates(unrated)]_signalsVars
=============================================================================
