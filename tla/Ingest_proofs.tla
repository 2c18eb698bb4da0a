---------------------------- MODULE Ingest_proofs ----------------------------
(***************************************************************************)
(* What a fetch leaves behind, for any feeds and any number of them: one   *)
(* row for one article, reports that are true of the tables, validators    *)
(* that are kept only with the entries they stand for.                     *)
(***************************************************************************)
EXTENDS Ingest, FiniteSetTheorems, SequenceTheorems, TLAPS

Pcs == {"idle", "queued", "looking", "storing", "batch", "insert", "marking", "failing", "ended"}
Outcomes == {None, "ok", "not_modified", "failed", "error"}
Tasks == [pc : Pcs, got : Nat, todo : Seq(Entries), pending : Seq(Entries),
          recent : SUBSET Entries, skipped : SUBSET Entries, stored : Nat, outcome : Outcomes]
Items == [entry : Entries, by : Feeds \cup {None}, day : Nat]
Reports == [status : {"ok", "not_modified", "failed"}, new : Nat]

\* The types the proofs use.  The mutex, the callers and the faults do not matter.
TypeInv ==
  /\ today \in Nat
  /\ version \in [Feeds -> Nat] /\ \A f \in Feeds : version[f] \in DOMAIN Content[f]
  /\ items \in SUBSET Items /\ IsFiniteSet(items)
  /\ \A i \in items : i.day <= today
  /\ sources \in [Feeds -> [validators : Nat, failing : BOOLEAN]]
  /\ report \in BOOLEAN
  /\ stage \in {"idle", "mirroring", "running", "accounting"}
  /\ task \in [Feeds -> Tasks]
  /\ conn \in Feeds \cup {None}
  /\ done \in [Feeds -> Reports \cup {NotYet}]
  /\ before \subseteq items

\* The connection is of the feed whose batch is open, and of no other.
LockInv ==
  \A f \in Feeds :
    /\ task[f].pc \in {"batch", "insert"} <=> conn = f
    /\ task[f].pc = "insert" => task[f].pending # <<>>
    /\ f \notin Enabled => task[f].pc = "idle"

\* What feeds have stored within the window.
Ours == {i \in items : i.by # None /\ Recent(i)}

\* The new item is not the article of one that a feed has stored lately.
Fresh(e) == \A i \in Ours : TitleOf[i.entry] # TitleOf[e] /\ <<e, i.entry>> \notin Near

\* The projection of an open batch holds all that feeds have stored lately, and
\* what was compared is still fresh: nobody else has had the connection.
OnceInv ==
  /\ ArticlesAreStoredOnce
  /\ \A f \in Feeds : task[f].pc \in {"batch", "insert"} =>
       \A i \in Ours : i.entry \in task[f].recent
  /\ \A f \in Feeds : task[f].pc = "insert" => Fresh(Head(task[f].pending))

\* The rows of the feed that are new in this call of the tool.
NewOf(f) == {i \in items \ before : i.by = f}
Counted(f) == task[f].stored = Cardinality(NewOf(f))

Fine == {"ok", "not_modified"}

Fetched(f) ==
  /\ task[f].pc = "ended"
  /\ Counted(f)
  /\ ~sources[f].failing
  /\ sources[f].validators = task[f].got

\* A task counts what it stores until it is dropped, and what it says of its feed
\* is true when it has ended well and until the budget is over; then it is true of
\* those that were joined in time.
ReportInv ==
  /\ report => stage = "idle" /\ \A f \in Enabled : done[f] # NotYet
  /\ \A f \in Enabled :
       /\ task[f].pc \notin {"idle", "ended"} => Counted(f)
       /\ stage = "running" /\ task[f].pc = "ended" /\ task[f].outcome \in Fine => Fetched(f)
       /\ done[f].status \in Fine => Fetched(f) /\ done[f].new = task[f].stored

\* What is not to be had of the version that a task has fetched: of a new one, the
\* entries it passed over; of one that is not modified, those that were passed over when
\* it was new.
Missed(f) ==
  IF task[f].pc = "marking" /\ task[f].outcome # "ok" THEN passed[f] ELSE task[f].skipped

\* An entry of the version that was fetched is kept, was not to be had, or is still on
\* its way.
Underway(f) ==
  \A e \in ToSet(Content[f][task[f].got]) :
    \/ Kept(e) \/ e \in Missed(f)
    \/ e \in ToSet(task[f].todo) \/ e \in ToSet(task[f].pending)

ValidatorsInv ==
  /\ ValidatorsFollowItems
  /\ passed \in [Feeds -> SUBSET Entries]
  /\ \A f \in Feeds :
       /\ task[f].pc = "queued" => task[f].todo = <<>> /\ task[f].pending = <<>>
       /\ task[f].pc \in {"looking", "storing", "batch", "insert", "marking"} => Underway(f)
       /\ task[f].pc \in {"storing", "batch", "insert", "marking"} => task[f].todo = <<>>
       /\ task[f].pc = "marking" => task[f].pending = <<>>
       /\ task[f].pc \in {"batch", "insert"} =>
            task[f].recent \subseteq {i.entry : i \in items}

-----------------------------------------------------------------------------
(* What each step of a task does *)

\* Everything the invariants read but `task`, in three parts.
Tables == <<items, today, before, version>>
Reported == <<report, stage, done>>

\* The task of f, and no other, moves from one place to another.
Moves(f, from, to) ==
  /\ task[f].pc \in from
  /\ task' \in [Feeds -> Tasks]
  /\ task'[f].pc \in to
  /\ \A g \in Feeds \ {f} : task'[g] = task[g]

Keeps(f) == task'[f].stored = task[f].stored /\ task'[f].got = task[f].got

\* What the task could not have, it still could not.
StillMissed(f) == Missed(f) \subseteq Missed(f)'

\* The fields of a task.
LEMMA TaskFields ==
  ASSUME TypeInv, NEW f \in Feeds
  PROVE  /\ task[f] \in Tasks /\ task[f].pc \in Pcs /\ task[f].got \in Nat
         /\ task[f].todo \in Seq(Entries) /\ task[f].pending \in Seq(Entries)
         /\ task[f].recent \in SUBSET Entries /\ task[f].skipped \in SUBSET Entries
         /\ task[f].stored \in Nat /\ task[f].outcome \in Outcomes
  BY DEF TypeInv, Tasks

LEMMA Replaced ==
  ASSUME TypeInv, NEW f \in Feeds, NEW t \in Tasks, task' = [task EXCEPT ![f] = t]
  PROVE  /\ task' \in [Feeds -> Tasks] /\ task'[f] = t
         /\ \A g \in Feeds \ {f} : task'[g] = task[g]
  BY DEF TypeInv

\* A task that has ended without a mark.
LEMMA GoneIsEnded ==
  ASSUME NEW o \in Outcomes
  PROVE  /\ Gone(o) \in Tasks
         /\ Gone(o).pc = "ended" /\ Gone(o).outcome = o
<1>1. NoTask \in Tasks
  BY DEF NoTask, Tasks, Pcs, Outcomes
<1> QED
  BY <1>1 DEF Gone, Tasks, Pcs

\* The first of a sequence, and the rest.
LEMMA HeadTail ==
  ASSUME NEW S, NEW s \in Seq(S), s # <<>>
  PROVE  /\ Head(s) \in S /\ Tail(s) \in Seq(S)
         /\ \A e \in ToSet(s) : e = Head(s) \/ e \in ToSet(Tail(s))
<1>1. Head(s) \in S /\ Tail(s) \in Seq(S)
  OBVIOUS
<1>2. \A k \in DOMAIN s : s[k] = Head(s) \/ \E m \in DOMAIN Tail(s) : s[k] = Tail(s)[m]
  <2> SUFFICES ASSUME NEW k \in DOMAIN s, k # 1
               PROVE  \E m \in DOMAIN Tail(s) : s[k] = Tail(s)[m]
    OBVIOUS
  <2>1. k - 1 \in DOMAIN Tail(s) /\ Tail(s)[k - 1] = s[k]
    OBVIOUS
  <2> QED
    BY <2>1
<1> QED
  BY <1>1, <1>2 DEF ToSet

LEMMA AppendSet ==
  ASSUME NEW S, NEW s \in Seq(S), NEW e \in S
  PROVE  /\ Append(s, e) \in Seq(S)
         /\ e \in ToSet(Append(s, e))
         /\ \A x \in ToSet(s) : x \in ToSet(Append(s, e))
<1>1. Append(s, e) \in Seq(S) /\ Append(s, e)[Len(s) + 1] = e
      /\ Len(s) + 1 \in DOMAIN Append(s, e)
  OBVIOUS
<1>2. \A k \in DOMAIN s : k \in DOMAIN Append(s, e) /\ Append(s, e)[k] = s[k]
  OBVIOUS
<1> QED
  BY <1>1, <1>2 DEF ToSet

LEMMA VersionIsThere ==
  ASSUME NEW f \in Feeds, NEW v \in DOMAIN Content[f]
  PROVE  Content[f][v] \in Seq(Entries) /\ v \in Nat /\ v # 0
  BY FeedsAssumption

LEMMA FetchMoves ==
  ASSUME TypeInv, NEW f \in Feeds, Fetch(f)
  PROVE  /\ Moves(f, {"queued"}, {"marking", "looking", "failing"})
         /\ task'[f].stored = task[f].stored
         /\ task'[f].pc = "marking" =>
              /\ task'[f].got = version[f] /\ sources[f].validators = version[f]
              /\ task'[f].todo = task[f].todo /\ task'[f].pending = task[f].pending
              /\ Missed(f)' = passed[f]
         /\ task'[f].pc = "looking" =>
              task'[f].got = version[f] /\ task'[f].todo = Content[f][version[f]]
         /\ stage = "running"
         /\ UNCHANGED <<Tables, Reported, sources, passed, conn>>
<1>0. version[f] \in Nat /\ Content[f][version[f]] \in Seq(Entries) /\ task \in [Feeds -> Tasks]
  BY VersionIsThere DEF TypeInv
<1>1. /\ stage = "running" /\ task[f].pc = "queued"
      /\ UNCHANGED <<Tables, Reported, sources, passed, conn>>
  BY DEF Fetch, Polled, Tables, Reported
<1>2. CASE /\ sources[f].validators = version[f]
           /\ task' = [task EXCEPT ![f].pc = "marking", ![f].got = version[f],
                                   ![f].outcome = "not_modified"]
  <2> DEFINE t == [task[f] EXCEPT !.pc = "marking", !.got = version[f], !.outcome = "not_modified"]
  <2>1. t \in Tasks /\ t.pc = "marking" /\ t.got = version[f] /\ t.stored = task[f].stored
        /\ t.todo = task[f].todo /\ t.pending = task[f].pending /\ t.outcome = "not_modified"
    BY <1>0 DEF Tasks, Pcs, Outcomes
  <2>2. task' = [task EXCEPT ![f] = t]
    BY <1>0, <1>2
  <2>3. task'[f] = t
    BY <2>1, <2>2, Replaced
  <2>4. Missed(f)' = passed[f]
    BY <1>1, <2>1, <2>3 DEF Missed
  <2> HIDE DEF t
  <2> QED
    BY <1>1, <1>2, <2>1, <2>2, <2>4, Replaced DEF Moves
<1>3. CASE task' = [task EXCEPT ![f].pc = "looking", ![f].got = version[f],
                                ![f].todo = Content[f][version[f]]]
  <2> DEFINE t == [task[f] EXCEPT !.pc = "looking", !.got = version[f], !.todo = Content[f][version[f]]]
  <2>1. t \in Tasks /\ t.pc = "looking" /\ t.got = version[f] /\ t.stored = task[f].stored
        /\ t.todo = Content[f][version[f]]
    BY <1>0 DEF Tasks, Pcs
  <2>2. task' = [task EXCEPT ![f] = t]
    BY <1>0, <1>3
  <2> QED
    BY <1>1, <2>1, <2>2, Replaced DEF Moves
<1>4. CASE task' = [task EXCEPT ![f].pc = "failing"]
  BY <1>0, <1>1, <1>4 DEF Moves, Tasks, Pcs, Outcomes
<1> QED
  BY <1>1, <1>2, <1>3, <1>4 DEF Fetch

LEMMA LookMoves ==
  ASSUME TypeInv, NEW f \in Feeds, Look(f)
  PROVE  /\ Moves(f, {"looking"}, {"looking"}) /\ Keeps(f) /\ StillMissed(f)
         /\ task[f].todo # <<>>
         /\ task'[f].todo = Tail(task[f].todo)
         /\ \/ task'[f].pending = Append(task[f].pending, Head(task[f].todo))
            \/ /\ task'[f].pending = task[f].pending
               /\ \/ Head(task[f].todo) \in Missed(f)'
                  \/ HasUrl(Head(task[f].todo)) \/ HasTitle(Head(task[f].todo))
         /\ stage = "running"
         /\ UNCHANGED <<Tables, Reported, sources, passed, conn>>
<1> DEFINE e == Head(task[f].todo)
<1>0. task \in [Feeds -> Tasks] /\ task[f].todo \in Seq(Entries) /\ task[f].pending \in Seq(Entries)
      /\ task[f].skipped \in SUBSET Entries
  BY TaskFields DEF TypeInv
<1>1. /\ stage = "running" /\ task[f].pc = "looking" /\ task[f].todo # <<>>
      /\ UNCHANGED <<Tables, Reported, sources, passed, conn>>
  BY DEF Look, Polled, Tables, Reported
<1>2. e \in Entries /\ Tail(task[f].todo) \in Seq(Entries)
  BY <1>0, <1>1, HeadTail
<1>3. \/ (HasUrl(e) \/ HasTitle(e)) /\ task' = [task EXCEPT ![f].todo = Tail(@)]
      \/ task' = [task EXCEPT ![f].todo = Tail(@), ![f].pending = Append(@, e)]
      \/ task' = [task EXCEPT ![f].todo = Tail(@), ![f].skipped = @ \cup {e}]
  BY Zenon DEF Look
<1>4. Append(task[f].pending, e) \in Seq(Entries) /\ task[f].skipped \cup {e} \in SUBSET Entries
  BY <1>0, <1>2
<1> HIDE DEF e
<1>5. Missed(f) = task[f].skipped /\ (task'[f].pc = "looking" => Missed(f)' = task'[f].skipped)
  BY <1>1 DEF Missed
<1>6. CASE (HasUrl(e) \/ HasTitle(e)) /\ task' = [task EXCEPT ![f].todo = Tail(@)]
  BY <1>0, <1>1, <1>2, <1>5, <1>6 DEF Moves, Keeps, StillMissed, Tasks, Pcs, e
<1>7. CASE task' = [task EXCEPT ![f].todo = Tail(@), ![f].pending = Append(@, e)]
  BY <1>0, <1>1, <1>2, <1>4, <1>5, <1>7 DEF Moves, Keeps, StillMissed, Tasks, Pcs, e
<1>8. CASE task' = [task EXCEPT ![f].todo = Tail(@), ![f].skipped = @ \cup {e}]
  BY <1>0, <1>1, <1>2, <1>4, <1>5, <1>8 DEF Moves, Keeps, StillMissed, Tasks, Pcs, e
<1> QED
  BY <1>3, <1>6, <1>7, <1>8

LEMMA EmbedMoves ==
  ASSUME TypeInv, NEW f \in Feeds, Embed(f)
  PROVE  /\ Moves(f, {"looking"}, {"marking", "storing"}) /\ Keeps(f) /\ StillMissed(f)
         /\ task[f].todo = <<>> /\ task'[f].todo = <<>>
         /\ task'[f].pending = task[f].pending
         /\ task'[f].pc = "marking" => task[f].pending = <<>>
         /\ stage = "running"
         /\ UNCHANGED <<Tables, Reported, sources, passed, conn>>
<1>0. task \in [Feeds -> Tasks]
  BY DEF TypeInv
<1>1. /\ stage = "running" /\ task[f].pc = "looking" /\ task[f].todo = <<>>
      /\ UNCHANGED <<Tables, Reported, sources, passed, conn>>
  BY DEF Embed, Polled, Tables, Reported
<1>2. CASE task[f].pending = <<>>
  <2> DEFINE t == [task[f] EXCEPT !.pc = "marking", !.outcome = "ok"]
  <2>1. t \in Tasks /\ t.pc = "marking" /\ t.stored = task[f].stored /\ t.got = task[f].got
        /\ t.todo = task[f].todo /\ t.pending = task[f].pending
        /\ t.skipped = task[f].skipped /\ t.outcome = "ok"
    BY <1>0 DEF Tasks, Pcs, Outcomes
  <2>2. task' = [task EXCEPT ![f] = t]
    BY <1>0, <1>2 DEF Embed
  <2>3. StillMissed(f)
    BY <1>1, <2>1, <2>2, Replaced DEF StillMissed, Missed
  <2> QED
    BY <1>1, <1>2, <2>1, <2>2, <2>3, Replaced DEF Moves, Keeps
<1>3. CASE task[f].pending # <<>>
  <2> DEFINE t == [task[f] EXCEPT !.pc = "storing"]
  <2>1. t \in Tasks /\ t.pc = "storing" /\ t.stored = task[f].stored /\ t.got = task[f].got
        /\ t.todo = task[f].todo /\ t.pending = task[f].pending /\ t.skipped = task[f].skipped
    BY <1>0 DEF Tasks, Pcs
  <2>2. task' = [task EXCEPT ![f] = t]
    BY <1>0, <1>3 DEF Embed
  <2>3. StillMissed(f)
    BY <1>1, <2>1, <2>2, Replaced DEF StillMissed, Missed
  <2> QED
    BY <1>1, <1>3, <2>1, <2>2, <2>3, Replaced DEF Moves, Keeps
<1> QED
  BY <1>2, <1>3

LEMMA OpenMoves ==
  ASSUME TypeInv, NEW f \in Feeds, Open(f)
  PROVE  /\ Moves(f, {"storing"}, {"batch"}) /\ Keeps(f) /\ StillMissed(f)
         /\ task'[f].todo = task[f].todo /\ task'[f].pending = task[f].pending
         /\ task'[f].recent = {i.entry : i \in {j \in items : Recent(j)}}
         /\ conn = None /\ conn' = f
         /\ UNCHANGED <<Tables, Reported, sources, passed>>
<1>0. task \in [Feeds -> Tasks] /\ {i.entry : i \in {j \in items : Recent(j)}} \subseteq Entries
  BY DEF TypeInv, Items
<1> QED
  BY <1>0 DEF Open, Moves, Keeps, StillMissed, Missed, Tables, Reported, Tasks, Pcs

LEMMA CompareMoves ==
  ASSUME TypeInv, NEW f \in Feeds, Compare(f)
  PROVE  /\ Moves(f, {"batch"}, {"batch", "insert"}) /\ Keeps(f) /\ StillMissed(f)
         /\ task[f].pending # <<>>
         /\ task'[f].todo = task[f].todo /\ task'[f].recent = task[f].recent
         /\ task'[f].pc = "insert" =>
              /\ ~Duplicate(Head(task[f].pending), task[f].recent)
              /\ task'[f].pending = task[f].pending
         /\ task'[f].pc = "batch" =>
              /\ Duplicate(Head(task[f].pending), task[f].recent)
              /\ task'[f].pending = Tail(task[f].pending)
         /\ UNCHANGED <<Tables, Reported, sources, passed, conn>>
<1> DEFINE dup == Duplicate(Head(task[f].pending), task[f].recent)
<1>0. task \in [Feeds -> Tasks] /\ Tail(task[f].pending) \in Seq(Entries)
      /\ task[f].pc = "batch" /\ task[f].pending # <<>>
      /\ UNCHANGED <<Tables, Reported, sources, passed, conn>>
  BY TaskFields, HeadTail DEF TypeInv, Compare, Tables, Reported
<1>1. task' = [task EXCEPT ![f].pc = IF dup THEN "batch" ELSE "insert",
                           ![f].pending = IF dup THEN Tail(@) ELSE @]
  BY DEF Compare
<1> HIDE DEF dup
<1>2. CASE dup
  <2>1. task' = [task EXCEPT ![f].pc = "batch", ![f].pending = Tail(@)]
    BY <1>1, <1>2
  <2> QED
    BY <1>0, <1>2, <2>1 DEF Moves, Keeps, StillMissed, Missed, Tasks, Pcs, dup
<1>3. CASE ~dup
  <2>1. task' = [task EXCEPT ![f].pc = "insert", ![f].pending = @]
    BY <1>1, <1>3
  <2> QED
    BY <1>0, <1>3, <2>1 DEF Moves, Keeps, StillMissed, Missed, Tasks, Pcs, dup
<1> QED
  BY <1>2, <1>3

Row(f) == [entry |-> Head(task[f].pending), by |-> f, day |-> today]

\* An INSERT stores its row, or ends the task with the constraint's error.
LEMMA InsertMoves ==
  ASSUME TypeInv, NEW f \in Feeds, Insert(f), task[f].pending # <<>>
  PROVE  /\ task[f].pc = "insert"
         /\ \/ /\ Moves(f, {"insert"}, {"batch"})
               /\ ~HasUrl(Head(task[f].pending))
               /\ items' = items \cup {Row(f)}
               /\ task'[f].todo = task[f].todo /\ task'[f].pending = Tail(task[f].pending)
               /\ task'[f].recent = task[f].recent \cup {Head(task[f].pending)}
               /\ task'[f].stored = task[f].stored + 1 /\ task'[f].got = task[f].got
               /\ StillMissed(f)
               /\ conn' = conn
            \/ /\ Moves(f, {"insert"}, {"ended"}) /\ task'[f].outcome = "error"
               /\ items' = items
               /\ conn' = None
         /\ UNCHANGED <<today, before, version, Reported, sources, passed>>
<1> DEFINE e == Head(task[f].pending)
<1>0. task \in [Feeds -> Tasks] /\ Tail(task[f].pending) \in Seq(Entries) /\ e \in Entries
      /\ task[f].recent \in SUBSET Entries /\ task[f].stored \in Nat
  BY TaskFields, HeadTail DEF TypeInv
<1>1. task[f].pc = "insert" /\ UNCHANGED <<today, before, version, Reported, sources, passed>>
  BY DEF Insert, Reported
<1>2. CASE HasUrl(e)
  <2>1. task' = [task EXCEPT ![f] = Gone("error")] /\ conn' = None /\ items' = items
    BY <1>2, Zenon DEF Insert
  <2>2. "error" \in Outcomes
    BY DEF Outcomes
  <2> QED
    BY <1>1, <2>1, <2>2, GoneIsEnded, Replaced DEF Moves
<1>3. CASE ~HasUrl(e)
  <2>1. /\ items' = items \cup {Row(f)} /\ conn' = conn
        /\ task' = [task EXCEPT ![f].pc = "batch", ![f].pending = Tail(@),
                                ![f].recent = @ \cup {e}, ![f].stored = @ + 1]
    BY <1>3, Zenon DEF Insert, Row, Extended
  <2> DEFINE t == [task[f] EXCEPT !.pc = "batch", !.pending = Tail(task[f].pending),
                                  !.recent = task[f].recent \cup {e},
                                  !.stored = task[f].stored + 1]
  <2>2. t \in Tasks /\ t.pc = "batch" /\ t.pending = Tail(task[f].pending)
        /\ t.recent = task[f].recent \cup {e} /\ t.stored = task[f].stored + 1
        /\ t.got = task[f].got /\ t.todo = task[f].todo /\ t.skipped = task[f].skipped
    <3>1. task[f] \in Tasks /\ task[f].stored + 1 \in Nat
          /\ task[f].recent \cup {e} \in SUBSET Entries
      BY <1>0
    <3> HIDE DEF e
    <3> QED
      BY <1>0, <3>1 DEF Tasks, Pcs
  <2>3. task' = [task EXCEPT ![f] = t]
    BY <1>0, <2>1
  <2>4. StillMissed(f)
    BY <1>1, <2>2, <2>3, Replaced DEF StillMissed, Missed
  <2> QED
    BY <1>1, <1>3, <2>1, <2>2, <2>3, <2>4, Replaced DEF Moves
<1> QED
  BY <1>2, <1>3

LEMMA CloseMoves ==
  ASSUME TypeInv, NEW f \in Feeds, Close(f)
  PROVE  /\ task[f].pending = <<>>
         /\ \/ /\ Moves(f, {"batch"}, {"marking"}) /\ Keeps(f) /\ StillMissed(f)
               /\ task'[f].todo = task[f].todo /\ task'[f].pending = task[f].pending
            \/ /\ Moves(f, {"batch"}, {"ended"}) /\ task'[f].outcome = None
         /\ conn' = None
         /\ UNCHANGED <<Tables, Reported, sources, passed>>
<1>0. task \in [Feeds -> Tasks]
  BY DEF TypeInv
<1>1. CASE stage = "running"
  BY <1>0, <1>1 DEF Close, Moves, Keeps, StillMissed, Missed, Tables, Reported, Tasks, Pcs, Outcomes
<1>2. CASE stage # "running"
  BY <1>0, <1>2 DEF Close, Moves, Gone, NoTask, Tables, Reported, Tasks, Pcs, Outcomes
<1> QED
  BY <1>1, <1>2

LEMMA MarkOkMoves ==
  ASSUME TypeInv, NEW f \in Feeds, MarkOk(f)
  PROVE  /\ Moves(f, {"marking"}, {"ended"}) /\ Keeps(f)
         /\ sources' \in [Feeds -> [validators : Nat, failing : BOOLEAN]]
         /\ sources'[f].validators = task[f].got /\ ~sources'[f].failing
         /\ \A g \in Feeds \ {f} : sources'[g] = sources[g]
         /\ passed' = IF task[f].outcome = "ok" THEN [passed EXCEPT ![f] = task[f].skipped] ELSE passed
         /\ UNCHANGED <<Tables, Reported, conn>>
<1>0. /\ task \in [Feeds -> Tasks] /\ task[f].got \in Nat
      /\ sources \in [Feeds -> [validators : Nat, failing : BOOLEAN]]
  BY TaskFields DEF TypeInv
<1> DEFINE t == Ended(task[f], task[f].outcome)
<1>1. t \in Tasks /\ t.pc = "ended" /\ t.stored = task[f].stored /\ t.got = task[f].got
  <2>1. task[f].outcome \in Outcomes /\ task[f].stored \in Nat /\ NoTask \in Tasks
    BY TaskFields DEF NoTask, Tasks, Pcs, Outcomes
  <2> QED
    BY <1>0, <2>1 DEF Ended, Tasks, Pcs
<1>2. task' = [task EXCEPT ![f] = t] /\ task[f].pc = "marking"
      /\ UNCHANGED <<Tables, Reported, conn>>
  BY DEF MarkOk, Tables, Reported
<1>3. Moves(f, {"marking"}, {"ended"}) /\ Keeps(f)
  BY <1>1, <1>2, Replaced DEF Moves, Keeps
<1>4. /\ sources' \in [Feeds -> [validators : Nat, failing : BOOLEAN]]
      /\ sources'[f].validators = task[f].got /\ ~sources'[f].failing
      /\ \A g \in Feeds \ {f} : sources'[g] = sources[g]
  BY <1>0 DEF MarkOk
<1>5. passed' = IF task[f].outcome = "ok" THEN [passed EXCEPT ![f] = task[f].skipped] ELSE passed
  BY DEF MarkOk
<1> QED
  BY <1>2, <1>3, <1>4, <1>5

LEMMA MarkFailedMoves ==
  ASSUME TypeInv, NEW f \in Feeds, MarkFailed(f)
  PROVE  /\ Moves(f, {"failing"}, {"ended"}) /\ task'[f].outcome = "failed"
         /\ sources' \in [Feeds -> [validators : Nat, failing : BOOLEAN]]
         /\ \A g \in Feeds : sources'[g].validators = sources[g].validators
         /\ \A g \in Feeds \ {f} : sources'[g] = sources[g]
         /\ UNCHANGED <<Tables, Reported, conn, passed>>
<1>0. /\ task \in [Feeds -> Tasks]
      /\ sources \in [Feeds -> [validators : Nat, failing : BOOLEAN]]
  BY DEF TypeInv
<1>1. task' = [task EXCEPT ![f] = Gone("failed")] /\ task[f].pc = "failing"
      /\ UNCHANGED <<Tables, Reported, conn, passed>>
  BY DEF MarkFailed, Tables, Reported
<1>2. "failed" \in Outcomes
  BY DEF Outcomes
<1>3. Moves(f, {"failing"}, {"ended"}) /\ task'[f].outcome = "failed"
  BY <1>1, <1>2, GoneIsEnded, Replaced DEF Moves
<1>4. /\ sources' \in [Feeds -> [validators : Nat, failing : BOOLEAN]]
      /\ \A g \in Feeds : sources'[g].validators = sources[g].validators
      /\ \A g \in Feeds \ {f} : sources'[g] = sources[g]
  BY <1>0 DEF MarkFailed
<1> QED
  BY <1>1, <1>3, <1>4

LEMMA TaskErrsMoves ==
  ASSUME TypeInv, NEW f \in Feeds, TaskErrs(f)
  PROVE  /\ Moves(f, Pcs \ {"idle", "ended"}, {"ended"}) /\ task'[f].outcome = "error"
         /\ conn' = IF conn = f THEN None ELSE conn
         /\ UNCHANGED <<Tables, Reported, sources, passed>>
<1>1. task' = [task EXCEPT ![f] = Gone("error")] /\ task[f].pc \in Pcs \ {"idle", "ended"}
      /\ conn' = (IF conn = f THEN None ELSE conn)
      /\ UNCHANGED <<Tables, Reported, sources, passed>>
  BY DEF TaskErrs, Polled, Tables, Reported, Pcs
<1>2. "error" \in Outcomes
  BY DEF Outcomes
<1> QED
  BY <1>1, <1>2, GoneIsEnded, Replaced DEF Moves

-----------------------------------------------------------------------------
(* What the steps of the tool, of the budget and of others do *)

\* Neither the tables nor the tasks change: the mutex, the stage and the report.
AnswerStep ==
  Enter \/ MirrorErrs \/ (\E f \in Feeds : Join(f)) \/ Collected \/ AccountErrs \/ Accounted

LEMMA AnswerMoves ==
  ASSUME TypeInv, AnswerStep
  PROVE  /\ UNCHANGED <<Tables, sources, passed, task, conn>>
         /\ report' \in BOOLEAN /\ stage' \in {"idle", "mirroring", stage}
         /\ done' \in [Feeds -> Reports \cup {NotYet}]
<1>1. CASE Enter
  BY <1>1 DEF Enter, TypeInv, Tables
<1>2. CASE MirrorErrs \/ Collected \/ AccountErrs \/ Accounted
  BY <1>2 DEF MirrorErrs, Collected, AccountErrs, Accounted, Leave, TypeInv, Tables
<1>3. ASSUME NEW f \in Feeds, Join(f) PROVE done' \in [Feeds -> Reports \cup {NotYet}]
  <2>1. Report(task[f]) \in Reports
    BY TaskFields DEF Report, Reports
  <2> QED
    BY <1>3, <2>1 DEF Join, TypeInv
<1>4. CASE \E f \in Feeds : Join(f)
  BY <1>3, <1>4 DEF Join, TypeInv, Tables
<1> QED
  BY <1>1, <1>2, <1>4 DEF AnswerStep

LEMMA AccountMoves ==
  ASSUME TypeInv, NEW f \in Feeds, Account(f)
  PROVE  /\ UNCHANGED <<Tables, passed, task, conn, report, stage>>
         /\ stage = "accounting" /\ done[f] = NotYet
         /\ sources' \in [Feeds -> [validators : Nat, failing : BOOLEAN]]
         /\ \A g \in Feeds : sources'[g].validators = sources[g].validators
         /\ \A g \in Feeds \ {f} : sources'[g] = sources[g] /\ done'[g] = done[g]
         /\ done' \in [Feeds -> Reports \cup {NotYet}] /\ done'[f].status = "failed"
<1>1. [status |-> "failed", new |-> 0] \in Reports
  BY DEF Reports
<1> QED
  BY <1>1 DEF Account, TypeInv, Tables

\* The feeds are mirrored and each enabled one has a fresh task.
LEMMA MirrorMoves ==
  ASSUME TypeInv, Mirror
  PROVE  /\ \A f \in Feeds : task[f].pc \notin {"batch", "insert"}
         /\ task' \in [Feeds -> Tasks]
         /\ \A f \in Enabled : /\ task'[f].pc = "queued" /\ task'[f].stored = 0
                               /\ task'[f].todo = <<>> /\ task'[f].pending = <<>>
         /\ \A f \in Feeds \ Enabled : task'[f] = task[f]
         /\ done' = [f \in Feeds |-> NotYet] /\ before' = items
         /\ stage = "mirroring"
         /\ UNCHANGED <<items, today, version, sources, passed, conn, report>>
<1>0. NoTask \in Tasks
  BY DEF NoTask, Tasks, Pcs, Outcomes
<1>1. [NoTask EXCEPT !.pc = "queued"] \in Tasks
  BY <1>0 DEF Tasks, Pcs
<1>2. \A f \in Feeds : task[f].pc \notin {"batch", "insert"}
  BY DEF Mirror, Calling
<1> QED
  BY <1>1, <1>2, FeedsAssumption DEF Mirror, NoTask, TypeInv

\* Of the calls that were begun, the one that holds the connection goes on; what is
\* dropped leaves an ended task without an outcome.
LEMMA DeadlineMoves ==
  ASSUME TypeInv, Deadline
  PROVE  /\ stage = "running" /\ stage' = "accounting"
         /\ task' \in [Feeds -> Tasks]
         /\ \A f \in Feeds :
              \/ task'[f] = task[f]
              \/ /\ task[f].pc \notin {"idle", "ended"} /\ conn # f
                 /\ task'[f].pc = "ended" /\ task'[f].outcome = None
         /\ UNCHANGED <<Tables, sources, passed, conn, report, done>>
<1>1. Gone(None) \in Tasks /\ Gone(None).pc = "ended" /\ Gone(None).outcome = None
  BY GoneIsEnded DEF Outcomes
<1>2. PICK S \in SUBSET {f \in Enabled : Calling(f)} :
       /\ conn # None => conn \in S
       /\ task' = [f \in Feeds |->
            IF f \in S \/ task[f].pc \in {"idle", "ended"}
              THEN task[f] ELSE Gone(None)]
  BY Zenon DEF Deadline
<1>3. ASSUME NEW f \in Feeds, conn = f PROVE f \in S
  BY <1>2, <1>3, FeedsAssumption DEF None
<1>4. ASSUME NEW f \in Feeds
      PROVE  \/ task'[f] = task[f]
             \/ /\ task[f].pc \notin {"idle", "ended"} /\ conn # f
                /\ task'[f] = Gone(None)
  BY <1>2, <1>3
<1>5. task' \in [Feeds -> Tasks]
  BY <1>1, <1>2 DEF TypeInv
<1>6. /\ stage = "running" /\ stage' = "accounting"
      /\ UNCHANGED <<Tables, sources, passed, conn, report, done>>
  BY DEF Deadline, Tables
<1> QED
  BY <1>1, <1>4, <1>5, <1>6

LEMMA OtherMoves ==
  ASSUME TypeInv, NEW e \in Elsewhere, OtherStores(e)
  PROVE  /\ ~HasUrl(e) /\ e \in Entries
         /\ items' = items \cup {[entry |-> e, by |-> None, day |-> today]}
         /\ UNCHANGED <<today, version, before, task, conn, sources, passed, report, stage, done>>
  BY FeedsAssumption DEF OtherStores

LEMMA NextRunMoves ==
  ASSUME TypeInv, NextRun
  PROVE  /\ today' = today + 1
         /\ version' \in [Feeds -> Nat] /\ \A f \in Feeds : version'[f] \in DOMAIN Content[f]
         /\ task' \in [Feeds -> Tasks] /\ \A f \in Feeds : task'[f].pc = "idle"
         /\ report' = FALSE /\ stage' = "idle" /\ conn' = None /\ before' = {}
         /\ done' = [f \in Feeds |-> NotYet]
         /\ UNCHANGED <<items, sources, passed>>
<1>1. PICK S \in SUBSET {f \in Feeds : version[f] < Len(Content[f])} :
       version' = [f \in Feeds |-> IF f \in S THEN version[f] + 1 ELSE version[f]]
  BY Zenon DEF NextRun
<1>2. \A f \in Feeds : Content[f] \in Seq(Seq(Entries)) /\ version[f] \in DOMAIN Content[f]
                       /\ version[f] \in Nat
  BY FeedsAssumption DEF TypeInv
<1>3. ASSUME NEW f \in Feeds PROVE version'[f] \in Nat /\ version'[f] \in DOMAIN Content[f]
  <2>1. CASE f \in S
    BY <1>1, <1>2, <2>1
  <2>2. CASE f \notin S
    BY <1>1, <1>2, <2>2
  <2> QED
    BY <2>1, <2>2
<1>4. NoTask \in Tasks /\ NoTask.pc = "idle"
  BY DEF NoTask, Tasks, Pcs, Outcomes
<1> QED
  BY <1>1, <1>3, <1>4 DEF NextRun

\* The steps, as the proofs take them.
LEMMA Steps ==
  ASSUME [Next]_vars
  PROVE  \/ AnswerStep \/ Mirror \/ Deadline \/ NextRun
         \/ UNCHANGED <<Tables, task, conn, Reported, sources, passed>>
         \/ \E f \in Feeds : TaskStep(f) \/ Account(f)
         \/ \E e \in Elsewhere : OtherStores(e)
  BY Zenon DEF Next, RunStep, AnswerStep, vars, Tables, Reported

-----------------------------------------------------------------------------
(* Types, and the connection *)

\* What is stored: rows of the table, and one more of them.
LEMMA OneRowMore ==
  ASSUME TypeInv, NEW x \in Items, x.day = today, items' = items \cup {x}, today' = today
  PROVE  /\ items' \in SUBSET Items /\ IsFiniteSet(items')
         /\ \A i \in items' : i.day <= today'
  BY FS_AddElement DEF TypeInv

LEMMA RowHasType ==
  ASSUME TypeInv, NEW f \in Feeds \cup {None}, NEW e \in Entries
  PROVE  LET x == [entry |-> e, by |-> f, day |-> today] IN
         x \in Items /\ x.day = today /\ x.by = f /\ x.entry = e
  BY DEF TypeInv, Items

LEMMA StepType == TypeInv /\ LockInv /\ [Next]_vars => TypeInv'
<1> SUFFICES ASSUME TypeInv, LockInv, [Next]_vars PROVE TypeInv'
  OBVIOUS
<1>1. CASE AnswerStep
  BY <1>1, AnswerMoves DEF TypeInv, Tables
<1>2. CASE Mirror
  BY <1>2, MirrorMoves DEF Mirror, TypeInv
<1>3. CASE Deadline
  BY <1>3, DeadlineMoves DEF TypeInv, Tables
<1>4. CASE NextRun
  <2>1. \A i \in items : i.day <= today + 1
    <3> SUFFICES ASSUME NEW i \in items PROVE i.day <= today + 1
      OBVIOUS
    <3>1. i.day \in Nat /\ i.day <= today /\ today \in Nat
      BY DEF TypeInv, Items
    <3> QED
      BY <3>1
  <2>2. done' \in [Feeds -> Reports \cup {NotYet}]
    BY <1>4, NextRunMoves
  <2>3. /\ today' = today + 1 /\ report' = FALSE /\ stage' = "idle" /\ conn' = None
        /\ before' = {} /\ items' = items /\ sources' = sources /\ task' \in [Feeds -> Tasks]
    BY <1>4, NextRunMoves
  <2>4. version' \in [Feeds -> Nat] /\ \A f \in Feeds : version'[f] \in DOMAIN Content[f]
    BY <1>4, NextRunMoves
  <2>5. today' \in Nat /\ \A i \in items' : i.day <= today'
    BY <2>1, <2>3 DEF TypeInv
  <2>6. items' \in SUBSET Items /\ IsFiniteSet(items') /\ before' \subseteq items'
        /\ sources' \in [Feeds -> [validators : Nat, failing : BOOLEAN]]
    BY <2>3 DEF TypeInv
  <2>7. report' \in BOOLEAN /\ stage' \in {"idle", "mirroring", "running", "accounting"}
        /\ conn' \in Feeds \cup {None} /\ task' \in [Feeds -> Tasks]
    BY <2>3
  <2> QED
    BY <2>2, <2>4, <2>5, <2>6, <2>7, Zenon DEF TypeInv
<1>5. CASE UNCHANGED <<Tables, task, conn, Reported, sources, passed>>
  BY <1>5 DEF TypeInv, Tables, Reported
<1>6. ASSUME NEW f \in Feeds, Account(f) PROVE TypeInv'
  BY <1>6, AccountMoves DEF TypeInv, Tables
<1>7. ASSUME NEW e \in Elsewhere, OtherStores(e) PROVE TypeInv'
  BY <1>7, OtherMoves, RowHasType, OneRowMore DEF TypeInv
<1>8. ASSUME NEW f \in Feeds, TaskStep(f) PROVE TypeInv'
  <2>1. CASE Fetch(f)
    BY <2>1, FetchMoves DEF TypeInv, Moves, Tables, Reported
  <2>2. CASE Look(f)
    BY <2>2, LookMoves DEF TypeInv, Moves, Tables, Reported
  <2>3. CASE Embed(f)
    BY <2>3, EmbedMoves DEF TypeInv, Moves, Tables, Reported
  <2>4. CASE Open(f)
    BY <2>4, OpenMoves DEF TypeInv, Moves, Tables, Reported
  <2>5. CASE Compare(f)
    BY <2>5, CompareMoves DEF TypeInv, Moves, Tables, Reported
  <2>6. CASE Insert(f)
    <3>1. task[f].pending # <<>> /\ Head(task[f].pending) \in Entries
      BY <2>6, TaskFields, HeadTail DEF Insert, LockInv
    <3>2. Row(f) \in Items /\ Row(f).day = today
      BY <3>1, RowHasType DEF Row
    <3>3. /\ items' \in SUBSET Items /\ IsFiniteSet(items') /\ items \subseteq items'
          /\ \A i \in items' : i.day <= today'
      BY <2>6, <3>1, <3>2, InsertMoves, OneRowMore DEF TypeInv
    <3>4. task' \in [Feeds -> Tasks] /\ conn' \in Feeds \cup {None}
      BY <2>6, <3>1, InsertMoves DEF TypeInv, Moves
    <3> QED
      BY <2>6, <3>1, <3>3, <3>4, InsertMoves DEF TypeInv, Reported
  <2>7. CASE Close(f)
    BY <2>7, CloseMoves DEF TypeInv, Moves, Tables, Reported
  <2>8. CASE MarkOk(f)
    BY <2>8, MarkOkMoves DEF TypeInv, Moves, Tables, Reported
  <2>9. CASE MarkFailed(f)
    BY <2>9, MarkFailedMoves DEF TypeInv, Moves, Tables, Reported
  <2>10. CASE TaskErrs(f)
    BY <2>10, TaskErrsMoves DEF TypeInv, Moves, Tables, Reported
  <2> QED
    BY <1>8, <2>1, <2>2, <2>3, <2>4, <2>5, <2>6, <2>7, <2>8, <2>9, <2>10 DEF TaskStep
<1> QED
  BY <1>1, <1>2, <1>3, <1>4, <1>5, <1>6, <1>7, <1>8, Steps

\* None is not a feed's name.
LEMMA NoFeed == \A f \in Feeds : f # None
  BY FeedsAssumption DEF None

LEMMA StepLock == TypeInv /\ LockInv /\ [Next]_vars => LockInv'
<1> SUFFICES ASSUME TypeInv, LockInv, [Next]_vars PROVE LockInv'
  OBVIOUS
<1>1. CASE AnswerStep
  BY <1>1, AnswerMoves DEF LockInv
<1>2. CASE Mirror
  BY <1>2, MirrorMoves, FeedsAssumption DEF LockInv
<1>3. CASE Deadline
  BY <1>3, DeadlineMoves DEF LockInv
<1>4. CASE NextRun
  BY <1>4, NextRunMoves, NoFeed DEF LockInv
<1>5. CASE UNCHANGED <<Tables, task, conn, Reported, sources, passed>>
  BY <1>5 DEF LockInv
<1>6. ASSUME NEW f \in Feeds, Account(f) PROVE LockInv'
  BY <1>6, AccountMoves DEF LockInv
<1>7. ASSUME NEW e \in Elsewhere, OtherStores(e) PROVE LockInv'
  BY <1>7, OtherMoves DEF LockInv
<1>8. ASSUME NEW f \in Feeds, TaskStep(f) PROVE LockInv'
  <2>1. CASE Fetch(f)
    BY <2>1, FetchMoves DEF LockInv, Moves
  <2>2. CASE Look(f)
    BY <2>2, LookMoves DEF LockInv, Moves
  <2>3. CASE Embed(f)
    BY <2>3, EmbedMoves DEF LockInv, Moves
  <2>4. CASE Open(f)
    BY <2>4, OpenMoves, NoFeed DEF LockInv, Moves
  <2>5. CASE Compare(f)
    BY <2>5, CompareMoves DEF LockInv, Moves
  <2>6. CASE Insert(f)
    <3>1. task[f].pending # <<>>
      BY <2>6 DEF Insert, LockInv
    <3> QED
      BY <2>6, <3>1, InsertMoves, NoFeed DEF LockInv, Moves
  <2>7. CASE Close(f)
    BY <2>7, CloseMoves, NoFeed DEF LockInv, Moves
  <2>8. CASE MarkOk(f)
    BY <2>8, MarkOkMoves DEF LockInv, Moves
  <2>9. CASE MarkFailed(f)
    BY <2>9, MarkFailedMoves DEF LockInv, Moves
  <2>10. CASE TaskErrs(f)
    BY <2>10, TaskErrsMoves, NoFeed DEF LockInv, Moves
  <2> QED
    BY <1>8, <2>1, <2>2, <2>3, <2>4, <2>5, <2>6, <2>7, <2>8, <2>9, <2>10 DEF TaskStep
<1> QED
  BY <1>1, <1>2, <1>3, <1>4, <1>5, <1>6, <1>7, <1>8, Steps

-----------------------------------------------------------------------------
(* One row for one article *)

LEMMA ItemFields ==
  ASSUME TypeInv, NEW i \in items
  PROVE  i \in Items /\ i.entry \in Entries /\ i.by \in Feeds \cup {None} /\ i.day \in Nat
         /\ i.day <= today
  BY DEF TypeInv, Items

\* The new row differs from each that is there by its url and, when feeds stored
\* both lately, by its title and its text.
LEMMA NewRowIsDistinct ==
  ASSUME TypeInv, ArticlesAreStoredOnce, NEW x \in Items, x.day = today,
         items' = items \cup {x}, ~HasUrl(x.entry), x.by = None \/ Fresh(x.entry)
  PROVE  ArticlesAreStoredOnce'
<1> DEFINE Apart(i, j) ==
      /\ UrlOf[i.entry] # UrlOf[j.entry]
      /\ None \notin {i.by, j.by} /\ SameDays(i, j) =>
           /\ TitleOf[i.entry] # TitleOf[j.entry]
           /\ <<i.entry, j.entry>> \notin Near
<1>1. ASSUME NEW i \in items PROVE Apart(i, x) /\ Apart(x, i)
  <2>1. UrlOf[i.entry] # UrlOf[x.entry]
    BY DEF HasUrl
  <2>2. ASSUME i.by # None, x.by # None, SameDays(i, x) \/ SameDays(x, i)
        PROVE  /\ TitleOf[i.entry] # TitleOf[x.entry]
               /\ <<i.entry, x.entry>> \notin Near /\ <<x.entry, i.entry>> \notin Near
    <3>1. i \in Ours
      BY <2>2 DEF Ours, SameDays, Recent
    <3>2. x.entry \in Entries /\ i.entry \in Entries
      BY ItemFields DEF Items
    <3> QED
      BY <2>2, <3>1, <3>2, CosineIsSymmetric DEF Fresh
  <2> QED
    BY <2>1, <2>2
<1>2. \A i, j \in items : i # j => Apart(i, j)
  BY Zenon DEF ArticlesAreStoredOnce
<1> HIDE DEF Apart
<1>3. \A i, j \in items' : i # j => Apart(i, j)
  BY <1>1, <1>2
<1> QED
  BY <1>3, Zenon DEF Apart, ArticlesAreStoredOnce, SameDays

\* A step that stores nothing of a feed leaves the rows to compare with alone.
LEMMA OursKept ==
  ASSUME today' = today,
         \/ items' = items
         \/ \E e \in Entries : items' = items \cup {[entry |-> e, by |-> None, day |-> today]}
  PROVE  Ours' = Ours /\ \A e : Fresh(e)' <=> Fresh(e)
<1>1. Ours' = Ours
  BY DEF Ours, Recent
<1> QED
  BY <1>1 DEF Fresh

\* An entry that is no duplicate of what the table and the projection hold is fresh.
LEMMA NoDuplicateIsFresh ==
  ASSUME TypeInv, NEW e, NEW recent, ~Duplicate(e, recent),
         \A i \in Ours : i.entry \in recent
  PROVE  Fresh(e)
  BY DEF Fresh, Duplicate, HasTitle, Ours

\* A step of a task that leaves the tables and does not come near the batch.
LEMMA FarFromBatch ==
  ASSUME TypeInv, OnceInv, NEW f \in Feeds, UNCHANGED Tables,
         Moves(f, Pcs, Pcs \ {"batch", "insert"})
  PROVE  OnceInv'
<1>1. Ours' = Ours /\ \A e : Fresh(e)' <=> Fresh(e)
  BY OursKept DEF Tables
<1>2. ArticlesAreStoredOnce'
  BY DEF OnceInv, ArticlesAreStoredOnce, Tables, SameDays
<1> QED
  BY <1>1, <1>2 DEF OnceInv, Moves

LEMMA StepOnce == TypeInv /\ LockInv /\ OnceInv /\ [Next]_vars => OnceInv'
<1> SUFFICES ASSUME TypeInv, LockInv, OnceInv, [Next]_vars PROVE OnceInv'
  OBVIOUS
<1>0. ASSUME items' = items, today' = today
      PROVE  Ours' = Ours /\ (\A e : Fresh(e)' <=> Fresh(e)) /\ ArticlesAreStoredOnce'
  BY <1>0, OursKept DEF OnceInv, ArticlesAreStoredOnce, SameDays
<1>1. CASE AnswerStep \/ UNCHANGED <<Tables, task, conn, Reported, sources, passed>>
  <2>1. UNCHANGED <<items, today, task>>
    BY <1>1, AnswerMoves DEF Tables
  <2> QED
    BY <1>0, <2>1 DEF OnceInv
<1>2. CASE Mirror
  <2>1. \A f \in Feeds : task'[f].pc \notin {"batch", "insert"}
    BY <1>2, MirrorMoves
  <2> QED
    BY <1>0, <1>2, <2>1, MirrorMoves DEF OnceInv
<1>3. CASE Deadline
  <2>1. \A f \in Feeds : task'[f].pc \in {"batch", "insert"} => task'[f] = task[f]
    BY <1>3, DeadlineMoves
  <2>2. items' = items /\ today' = today
    BY <1>3, DeadlineMoves DEF Tables
  <2> QED
    BY <1>0, <2>1, <2>2 DEF OnceInv
<1>4. CASE NextRun
  <2>1. ArticlesAreStoredOnce'
    BY <1>4, NextRunMoves DEF OnceInv, ArticlesAreStoredOnce, SameDays
  <2> QED
    BY <1>4, <2>1, NextRunMoves DEF OnceInv
<1>6. ASSUME NEW f \in Feeds, Account(f) PROVE OnceInv'
  <2>1. UNCHANGED <<items, today, task>>
    BY <1>6, AccountMoves DEF Tables
  <2> QED
    BY <1>0, <2>1 DEF OnceInv
<1>7. ASSUME NEW e \in Elsewhere, OtherStores(e) PROVE OnceInv'
  <2> DEFINE x == [entry |-> e, by |-> None, day |-> today]
  <2>1. /\ items' = items \cup {x} /\ today' = today /\ task' = task
        /\ ~HasUrl(e) /\ e \in Entries
    BY <1>7, OtherMoves
  <2>2. Ours' = Ours /\ \A y : Fresh(y)' <=> Fresh(y)
    BY <2>1, OursKept
  <2>3. x \in Items /\ x.day = today /\ x.by = None /\ x.entry = e
    BY <2>1, RowHasType
  <2> HIDE DEF x
  <2>4. ArticlesAreStoredOnce'
    BY <2>1, <2>3, NewRowIsDistinct DEF OnceInv
  <2> QED
    BY <2>1, <2>2, <2>4 DEF OnceInv
<1>8. ASSUME NEW f \in Feeds, TaskStep(f) PROVE OnceInv'
  <2>1. CASE Fetch(f)
    BY <2>1, FetchMoves, FarFromBatch DEF Moves, Pcs
  <2>2. CASE Look(f)
    BY <2>2, LookMoves, FarFromBatch DEF Moves, Pcs
  <2>3. CASE Embed(f)
    BY <2>3, EmbedMoves, FarFromBatch DEF Moves, Pcs
  <2>4. CASE Open(f)
    <3>1. /\ task[f].pc = "storing" /\ task'[f].pc = "batch" /\ UNCHANGED <<items, today>>
          /\ task'[f].recent = {i.entry : i \in {j \in items : Recent(j)}}
          /\ \A g \in Feeds \ {f} : task'[g] = task[g]
      BY <2>4, OpenMoves DEF Moves, Tables
    <3>2. \A i \in Ours : i.entry \in task'[f].recent
      BY <3>1 DEF Ours
    <3> QED
      BY <1>0, <3>1, <3>2 DEF OnceInv
  <2>5. CASE Compare(f)
    <3>1. /\ task[f].pc = "batch" /\ UNCHANGED <<items, today>>
          /\ task'[f].recent = task[f].recent
          /\ task'[f].pc = "insert" =>
               /\ ~Duplicate(Head(task[f].pending), task[f].recent)
               /\ task'[f].pending = task[f].pending
          /\ \A g \in Feeds \ {f} : task'[g] = task[g]
      BY <2>5, CompareMoves DEF Moves, Tables
    <3>2. \A i \in Ours : i.entry \in task[f].recent
      BY <3>1 DEF OnceInv
    <3>3. task'[f].pc = "insert" => Fresh(Head(task'[f].pending))
      BY <3>1, <3>2, NoDuplicateIsFresh
    <3> QED
      BY <1>0, <3>1, <3>2, <3>3 DEF OnceInv
  <2>6. CASE Insert(f)
    <3>1. task[f].pending # <<>> /\ Head(task[f].pending) \in Entries /\ task[f].pc = "insert"
      BY <2>6, TaskFields, HeadTail DEF Insert, LockInv
    <3>2. conn = f
      BY <3>1 DEF LockInv
    <3>3. CASE /\ Moves(f, {"insert"}, {"batch"})
               /\ ~HasUrl(Head(task[f].pending))
               /\ items' = items \cup {Row(f)}
               /\ task'[f].recent = task[f].recent \cup {Head(task[f].pending)}
               /\ today' = today
      <4>1. Row(f) \in Items /\ Row(f).day = today /\ Row(f).by = f
            /\ Row(f).entry = Head(task[f].pending)
        BY <3>1, RowHasType DEF Row
      <4>2. Fresh(Head(task[f].pending))
        BY <3>1 DEF OnceInv
      <4>3. ArticlesAreStoredOnce'
        BY <3>3, <4>1, <4>2, NewRowIsDistinct DEF OnceInv
      <4>4. Ours' \subseteq Ours \cup {Row(f)}
        BY <3>3 DEF Ours, Recent
      <4>5. \A i \in Ours' : i.entry \in task'[f].recent
        BY <3>1, <3>3, <4>1, <4>4 DEF OnceInv
      <4>6. \A g \in Feeds \ {f} : task'[g].pc \notin {"batch", "insert"}
        BY <3>2, <3>3 DEF LockInv, Moves
      <4>7. task'[f].pc = "batch"
        BY <3>3 DEF Moves
      <4> QED
        BY <4>3, <4>5, <4>6, <4>7 DEF OnceInv
    <3>4. CASE Moves(f, {"insert"}, {"ended"}) /\ items' = items /\ today' = today
      BY <1>0, <3>4 DEF OnceInv, Moves
    <3> QED
      BY <2>6, <3>1, <3>3, <3>4, InsertMoves
  <2>7. CASE Close(f)
    BY <2>7, CloseMoves, FarFromBatch DEF Moves, Pcs
  <2>8. CASE MarkOk(f)
    BY <2>8, MarkOkMoves, FarFromBatch DEF Moves, Pcs
  <2>9. CASE MarkFailed(f)
    BY <2>9, MarkFailedMoves, FarFromBatch DEF Moves, Pcs
  <2>10. CASE TaskErrs(f)
    BY <2>10, TaskErrsMoves, FarFromBatch DEF Moves, Pcs
  <2> QED
    BY <1>8, <2>1, <2>2, <2>3, <2>4, <2>5, <2>6, <2>7, <2>8, <2>9, <2>10 DEF TaskStep
<1> QED
  BY <1>1, <1>2, <1>3, <1>4, <1>6, <1>7, <1>8, Steps

-----------------------------------------------------------------------------
(* Reports *)


\* A step that neither mirrors nor stores an item of the feed keeps its count.
LEMMA NewKept ==
  ASSUME NEW f \in Feeds, before' = before,
         \/ items' = items
         \/ \E x : x.by # f /\ items' = items \cup {x}
  PROVE  NewOf(f)' = NewOf(f)
  BY DEF NewOf

\* What the invariant says of one feed.
ReportOf(f) ==
  /\ task[f].pc \notin {"idle", "ended"} => Counted(f)
  /\ stage = "running" /\ task[f].pc = "ended" /\ task[f].outcome \in Fine => Fetched(f)
  /\ done[f].status \in Fine => Fetched(f) /\ done[f].new = task[f].stored

\* And of a feed that a step has nothing to do with.
LEMMA ReportKept ==
  ASSUME NEW f \in Feeds, ReportOf(f), NewOf(f)' = NewOf(f),
         task'[f] = task[f], sources'[f] = sources[f],
         done'[f] = done[f] \/ done'[f].status \notin Fine,
         stage' = "running" => stage = "running"
  PROVE  ReportOf(f)'
  BY DEF ReportOf, Counted, Fetched

\* And of the one whose task goes on and stores nothing.
LEMMA ReportGoesOn ==
  ASSUME NEW f \in Feeds, ReportOf(f), NewOf(f)' = NewOf(f),
         task[f].pc \notin {"idle", "ended"}, task'[f].pc # "ended",
         task'[f].stored = task[f].stored, done'[f] = done[f]
  PROVE  ReportOf(f)'
  BY DEF ReportOf, Counted, Fetched

\* A task that ends badly has no report to be true of.
LEMMA ReportEnds ==
  ASSUME NEW f \in Feeds, ReportOf(f),
         task[f].pc \notin {"idle", "ended"}, task'[f].pc = "ended",
         task'[f].outcome \notin Fine, done'[f] = done[f]
  PROVE  ReportOf(f)'
  BY DEF ReportOf, Fetched

\* The report is not there yet, or it stays as it is.
LEMMA AnswerKept ==
  ASSUME ReportInv, \A f \in Enabled : ReportOf(f)',
         \/ UNCHANGED <<report, stage, done>>
         \/ report' = FALSE
  PROVE  ReportInv'
  BY DEF ReportInv, ReportOf

LEMMA NotYetIsNotFine == NotYet.status \notin Fine
  BY DEF NotYet, None, Fine

LEMMA StepReport == TypeInv /\ LockInv /\ ReportInv /\ [Next]_vars => ReportInv'
<1> SUFFICES ASSUME TypeInv, LockInv, ReportInv, [Next]_vars PROVE ReportInv'
  OBVIOUS
<1> USE FeedsAssumption
<1>0. (\A f \in Enabled : ReportOf(f)) /\ (report => stage = "idle")
  BY DEF ReportInv, ReportOf
<1>1. CASE AnswerStep
  <2>1. UNCHANGED <<items, before, sources, task>> /\ \A f \in Enabled : NewOf(f)' = NewOf(f)
    BY <1>1, AnswerMoves, NewKept DEF Tables
  <2>2. CASE Enter \/ MirrorErrs \/ AccountErrs
    <3>1. /\ done' = done /\ (stage' = "running" => stage = "running")
          /\ UNCHANGED <<report, stage>> \/ report' = FALSE
      BY <2>2 DEF Enter, MirrorErrs, AccountErrs, Leave, TypeInv
    <3> QED
      BY <1>0, <2>1, <3>1, ReportKept, AnswerKept
  <2>3. CASE Collected \/ Accounted
    <3>1. /\ done' = done /\ stage' = "idle" /\ \A f \in Enabled : done[f] # NotYet
      BY <2>3 DEF Collected, Accounted, Leave
    <3>2. \A f \in Enabled : ReportOf(f)'
      BY <1>0, <2>1, <3>1, ReportKept
    <3> QED
      BY <3>1, <3>2 DEF ReportInv, ReportOf
  <2>4. ASSUME NEW f \in Feeds, Join(f) PROVE ReportInv'
    <3>1. /\ stage = "running" /\ task[f].pc = "ended" /\ UNCHANGED <<stage, report>>
          /\ done'[f] = Report(task[f]) /\ \A g \in Feeds \ {f} : done'[g] = done[g]
      BY <2>4 DEF Join, TypeInv
    <3>2. report' = FALSE
      BY <1>0, <3>1 DEF TypeInv
    <3>3. ASSUME f \in Enabled PROVE ReportOf(f)'
      <4>1. CASE task[f].outcome \in Fine
        <5>1. Fetched(f) /\ done'[f].new = task[f].stored
          BY <1>0, <3>1, <3>3, <4>1 DEF ReportOf, Report, Fine
        <5> QED
          BY <2>1, <3>1, <5>1, NewKept DEF ReportOf, Fetched, Counted
      <4>2. CASE task[f].outcome \notin Fine
        <5>1. done'[f].status \notin Fine
          BY <3>1, <4>2 DEF Report, Fine
        <5> QED
          BY <2>1, <3>1, <4>2, <5>1 DEF ReportOf
      <4> QED
        BY <4>1, <4>2
    <3>4. \A g \in Enabled : g # f => ReportOf(g)'
      BY <1>0, <2>1, <3>1, ReportKept
    <3> QED
      BY <3>2, <3>3, <3>4, AnswerKept
  <2> QED
    BY <1>1, <2>2, <2>3, <2>4 DEF AnswerStep
<1>2. CASE Mirror
  <2>1. report' = FALSE
    BY <1>0, <1>2, MirrorMoves DEF TypeInv
  <2>2. ASSUME NEW f \in Enabled PROVE ReportOf(f)'
    <3>1. task'[f].pc = "queued" /\ task'[f].stored = 0 /\ done'[f] = NotYet
          /\ items' = items /\ before' = items
      BY <1>2, MirrorMoves
    <3>2. NewOf(f)' = {}
      BY <3>1 DEF NewOf
    <3>3. Counted(f)'
      BY <3>1, <3>2, FS_EmptySet DEF Counted
    <3> QED
      BY <3>1, <3>3, NotYetIsNotFine DEF ReportOf
  <2> QED
    BY <2>1, <2>2, AnswerKept
<1>3. CASE Deadline
  <2>1. /\ stage = "running" /\ stage' = "accounting"
        /\ UNCHANGED <<items, before, sources, report, done>>
        /\ \A f \in Feeds :
             \/ task'[f] = task[f]
             \/ /\ task[f].pc \notin {"idle", "ended"}
                /\ task'[f].pc = "ended" /\ task'[f].outcome = None
    BY <1>3, DeadlineMoves DEF Tables
  <2>2. report' = FALSE /\ None \notin Fine
    BY <1>0, <2>1 DEF TypeInv, None, Fine
  <2>3. ASSUME NEW f \in Enabled PROVE ReportOf(f)'
    <3>1. NewOf(f)' = NewOf(f)
      BY <2>1, NewKept
    <3> QED
      BY <1>0, <2>1, <2>2, <3>1, ReportKept, ReportEnds
  <2> QED
    BY <2>2, <2>3, AnswerKept
<1>4. CASE NextRun
  <2>1. ASSUME NEW f \in Enabled PROVE ReportOf(f)'
    BY <1>4, NextRunMoves, NotYetIsNotFine DEF ReportOf
  <2> QED
    BY <1>4, <2>1, NextRunMoves, AnswerKept
<1>5. CASE UNCHANGED <<Tables, task, conn, Reported, sources, passed>>
  <2>1. UNCHANGED <<items, before, task, report, stage, done, sources>>
    BY <1>5 DEF Tables, Reported
  <2> QED
    BY <1>0, <2>1, NewKept, ReportKept, AnswerKept
<1>6. ASSUME NEW f \in Feeds, Account(f) PROVE ReportInv'
  <2>1. /\ UNCHANGED <<items, before, task, report, stage>> /\ stage = "accounting"
        /\ \A g \in Feeds \ {f} : sources'[g] = sources[g] /\ done'[g] = done[g]
        /\ done'[f].status = "failed"
    BY <1>6, AccountMoves DEF Tables
  <2>2. report' = FALSE
    BY <1>0, <2>1 DEF TypeInv
  <2>3. \A g \in Enabled : g # f => ReportOf(g)'
    BY <1>0, <2>1, NewKept, ReportKept
  <2>4. f \in Enabled => ReportOf(f)'
    <3> SUFFICES ASSUME f \in Enabled PROVE ReportOf(f)'
      OBVIOUS
    <3>1. NewOf(f)' = NewOf(f)
      BY <2>1, NewKept
    <3> QED
      BY <1>0, <2>1, <3>1 DEF ReportOf, Counted, Fine
  <2> QED
    BY <2>2, <2>3, <2>4, AnswerKept
<1>7. ASSUME NEW e \in Elsewhere, OtherStores(e) PROVE ReportInv'
  <2> DEFINE x == [entry |-> e, by |-> None, day |-> today]
  <2>1. items' = items \cup {x} /\ UNCHANGED <<before, task, sources, report, stage, done>>
    BY <1>7, OtherMoves
  <2>2. \A f \in Enabled : x.by # f
    BY NoFeed
  <2> HIDE DEF x
  <2>3. \A f \in Enabled : NewOf(f)' = NewOf(f)
    BY <2>1, <2>2, NewKept
  <2> QED
    BY <1>0, <2>1, <2>3, ReportKept, AnswerKept
<1>8. ASSUME NEW f \in Feeds, TaskStep(f) PROVE ReportInv'
  <2>0. ASSUME UNCHANGED <<items, before, report, stage, done>>,
               \A g \in Feeds \ {f} : sources'[g] = sources[g] /\ task'[g] = task[g],
               f \in Enabled => ReportOf(f)'
        PROVE  ReportInv'
    BY <1>0, <2>0, NewKept, ReportKept, AnswerKept
  <2>1. ASSUME UNCHANGED <<Tables, Reported>>,
               \A g \in Feeds \ {f} : sources'[g] = sources[g] /\ task'[g] = task[g],
               task[f].pc \notin {"idle", "ended"},
               \/ task'[f].pc # "ended" /\ task'[f].stored = task[f].stored
               \/ task'[f].pc = "ended" /\ task'[f].outcome \notin Fine
        PROVE  ReportInv'
    <3>1. UNCHANGED <<items, before, report, stage, done>>
      BY <2>1 DEF Tables, Reported
    <3>2. NewOf(f)' = NewOf(f)
      BY <3>1, NewKept
    <3>3. f \in Enabled => ReportOf(f)'
      BY <1>0, <2>1, <3>1, <3>2, ReportGoesOn, ReportEnds
    <3> QED
      BY <2>0, <2>1, <3>1, <3>3
  <2>2. CASE Fetch(f)
    BY <2>1, <2>2, FetchMoves DEF Moves
  <2>3. CASE Look(f)
    BY <2>1, <2>3, LookMoves DEF Moves, Keeps
  <2>4. CASE Embed(f)
    BY <2>1, <2>4, EmbedMoves DEF Moves, Keeps
  <2>5. CASE Open(f)
    BY <2>1, <2>5, OpenMoves DEF Moves, Keeps
  <2>6. CASE Compare(f)
    BY <2>1, <2>6, CompareMoves DEF Moves, Keeps
  <2>7. CASE Close(f)
    BY <2>1, <2>7, CloseMoves DEF Moves, Keeps, None, Fine
  <2>8. CASE MarkFailed(f)
    BY <2>1, <2>8, MarkFailedMoves DEF Moves, Fine
  <2>9. CASE TaskErrs(f)
    BY <2>1, <2>9, TaskErrsMoves DEF Moves, Fine
  <2>10. CASE MarkOk(f)
    <3>1. /\ task[f].pc = "marking" /\ task'[f].pc = "ended" /\ Keeps(f)
          /\ sources'[f].validators = task[f].got /\ ~sources'[f].failing
          /\ UNCHANGED <<items, before, report, stage, done>>
          /\ \A g \in Feeds \ {f} : sources'[g] = sources[g] /\ task'[g] = task[g]
      BY <2>10, MarkOkMoves DEF Moves, Tables, Reported
    <3>2. ASSUME f \in Enabled PROVE ReportOf(f)'
      <4>1. Counted(f)'
        BY <1>0, <3>1, <3>2, NewKept DEF ReportOf, Counted, Keeps
      <4>2. Fetched(f)'
        BY <3>1, <4>1 DEF Fetched, Keeps
      <4>3. done[f].status \notin Fine
        BY <1>0, <3>1, <3>2 DEF ReportOf, Fetched
      <4> QED
        BY <3>1, <4>2, <4>3 DEF ReportOf
    <3> QED
      BY <2>0, <3>1, <3>2
  <2>11. CASE Insert(f)
    <3>1. task[f].pending # <<>> /\ Head(task[f].pending) \in Entries /\ task[f].pc = "insert"
      BY <2>11, TaskFields, HeadTail DEF Insert, LockInv
    <3>2. f \in Enabled
      BY <3>1 DEF LockInv
    <3>3. UNCHANGED <<before, report, stage, done, sources>>
      BY <2>11, <3>1, InsertMoves DEF Reported
    <3>4. CASE Moves(f, {"insert"}, {"ended"}) /\ task'[f].outcome = "error" /\ items' = items
      <4>1. ReportOf(f)'
        BY <1>0, <3>2, <3>3, <3>4, ReportEnds DEF Moves, Fine
      <4> QED
        BY <2>0, <3>3, <3>4, <4>1 DEF Moves
    <3>5. CASE /\ Moves(f, {"insert"}, {"batch"})
               /\ ~HasUrl(Head(task[f].pending))
               /\ items' = items \cup {Row(f)}
               /\ task'[f].stored = task[f].stored + 1
      <4>1. Row(f).by = f /\ Row(f).entry = Head(task[f].pending)
        BY DEF Row
      <4>2. Row(f) \notin items /\ Row(f) \notin before
        BY <3>5, <4>1 DEF HasUrl, TypeInv
      <4>3. NewOf(f)' = NewOf(f) \cup {Row(f)} /\ Row(f) \notin NewOf(f)
        BY <3>3, <3>5, <4>1, <4>2 DEF NewOf
      <4>4. IsFiniteSet(NewOf(f))
        <5>1. NewOf(f) \in SUBSET items
          BY DEF NewOf
        <5> QED
          BY <5>1, FS_Subset DEF TypeInv
      <4>5. Cardinality(NewOf(f)') = Cardinality(NewOf(f)) + 1
        BY <4>3, <4>4, FS_AddElement
      <4>6. Counted(f)
        BY <1>0, <3>1, <3>2 DEF ReportOf
      <4>7. Counted(f)'
        BY <3>5, <4>5, <4>6 DEF Counted
      <4>8. ReportOf(f)'
        <5>1. task'[f].pc = "batch"
          BY <3>5 DEF Moves
        <5>2. done[f].status \notin Fine
          BY <1>0, <3>1, <3>2 DEF ReportOf, Fetched
        <5> QED
          BY <3>3, <4>7, <5>1, <5>2 DEF ReportOf
      <4>9. \A g \in Enabled : g # f => NewOf(g)' = NewOf(g)
        BY <3>3, <3>5, <4>1, NewKept
      <4>10. \A g \in Enabled : g # f => ReportOf(g)'
        BY <1>0, <3>3, <3>5, <4>9, ReportKept DEF Moves
      <4> QED
        BY <3>3, <4>8, <4>10, AnswerKept
    <3> QED
      BY <2>11, <3>1, <3>4, <3>5, InsertMoves
  <2> QED
    BY <1>8, <2>2, <2>3, <2>4, <2>5, <2>6, <2>7, <2>8, <2>9, <2>10, <2>11 DEF TaskStep
<1> QED
  BY <1>1, <1>2, <1>3, <1>4, <1>5, <1>6, <1>7, <1>8, Steps

-----------------------------------------------------------------------------
(* Validators *)

\* What is kept stays kept.
LEMMA KeptStays ==
  ASSUME items \subseteq items', NEW e, Kept(e)
  PROVE  Kept(e)'
  BY DEF Kept

LEMMA ValidatorsStay ==
  ASSUME ValidatorsFollowItems, items \subseteq items', passed' = passed,
         \A f \in Feeds : sources'[f].validators = sources[f].validators
  PROVE  ValidatorsFollowItems'
  BY KeptStays DEF ValidatorsFollowItems

\* What the invariant says of one feed.
OnItsWay(f) ==
  /\ task[f].pc = "queued" => task[f].todo = <<>> /\ task[f].pending = <<>>
  /\ task[f].pc \in {"looking", "storing", "batch", "insert", "marking"} => Underway(f)
  /\ task[f].pc \in {"storing", "batch", "insert", "marking"} => task[f].todo = <<>>
  /\ task[f].pc = "marking" => task[f].pending = <<>>
  /\ task[f].pc \in {"batch", "insert"} =>
       task[f].recent \subseteq {i.entry : i \in items}

LEMMA OnItsWayStays ==
  ASSUME NEW f \in Feeds, OnItsWay(f), items \subseteq items', task'[f] = task[f],
         passed'[f] = passed[f]
  PROVE  OnItsWay(f)'
<1>1. Underway(f) => Underway(f)'
  BY KeptStays DEF Underway, Missed
<1>2. {i.entry : i \in items} \subseteq {i.entry : i \in items'}
  OBVIOUS
<1> QED
  BY <1>1, <1>2 DEF OnItsWay

\* A task goes on with the same entries.
LEMMA OnItsWayGoesOn ==
  ASSUME NEW f \in Feeds, Underway(f), items \subseteq items', Keeps(f), StillMissed(f),
         \A e : e \in ToSet(task[f].todo) \/ e \in ToSet(task[f].pending) =>
           \/ Kept(e)' \/ e \in Missed(f)'
           \/ e \in ToSet(task'[f].todo) \/ e \in ToSet(task'[f].pending)
  PROVE  Underway(f)'
  BY KeptStays DEF Underway, Keeps, StillMissed

\* A duplicate is kept: as itself, or as what it duplicates.
LEMMA DuplicateIsKept ==
  ASSUME NEW e, NEW recent \in SUBSET {i.entry : i \in items}, Duplicate(e, recent)
  PROVE  Kept(e)
  BY DEF Duplicate, HasUrl, HasTitle, Kept

LEMMA StepValidators == TypeInv /\ LockInv /\ ValidatorsInv /\ [Next]_vars => ValidatorsInv'
<1> SUFFICES ASSUME TypeInv, LockInv, ValidatorsInv, [Next]_vars PROVE ValidatorsInv'
  OBVIOUS
<1>0. /\ ValidatorsFollowItems /\ \A f \in Feeds : OnItsWay(f)
      /\ passed \in [Feeds -> SUBSET Entries]
  BY DEF ValidatorsInv, OnItsWay
<1>00. ASSUME ValidatorsFollowItems', \A f \in Feeds : OnItsWay(f)',
              passed' \in [Feeds -> SUBSET Entries]
       PROVE  ValidatorsInv'
  BY <1>00 DEF ValidatorsInv, OnItsWay
<1>1. CASE AnswerStep \/ UNCHANGED <<Tables, task, conn, Reported, sources, passed>>
  <2>1. items' = items /\ task' = task /\ sources' = sources /\ passed' = passed
    BY <1>1, AnswerMoves DEF Tables
  <2> QED
    BY <1>0, <1>00, <2>1, ValidatorsStay, OnItsWayStays
<1>2. CASE Mirror
  <2>1. ASSUME NEW f \in Feeds PROVE OnItsWay(f)'
    <3>1. CASE f \in Enabled
      BY <1>2, <3>1, MirrorMoves DEF OnItsWay
    <3>2. CASE f \notin Enabled
      BY <1>0, <1>2, <3>2, MirrorMoves, OnItsWayStays
    <3> QED
      BY <3>1, <3>2
  <2> QED
    BY <1>0, <1>00, <1>2, <2>1, MirrorMoves, ValidatorsStay
<1>3. CASE Deadline
  <2>1. items' = items /\ sources' = sources /\ passed' = passed
    BY <1>3, DeadlineMoves DEF Tables
  <2>2. ASSUME NEW f \in Feeds PROVE OnItsWay(f)'
    <3>1. task'[f] = task[f] \/ task'[f].pc = "ended"
      BY <1>3, DeadlineMoves
    <3>2. task'[f].pc = "ended" => OnItsWay(f)'
      BY DEF OnItsWay
    <3> QED
      BY <1>0, <2>1, <3>1, <3>2, OnItsWayStays
  <2> QED
    BY <1>0, <1>00, <2>1, <2>2, ValidatorsStay
<1>4. CASE NextRun
  <2>1. \A f \in Feeds : OnItsWay(f)'
    BY <1>4, NextRunMoves DEF OnItsWay
  <2> QED
    BY <1>0, <1>00, <1>4, <2>1, NextRunMoves, ValidatorsStay
<1>6. ASSUME NEW f \in Feeds, Account(f) PROVE ValidatorsInv'
  <2>1. items' = items /\ task' = task /\ passed' = passed
        /\ \A g \in Feeds : sources'[g].validators = sources[g].validators
    BY <1>6, AccountMoves DEF Tables
  <2> QED
    BY <1>0, <1>00, <2>1, ValidatorsStay, OnItsWayStays
<1>7. ASSUME NEW e \in Elsewhere, OtherStores(e) PROVE ValidatorsInv'
  <2>1. items \subseteq items' /\ task' = task /\ sources' = sources /\ passed' = passed
    BY <1>7, OtherMoves
  <2> QED
    BY <1>0, <1>00, <2>1, ValidatorsStay, OnItsWayStays
<1>8. ASSUME NEW f \in Feeds, TaskStep(f) PROVE ValidatorsInv'
  <2>0. ASSUME items \subseteq items', ValidatorsFollowItems', OnItsWay(f)',
               \A g \in Feeds \ {f} : task'[g] = task[g] /\ passed'[g] = passed[g],
               passed' \in [Feeds -> SUBSET Entries]
        PROVE  ValidatorsInv'
    BY <1>0, <1>00, <2>0, OnItsWayStays
  <2>1. ASSUME UNCHANGED Tables, sources' = sources, passed' = passed, OnItsWay(f)',
               \A g \in Feeds \ {f} : task'[g] = task[g]
        PROVE  ValidatorsInv'
    BY <1>0, <2>0, <2>1, ValidatorsStay DEF Tables
  <2>2. CASE Fetch(f)
    <3>1. /\ task[f].pc = "queued" /\ task'[f].pc \in {"marking", "looking", "failing"}
          /\ UNCHANGED Tables /\ sources' = sources /\ passed' = passed
          /\ \A g \in Feeds \ {f} : task'[g] = task[g]
      BY <2>2, FetchMoves DEF Moves
    <3>2. CASE task'[f].pc = "marking"
      <4>1. /\ task'[f].got = sources[f].validators /\ sources[f].validators # 0
            /\ task'[f].todo = <<>> /\ task'[f].pending = <<>> /\ Missed(f)' = passed[f]
        BY <1>0, <2>2, <3>1, <3>2, FetchMoves, VersionIsThere DEF TypeInv, OnItsWay
      <4>2. Underway(f)'
        BY <1>0, <3>1, <4>1, KeptStays DEF Underway, ValidatorsFollowItems, Tables
      <4> QED
        BY <2>1, <3>1, <3>2, <4>1, <4>2 DEF OnItsWay
    <3>3. CASE task'[f].pc = "looking"
      <4>1. task'[f].todo = Content[f][task'[f].got]
        BY <2>2, <3>3, FetchMoves
      <4>2. Underway(f)'
        BY <4>1 DEF Underway
      <4> QED
        BY <2>1, <3>1, <3>3, <4>2 DEF OnItsWay
    <3>4. CASE task'[f].pc = "failing"
      BY <2>1, <3>1, <3>4 DEF OnItsWay
    <3> QED
      BY <3>1, <3>2, <3>3, <3>4
  <2>3. CASE Look(f)
    <3>0. PICK e : e = Head(task[f].todo)
      OBVIOUS
    <3>1. /\ task[f].pc = "looking" /\ task'[f].pc = "looking" /\ Keeps(f) /\ StillMissed(f)
          /\ task[f].todo # <<>> /\ task'[f].todo = Tail(task[f].todo)
          /\ UNCHANGED Tables /\ sources' = sources /\ passed' = passed
          /\ \A g \in Feeds \ {f} : task'[g] = task[g]
      BY <2>3, LookMoves DEF Moves
    <3>2. /\ task[f].todo \in Seq(Entries) /\ task[f].pending \in Seq(Entries) /\ e \in Entries
          /\ \A x \in ToSet(task[f].todo) : x = e \/ x \in ToSet(task'[f].todo)
      BY <3>0, <3>1, TaskFields, HeadTail
    <3>3. /\ Kept(e) \/ e \in Missed(f)' \/ e \in ToSet(task'[f].pending)
          /\ \A x \in ToSet(task[f].pending) : x \in ToSet(task'[f].pending)
      <4>1. CASE task'[f].pending = Append(task[f].pending, e)
        BY <3>0, <3>2, <4>1, AppendSet
      <4>2. CASE task'[f].pending = task[f].pending /\ (HasUrl(e) \/ HasTitle(e))
        BY <4>2 DEF HasUrl, HasTitle, Kept
      <4>3. CASE task'[f].pending = task[f].pending /\ e \in Missed(f)'
        BY <4>3
      <4> QED
        BY <2>3, <3>0, <4>1, <4>2, <4>3, LookMoves
    <3>4. Kept(e) => Kept(e)'
      BY <3>1, KeptStays DEF Tables
    <3>5. Underway(f)'
      BY <1>0, <3>1, <3>2, <3>3, <3>4, OnItsWayGoesOn DEF OnItsWay, Tables
    <3> QED
      BY <2>1, <3>1, <3>5 DEF OnItsWay
  <2>4. CASE Embed(f)
    <3>1. /\ task[f].pc = "looking" /\ task'[f].pc \in {"marking", "storing"} /\ Keeps(f) /\ StillMissed(f)
          /\ task[f].todo = <<>> /\ task'[f].todo = <<>>
          /\ task'[f].pending = task[f].pending
          /\ task'[f].pc = "marking" => task[f].pending = <<>>
          /\ UNCHANGED Tables /\ sources' = sources /\ passed' = passed
          /\ \A g \in Feeds \ {f} : task'[g] = task[g]
      BY <2>4, EmbedMoves DEF Moves
    <3>2. Underway(f)'
      BY <1>0, <3>1, OnItsWayGoesOn DEF OnItsWay, Tables
    <3> QED
      BY <2>1, <3>1, <3>2 DEF OnItsWay
  <2>5. CASE Open(f)
    <3>1. /\ task[f].pc = "storing" /\ task'[f].pc = "batch" /\ Keeps(f) /\ StillMissed(f)
          /\ task'[f].todo = task[f].todo /\ task'[f].pending = task[f].pending
          /\ task'[f].recent = {i.entry : i \in {j \in items : Recent(j)}}
          /\ UNCHANGED Tables /\ sources' = sources /\ passed' = passed
          /\ \A g \in Feeds \ {f} : task'[g] = task[g]
      BY <2>5, OpenMoves DEF Moves
    <3>2. Underway(f)' /\ task'[f].todo = <<>>
      BY <1>0, <3>1, OnItsWayGoesOn DEF OnItsWay, Tables
    <3>3. task'[f].recent \subseteq {i.entry : i \in items'}
      BY <3>1 DEF Tables
    <3> QED
      BY <2>1, <3>1, <3>2, <3>3 DEF OnItsWay
  <2>6. CASE Compare(f)
    <3>0. PICK e : e = Head(task[f].pending)
      OBVIOUS
    <3>1. /\ task[f].pc = "batch" /\ task'[f].pc \in {"batch", "insert"} /\ Keeps(f) /\ StillMissed(f)
          /\ task[f].pending # <<>>
          /\ task'[f].todo = task[f].todo /\ task'[f].recent = task[f].recent
          /\ UNCHANGED Tables /\ sources' = sources /\ passed' = passed
          /\ \A g \in Feeds \ {f} : task'[g] = task[g]
      BY <2>6, CompareMoves DEF Moves
    <3>2. task[f].recent \subseteq {i.entry : i \in items} /\ task[f].todo = <<>> /\ Underway(f)
      BY <1>0, <3>1 DEF OnItsWay
    <3>3. \/ task'[f].pending = task[f].pending
          \/ /\ Kept(e)
             /\ \A x \in ToSet(task[f].pending) : x = e \/ x \in ToSet(task'[f].pending)
      <4>1. CASE task'[f].pc = "insert"
        BY <2>6, <4>1, CompareMoves
      <4>2. CASE task'[f].pc = "batch"
        <5>1. Duplicate(e, task[f].recent) /\ task'[f].pending = Tail(task[f].pending)
          BY <2>6, <3>0, <4>2, CompareMoves
        <5>2. Kept(e)
          BY <3>2, <5>1, DuplicateIsKept
        <5> QED
          BY <3>0, <3>1, <5>1, <5>2, TaskFields, HeadTail
      <4> QED
        BY <3>1, <4>1, <4>2
    <3>4. Kept(e) => Kept(e)'
      BY <3>1, KeptStays DEF Tables
    <3>5. Underway(f)'
      BY <3>1, <3>2, <3>3, <3>4, OnItsWayGoesOn DEF Tables
    <3> QED
      BY <2>1, <3>1, <3>2, <3>5 DEF OnItsWay, Tables
  <2>7. CASE Insert(f)
    <3>0. PICK e : e = Head(task[f].pending)
      OBVIOUS
    <3>1. task[f].pending # <<>> /\ e \in Entries /\ task[f].pc = "insert"
          /\ \A x \in ToSet(task[f].pending) : x = e \/ x \in ToSet(Tail(task[f].pending))
      BY <2>7, <3>0, TaskFields, HeadTail DEF Insert, LockInv
    <3>2. task[f].recent \subseteq {i.entry : i \in items} /\ task[f].todo = <<>> /\ Underway(f)
      BY <1>0, <3>1 DEF OnItsWay
    <3>3. CASE /\ Moves(f, {"insert"}, {"ended"}) /\ items' = items
               /\ sources' = sources /\ passed' = passed
      <4>1. OnItsWay(f)'
        BY <3>3 DEF Moves, OnItsWay
      <4> QED
        BY <1>0, <2>0, <3>3, <4>1, ValidatorsStay DEF Moves
    <3>4. CASE /\ Moves(f, {"insert"}, {"batch"})
               /\ items' = items \cup {Row(f)}
               /\ task'[f].todo = task[f].todo /\ task'[f].pending = Tail(task[f].pending)
               /\ task'[f].recent = task[f].recent \cup {e}
               /\ task'[f].got = task[f].got /\ StillMissed(f)
               /\ sources' = sources /\ passed' = passed
      <4>1. Row(f).entry = e
        BY <3>0 DEF Row
      <4>2. Kept(e)' /\ e \in {i.entry : i \in items'}
        BY <3>4, <4>1 DEF Kept
      <4>3. Underway(f)'
        BY <3>1, <3>2, <3>4, <4>2, KeptStays DEF Underway, StillMissed
      <4>4. task'[f].recent \subseteq {i.entry : i \in items'}
        BY <3>2, <3>4, <4>2
      <4>5. OnItsWay(f)'
        BY <3>2, <3>4, <4>3, <4>4 DEF OnItsWay, Moves
      <4> QED
        BY <1>0, <2>0, <3>4, <4>5, ValidatorsStay DEF Moves
    <3> QED
      BY <2>7, <3>0, <3>1, <3>3, <3>4, InsertMoves
  <2>8. CASE Close(f)
    <3>1. /\ task[f].pc = "batch" /\ task[f].pending = <<>>
          /\ UNCHANGED Tables /\ sources' = sources /\ passed' = passed
          /\ \A g \in Feeds \ {f} : task'[g] = task[g]
          /\ \/ /\ task'[f].pc = "marking" /\ Keeps(f) /\ StillMissed(f)
                /\ task'[f].todo = task[f].todo /\ task'[f].pending = task[f].pending
             \/ task'[f].pc = "ended"
      BY <2>8, CloseMoves DEF Moves
    <3>2. task'[f].pc = "marking" => Underway(f)' /\ task'[f].todo = <<>> /\ task'[f].pending = <<>>
      BY <1>0, <3>1, OnItsWayGoesOn DEF OnItsWay, Tables
    <3> QED
      BY <2>1, <3>1, <3>2 DEF OnItsWay
  <2>9. CASE MarkOk(f)
    <3>1. /\ task[f].pc = "marking" /\ task'[f].pc = "ended"
          /\ sources'[f].validators = task[f].got
          /\ passed' = IF task[f].outcome = "ok" THEN [passed EXCEPT ![f] = task[f].skipped] ELSE passed
          /\ items' = items
          /\ \A g \in Feeds \ {f} : sources'[g] = sources[g] /\ task'[g] = task[g]
      BY <2>9, MarkOkMoves DEF Moves, Tables
    <3>2. ToSet(<<>>) = {}
      BY DEF ToSet
    <3>3. \A e \in ToSet(Content[f][task[f].got]) : Kept(e) \/ e \in Missed(f)
      BY <1>0, <3>1, <3>2 DEF OnItsWay, Underway
    <3>4. /\ passed'[f] = Missed(f) /\ passed' \in [Feeds -> SUBSET Entries]
          /\ \A g \in Feeds \ {f} : passed'[g] = passed[g]
      <4>1. CASE task[f].outcome = "ok"
        BY <1>0, <3>1, <4>1, TaskFields DEF Missed
      <4>2. CASE task[f].outcome # "ok"
        BY <1>0, <3>1, <4>2 DEF Missed
      <4> QED
        BY <4>1, <4>2
    <3>5. \A e \in ToSet(Content[f][sources'[f].validators]) : Kept(e)' \/ e \in passed'[f]
      BY <3>1, <3>3, <3>4, KeptStays
    <3>6. ValidatorsFollowItems'
      BY <1>0, <3>1, <3>4, <3>5, KeptStays DEF ValidatorsFollowItems
    <3> QED
      BY <2>0, <3>1, <3>4, <3>6 DEF OnItsWay
  <2>10. CASE MarkFailed(f)
    <3>1. /\ task'[f].pc = "ended" /\ items' = items /\ passed' = passed
          /\ \A g \in Feeds : sources'[g].validators = sources[g].validators
          /\ \A g \in Feeds \ {f} : task'[g] = task[g]
      BY <2>10, MarkFailedMoves DEF Moves, Tables
    <3>2. OnItsWay(f)'
      BY <3>1 DEF OnItsWay
    <3> QED
      BY <1>0, <2>0, <3>1, <3>2, ValidatorsStay
  <2>11. CASE TaskErrs(f)
    <3>1. /\ task'[f].pc = "ended" /\ UNCHANGED Tables /\ sources' = sources /\ passed' = passed
          /\ \A g \in Feeds \ {f} : task'[g] = task[g]
      BY <2>11, TaskErrsMoves DEF Moves
    <3> QED
      BY <2>1, <3>1 DEF OnItsWay
  <2> QED
    BY <1>8, <2>2, <2>3, <2>4, <2>5, <2>6, <2>7, <2>8, <2>9, <2>10, <2>11 DEF TaskStep
<1> QED
  BY <1>1, <1>2, <1>3, <1>4, <1>6, <1>7, <1>8, Steps

-----------------------------------------------------------------------------

TablesInv == TypeInv /\ LockInv /\ OnceInv /\ ReportInv

LEMMA InitTables == Init => TablesInv
<1> SUFFICES ASSUME Init PROVE TablesInv
  OBVIOUS
<1>1. /\ items = {} /\ before = {} /\ today = 0 /\ report = FALSE /\ stage = "idle"
      /\ conn = None /\ task = [f \in Feeds |-> NoTask] /\ NoTask.pc = "idle"
      /\ done = [f \in Feeds |-> NotYet] /\ version = [f \in Feeds |-> 1]
      /\ sources = [f \in Feeds |-> NoState]
  BY DEF Init, NoTask
<1>2. TypeInv
  <2>1. NoTask \in Tasks
    BY DEF NoTask, Tasks, Pcs, Outcomes
  <2>2. \A f \in Feeds : 1 \in DOMAIN Content[f]
    BY FeedsAssumption
  <2>3. NoState \in [validators : Nat, failing : BOOLEAN]
    BY DEF NoState
  <2> QED
    BY <1>1, <2>1, <2>2, <2>3, FS_EmptySet DEF TypeInv
<1>3. LockInv
  BY <1>1, NoFeed DEF LockInv
<1>4. OnceInv
  BY <1>1 DEF OnceInv, ArticlesAreStoredOnce
<1>5. ReportInv
  BY <1>1, NotYetIsNotFine, FeedsAssumption DEF ReportInv
<1> QED
  BY <1>2, <1>3, <1>4, <1>5 DEF TablesInv

LEMMA StepTables == TablesInv /\ [Next]_vars => TablesInv'
  BY StepType, StepLock, StepOnce, StepReport DEF TablesInv

LEMMA InitValidators == Init => ValidatorsInv
  BY DEF Init, NoTask, NoState, ValidatorsInv, ValidatorsFollowItems

\* Whatever feeds a fetch runs at once, over one connection, and whatever another
\* process stores meanwhile: an article has one row (Ingester::store_entries compares
\* and inserts under one lock, with the batch's own items in the projection).
THEOREM OneRowPerArticle == Spec => []ArticlesAreStoredOnce
<1>1. TablesInv => ArticlesAreStoredOnce
  BY DEF TablesInv, OnceInv
<1> QED
  BY <1>1, InitTables, StepTables, PTL DEF Spec

\* A report in the slot of fetch_sources is what the tables say, although the budget
\* drops tasks whose calls go on, errors end a round, and the next round starts on
\* what the last one left.
THEOREM ReportsAreTrue == Spec => []ReportIsTrue
<1>1. TablesInv => ReportIsTrue
  <2> SUFFICES ASSUME TablesInv, report, NEW f \in Enabled, done[f].status # "failed"
               PROVE  /\ done[f].new = Cardinality(NewOf(f))
                      /\ ~sources[f].failing
                      /\ sources[f].validators = task[f].got
    BY DEF ReportIsTrue, NewOf
  <2>1. done[f] # NotYet /\ done[f] \in Reports
    BY FeedsAssumption DEF TablesInv, ReportInv, TypeInv
  <2>2. done[f].status \in Fine
    BY <2>1 DEF Reports, Fine
  <2> QED
    BY <2>2 DEF TablesInv, ReportInv, Fetched, Counted
<1> QED
  BY <1>1, InitTables, StepTables, PTL DEF Spec

\* mark_source_ok keeps the validators of a version only after each of its entries was
\* stored, found to be a duplicate of what is, or passed over by that very fetch because
\* its page could not be had; a 304 keeps them on the first fetch's account.
THEOREM ValidatorsAreEarned == Spec => []ValidatorsFollowItems
<1>1. Init => TablesInv /\ ValidatorsInv
  BY InitTables, InitValidators
<1>2. TablesInv /\ ValidatorsInv /\ [Next]_vars => TablesInv' /\ ValidatorsInv'
  BY StepTables, StepValidators DEF TablesInv
<1>3. ValidatorsInv => ValidatorsFollowItems
  BY DEF ValidatorsInv
<1> QED
  BY <1>1, <1>2, <1>3, PTL DEF Spec
=============================================================================
