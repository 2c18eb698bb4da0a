------------------------------- MODULE Ingest -------------------------------
(***************************************************************************)
(* One `fetch_sources` of a run: the Ingester of the run's MCP server over *)
(* the tables `items` and `sources`.  Feeds are concurrent tasks that      *)
(* share one connection; each looks an entry up, downloads its page with   *)
(* nothing locked, and stores its batch later; a budget cuts the tasks,    *)
(* but a database call that has begun goes on.  Another process may store  *)
(* items at any time, and the agent may call the tool several times.       *)
(***************************************************************************)
EXTENDS Naturals, Sequences, SequencesExt, FiniteSets

CONSTANTS
  Feeds,        \* the feeds of feeds.toml
  Enabled,      \* the enabled ones
  Entries,      \* what feeds may carry
  UrlOf,        \* the canonical url of an entry's link
  TitleOf,      \* its title hash
  Near,         \* the pairs <<e, f>> whose cosine exceeds dedupe_cosine
  Content,      \* Content[f][v]: the entries of version v of feed f
  Concurrency,  \* ingest.concurrency
  Window,       \* DEDUPE_DAYS
  Calls,        \* how many calls to fetch_sources the agent overlaps
  Faults,       \* the failures that may happen, of "page", "fetch"
  Elsewhere,    \* the entries that another process may store
  MaxErrs,      \* bound: how many database calls fail
  MaxDay        \* bound: one run a day

ASSUME FeedsAssumption ==
  /\ Enabled \subseteq Feeds
  /\ "none" \notin Feeds
  /\ Elsewhere \subseteq Entries
  /\ Calls \in Nat
  /\ Concurrency \in Nat \ {0}
  /\ Window \in Nat
  /\ \A f \in Feeds : Content[f] \in Seq(Seq(Entries)) /\ Content[f] # <<>>

\* A dot product over the norms is the same from either side.
ASSUME CosineIsSymmetric ==
  \A e, f \in Entries : <<e, f>> \in Near => <<f, e>> \in Near

VARIABLES
  today,    \* the day of the run
  version,  \* what each feed's server answers with at present
  items,    \* the table `items`
  sources,  \* the fetch state of the feeds' rows in `sources`
  passed,   \* the entries whose page failed in the fetch whose validators a row has
  waiting,  \* the calls of the tool that are not in its mutex yet
  held,     \* the mutex fetch_report is held
  report,   \* and there is a report in it
  stage,    \* where Ingester::run is
  task,     \* the task of each feed
  conn,     \* the feed whose batch holds the connection, if any
  done,     \* the reports collected so far
  before,   \* the items when it began
  errs      \* bounded by MaxErrs

vars == <<today, version, items, sources, passed, waiting, held, report, stage, task, conn, done, before, errs>>

-----------------------------------------------------------------------------

None == "none"

\* A fresh task, and a row of `sources` before any fetch.
NoTask == [pc |-> "idle", got |-> 0, todo |-> <<>>, pending |-> <<>>,
           recent |-> {}, skipped |-> {}, stored |-> 0, outcome |-> None]
\* What is left of a task that has ended, with its outcome, or was dropped.
Ended(t, outcome) ==
  [NoTask EXCEPT !.pc = "ended", !.outcome = outcome, !.got = t.got, !.stored = t.stored]
Gone(outcome) == [NoTask EXCEPT !.pc = "ended", !.outcome = outcome]

NotYet == [status |-> None, new |-> 0]
NoState == [validators |-> 0, failing |-> FALSE]

Init ==
  /\ today = 0
  /\ version = [f \in Feeds |-> 1]
  /\ items = {}
  /\ sources = [f \in Feeds |-> NoState]
  /\ passed = [f \in Feeds |-> {}]
  /\ waiting = Calls
  /\ held = FALSE
  /\ report = FALSE
  /\ stage = "idle"
  /\ task = [f \in Feeds |-> NoTask]
  /\ conn = None
  /\ done = [f \in Feeds |-> NotYet]
  /\ before = {}
  /\ errs = 0

\* Fetched within the dedupe window.
Recent(i) == i.day + Window >= today

HasUrl(e) == \E i \in items : UrlOf[i.entry] = UrlOf[e]
HasTitle(e) == \E i \in items : Recent(i) /\ TitleOf[i.entry] = TitleOf[e]

\* find_duplicate_against: url for ever, title and cosine within the window.
Duplicate(e, recent) ==
  \/ HasUrl(e)
  \/ HasTitle(e)
  \/ \E r \in recent : <<e, r>> \in Near

\* Mutant: the projection is not extended by what the batch inserts.
Unextended(recent, e) == recent

\* What the rest of the batch is compared with.
Extended(recent, e) == recent \cup {e}

-----------------------------------------------------------------------------
(* fetch_sources: one mutex around the report *)

\* The mutex is free: the report, if there is one, answers; else this call ingests.
Enter ==
  /\ waiting > 0
  /\ ~held
  /\ waiting' = waiting - 1
  /\ IF report THEN UNCHANGED <<held, stage>> ELSE held' = TRUE /\ stage' = "mirroring"
  /\ UNCHANGED <<today, version, items, sources, passed, report, task, conn, done, before, errs>>

\* Mutant: an error returns with the mutex still held.
LeaveHolding(ok) ==
  /\ stage' = "idle"
  /\ held' = ~ok
  /\ report' = ok

\* The call that ingests returns; only a report fills the slot.
Leave(ok) ==
  /\ stage' = "idle"
  /\ held' = FALSE
  /\ report' = ok

-----------------------------------------------------------------------------
(* Ingester::run *)

\* A task whose present step is a database call: the closure may have begun.
Calling(f) == task[f].pc \in {"storing", "batch", "insert", "marking", "failing"}

DbErr ==
  /\ errs < MaxErrs
  /\ errs' = errs + 1

\* Mirrors the feeds, keeping their fetch state, then spawns a task per enabled one.  (After an error the tool
\* may be called again; the calls an earlier round had begun have ended by then.)
Mirror ==
  /\ stage = "mirroring"
  /\ \A f \in Feeds : ~Calling(f)
  /\ task' = [f \in Feeds |->
       IF f \in Enabled THEN [NoTask EXCEPT !.pc = "queued"] ELSE task[f]]
  /\ done' = [f \in Feeds |-> NotYet]
  /\ stage' = "running"
  /\ before' = items
  /\ UNCHANGED <<today, version, items, sources, passed, waiting, held, report, conn, errs>>

MirrorErrs ==
  /\ stage = "mirroring"
  /\ DbErr
  /\ Leave(FALSE)
  /\ UNCHANGED <<today, version, items, sources, passed, waiting, task, conn, done, before>>

\* Mutant: an aborted task counts as fetched.
ReportUnlessFailed(t) ==
  [status |-> IF t.outcome = "failed" THEN "failed" ELSE "ok", new |-> t.stored]

\* The report of a task that has ended.
Report(t) ==
  IF t.outcome \in {"ok", "not_modified"}
    THEN [status |-> t.outcome, new |-> t.stored]
    ELSE [status |-> "failed", new |-> 0]

Join(f) ==
  /\ stage = "running"
  /\ task[f].pc = "ended"
  /\ done[f] = NotYet
  /\ done' = [done EXCEPT ![f] = Report(task[f])]
  /\ UNCHANGED <<today, version, items, sources, passed, waiting, held, report, stage, task, conn, before, errs>>

\* Every task is joined: there is nothing to account for.
Collected ==
  /\ stage = "running"
  /\ \A f \in Enabled : done[f] # NotYet
  /\ Leave(TRUE)
  /\ UNCHANGED <<today, version, items, sources, passed, waiting, task, conn, done, before, errs>>

\* abort_all at the deadline: what awaits is dropped; of the calls that are being
\* made, those in S have begun and run to their end.
Deadline ==
  /\ stage = "running"
  /\ \E f \in Enabled : done[f] = NotYet
  /\ \E S \in SUBSET {f \in Enabled : Calling(f)} :
       /\ conn # None => conn \in S
       /\ task' = [f \in Feeds |->
            IF f \in S \/ task[f].pc \in {"idle", "ended"}
              THEN task[f] ELSE Gone(None)]
  /\ stage' = "accounting"
  /\ UNCHANGED <<today, version, items, sources, passed, waiting, held, report, conn, done, before, errs>>

\* Feeds the budget cut off are reported as failed and their failure counted.
Account(f) ==
  /\ stage = "accounting"
  /\ f \in Enabled
  /\ done[f] = NotYet
  /\ conn = None
  /\ sources' = [sources EXCEPT ![f].failing = TRUE]
  /\ done' = [done EXCEPT ![f] = [status |-> "failed", new |-> 0]]
  /\ UNCHANGED <<today, version, items, passed, waiting, held, report, stage, task, conn, before, errs>>

AccountErrs ==
  /\ stage = "accounting"
  /\ DbErr
  /\ \E f \in Enabled : done[f] = NotYet
  /\ Leave(FALSE)
  /\ UNCHANGED <<today, version, items, sources, passed, waiting, task, conn, done, before>>

Accounted ==
  /\ stage = "accounting"
  /\ \A f \in Enabled : done[f] # NotYet
  /\ Leave(TRUE)
  /\ UNCHANGED <<today, version, items, sources, passed, waiting, task, conn, done, before, errs>>

-----------------------------------------------------------------------------
(* ingest_feed: the task of one feed.  A task that was cut (stage is no longer
   "running") only finishes the call it is in. *)

Polled(f, pc) == stage = "running" /\ task[f].pc = pc

Active == {f \in Feeds : task[f].pc \notin {"idle", "queued", "ended"}}

\* A permit, the validators of the row, then the conditional GET: 304 when they
\* still match, else a body, or a failure.
Fetch(f) ==
  /\ Polled(f, "queued")
  /\ Cardinality(Active) < Concurrency
  /\ conn = None
  /\ \/ /\ sources[f].validators = version[f]
        /\ task' = [task EXCEPT ![f].pc = "marking", ![f].got = version[f],
                                ![f].outcome = "not_modified"]
     \/ /\ sources[f].validators # version[f]
        /\ task' = [task EXCEPT ![f].pc = "looking", ![f].got = version[f],
                                ![f].todo = Content[f][version[f]]]
     \/ /\ "fetch" \in Faults
        /\ task' = [task EXCEPT ![f].pc = "failing"]
  /\ UNCHANGED <<today, version, items, sources, passed, waiting, held, report, stage, conn, done, before, errs>>

\* The seen-check of the next entry, then get_text and extract of its page: a page
\* that fails, is too large or has no article is skipped.
Look(f) ==
  /\ Polled(f, "looking")
  /\ task[f].todo # <<>>
  /\ conn = None
  /\ LET e == Head(task[f].todo)
         seen == HasUrl(e) \/ HasTitle(e) IN
     \/ /\ seen
        /\ task' = [task EXCEPT ![f].todo = Tail(@)]
     \/ /\ ~seen
        /\ task' = [task EXCEPT ![f].todo = Tail(@), ![f].pending = Append(@, e)]
     \/ /\ ~seen
        /\ "page" \in Faults
        /\ task' = [task EXCEPT ![f].todo = Tail(@), ![f].skipped = @ \cup {e}]
  /\ UNCHANGED <<today, version, items, sources, passed, waiting, held, report, stage, conn, done, before, errs>>

\* Nothing new: the feed is marked.  Else the batch is embedded, with nothing locked.
Embed(f) ==
  /\ Polled(f, "looking")
  /\ task[f].todo = <<>>
  /\ IF task[f].pending = <<>>
       THEN task' = [task EXCEPT ![f].pc = "marking", ![f].outcome = "ok"]
       ELSE task' = [task EXCEPT ![f].pc = "storing"]
  /\ UNCHANGED <<today, version, items, sources, passed, waiting, held, report, stage, conn, done, before, errs>>

\* The storing call begins: the recent vectors are read once.
Open(f) ==
  /\ task[f].pc = "storing"
  /\ conn = None
  /\ conn' = f
  /\ task' = [task EXCEPT ![f].pc = "batch", ![f].recent =
       {i.entry : i \in {j \in items : Recent(j)}}]
  /\ UNCHANGED <<today, version, items, sources, passed, waiting, held, report, stage, done, before, errs>>

\* The next item of the batch is compared; a duplicate is dropped.
Compare(f) ==
  /\ task[f].pc = "batch"
  /\ task[f].pending # <<>>
  /\ LET t == task[f]  e == Head(t.pending) IN
     task' = [task EXCEPT
       ![f].pc = IF Duplicate(e, t.recent) THEN "batch" ELSE "insert",
       ![f].pending = IF Duplicate(e, t.recent) THEN Tail(@) ELSE @]
  /\ UNCHANGED <<today, version, items, sources, passed, waiting, held, report, stage, conn, done, before, errs>>

\* One autocommitted INSERT.  A url that another process stored meanwhile is a
\* constraint error: it ends the batch, and what was inserted before stays.
Insert(f) ==
  /\ task[f].pc = "insert"
  /\ LET e == Head(task[f].pending) IN
     IF HasUrl(e)
       THEN /\ task' = [task EXCEPT ![f] = Gone("error")]
            /\ conn' = None
            /\ UNCHANGED items
       ELSE /\ items' = items \cup {[entry |-> e, by |-> f, day |-> today]}
            /\ task' = [task EXCEPT ![f].pc = "batch", ![f].pending = Tail(@),
                                    ![f].recent = Extended(@, e), ![f].stored = @ + 1]
            /\ UNCHANGED conn
  /\ UNCHANGED <<today, version, sources, passed, waiting, held, report, stage, done, before, errs>>

\* The call returns what it stored; a task that was cut is not there to go on.
Close(f) ==
  /\ task[f].pc = "batch"
  /\ task[f].pending = <<>>
  /\ conn' = None
  /\ task' = [task EXCEPT ![f] = IF stage = "running"
       THEN [@ EXCEPT !.pc = "marking", !.outcome = "ok", !.recent = {}] ELSE Gone(None)]
  /\ UNCHANGED <<today, version, items, sources, passed, waiting, held, report, stage, done, before, errs>>

\* mark_source_ok: the validators are kept, failures and error cleared.
MarkOk(f) ==
  /\ task[f].pc = "marking"
  /\ conn = None
  /\ sources' = [sources EXCEPT ![f] = [@ EXCEPT !.validators = task[f].got,
                                                 !.failing = FALSE]]
  /\ passed' = IF task[f].outcome = "ok" THEN [passed EXCEPT ![f] = task[f].skipped] ELSE passed
  /\ task' = [task EXCEPT ![f] = Ended(@, task[f].outcome)]
  /\ UNCHANGED <<today, version, items, waiting, held, report, stage, conn, done, before, errs>>

MarkFailed(f) ==
  /\ task[f].pc = "failing"
  /\ conn = None
  /\ sources' = [sources EXCEPT ![f].failing = TRUE]
  /\ task' = [task EXCEPT ![f] = Gone("failed")]
  /\ UNCHANGED <<today, version, items, passed, waiting, held, report, stage, conn, done, before, errs>>

\* Mutant: a feed whose items could not be stored is marked as fetched.
TaskErrsMarked(f) ==
  /\ DbErr
  /\ task[f].pc \in {"storing", "batch", "insert"}
  /\ conn' = IF conn = f THEN None ELSE conn
  /\ task' = [task EXCEPT ![f].pc = "marking", ![f].pending = <<>>, ![f].outcome = "ok"]
  /\ UNCHANGED <<today, version, items, sources, passed, waiting, held, report, stage, done, before>>

\* A database error in any call of the task, or one of the embedder's: a failed
\* report, and no mark.
TaskErrs(f) ==
  /\ DbErr
  /\ \/ Polled(f, "queued") /\ Cardinality(Active) < Concurrency
     \/ Polled(f, "looking")
     \/ task[f].pc \in {"storing", "batch", "insert", "marking", "failing"}
  /\ conn' = IF conn = f THEN None ELSE conn
  /\ task' = [task EXCEPT ![f] = Gone("error")]
  /\ UNCHANGED <<today, version, items, sources, passed, waiting, held, report, stage, done, before>>

-----------------------------------------------------------------------------
(* What others do *)

\* `dailybrief fetch` in another process stores an article it found new.
OtherStores(e) ==
  /\ ~HasUrl(e)
  /\ items' = items \cup {[entry |-> e, by |-> None, day |-> today]}
  /\ UNCHANGED <<today, version, sources, passed, waiting, held, report, stage, task, conn, done, before, errs>>

\* The run ends, or is killed, with its server; the next day's starts fresh, and
\* feeds have changed.
NextRun ==
  /\ today < MaxDay
  /\ \E S \in SUBSET {f \in Feeds : version[f] < Len(Content[f])} :
       version' = [f \in Feeds |-> IF f \in S THEN version[f] + 1 ELSE version[f]]
  /\ today' = today + 1
  /\ waiting' = Calls
  /\ held' = FALSE
  /\ report' = FALSE
  /\ stage' = "idle"
  /\ task' = [f \in Feeds |-> NoTask]
  /\ conn' = None
  /\ done' = [f \in Feeds |-> NotYet]
  /\ before' = {}
  /\ UNCHANGED <<items, sources, passed, errs>>

-----------------------------------------------------------------------------

TaskStep(f) ==
  \/ Fetch(f)
  \/ Look(f)
  \/ Embed(f)
  \/ Open(f)
  \/ Compare(f)
  \/ Insert(f)
  \/ Close(f)
  \/ MarkOk(f)
  \/ MarkFailed(f)
  \/ TaskErrs(f)

RunStep ==
  \/ Mirror
  \/ MirrorErrs
  \/ \E f \in Feeds : Join(f) \/ Account(f)
  \/ Collected
  \/ Deadline
  \/ AccountErrs
  \/ Accounted

Next ==
  \/ Enter
  \/ RunStep
  \/ \E f \in Feeds : TaskStep(f)
  \/ \E e \in Elsewhere : OtherStores(e)
  \/ NextRun

Spec == Init /\ [][Next]_vars

\* The runtime polls the tool, the tasks and the blocking threads.
Fairness ==
  /\ WF_vars(Enter)
  /\ \A f \in Feeds : WF_vars(TaskStep(f))
  /\ WF_vars(RunStep)

FairSpec == Spec /\ Fairness

-----------------------------------------------------------------------------
(* Properties *)

SameDays(i, j) == i.day <= j.day + Window /\ j.day <= i.day + Window

\* However the feeds interleave, and although the seen-check comes before the
\* download, one article is stored once: a url for ever, a title or a text that is
\* near another's once in the window.  (Another process can only break the latter.)
ArticlesAreStoredOnce ==
  \A i, j \in items : i # j =>
    /\ UrlOf[i.entry] # UrlOf[j.entry]
    /\ None \notin {i.by, j.by} /\ SameDays(i, j) =>
         /\ TitleOf[i.entry] # TitleOf[j.entry]
         /\ <<i.entry, j.entry>> \notin Near

Kept(e) == \E i \in items : \/ UrlOf[i.entry] = UrlOf[e]
                           \/ TitleOf[i.entry] = TitleOf[e]
                           \/ <<e, i.entry>> \in Near

\* Validators promise that a version need not be fetched again, so they are kept
\* only when each entry of that version is in `items`, a duplicate of what is, or was
\* looked for in vain by the fetch that kept them: not by a feed that was cut, failed
\* to embed, or lost its batch to an error, and not on another fetch's account.  (An
\* entry whose page fails is passed over, although core/fetch.rs:14 calls the text
\* the feed carries "a fallback when the page fails".)
ValidatorsFollowItems ==
  \A f \in Feeds : sources[f].validators # 0 =>
    \A e \in ToSet(Content[f][sources[f].validators]) : Kept(e) \/ e \in passed[f]

\* What the tool answers is what the tables say: a feed that is reported as fetched
\* has exactly the new rows it reports, and its failures are cleared.
ReportIsTrue ==
  report => \A f \in Enabled : done[f].status # "failed" =>
    /\ done[f].new = Cardinality({i \in items \ before : i.by = f})
    /\ ~sources[f].failing
    /\ sources[f].validators = task[f].got

\* A call of the tool is answered, whatever fails and however many wait.
CallersAreAnswered == waiting > 0 ~> waiting = 0
=============================================================================
