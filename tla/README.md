# A TLA+ model of dailybrief

`dailybrief` is a personal news reader: once a morning a service starts a coding agent (the
*Editor*) as a child process; the agent calls tools of an MCP server of the same program to fetch
feeds, read items, stage a selection and publish a digest; once a week a second role (the
*Curator*) proposes changes to the reader's profile, which the reader approves on a page. All state
is in one SQLite file that several processes write: the service, command-line runs, and the MCP
server of every child.

This directory models the program where the order of steps, a failure or a boundary decides whether
the result is right, checks it with TLC and proves its safety with TLAPS. Paths and line numbers are those of `src/src/…` unless they begin with another directory of the repository.

## Inventory

| Component | State | Operations | What is hard | What makes it correct | Modules |
|---|---|---|---|---|---|
| Run lifecycle (`harness/runner.rs`, `harness/verify.rs`, `web/routes/run.rs`, `commands/serve.rs`, `run.rs`) | `run_lock`, `runs`, `AppState.active` | `Runner::run`, `attempt`, `classify`; `POST /run`; sweep at startup | several processes, a child that outlives its parent, deaths and restarts, a lock that goes stale, a retry, a client that leaves | one run at a time; verdicts are earned; an accepted run gives back its lock and its flag | `RunLifecycle`, `RunLedger` |
| Digest (`core/staging.rs`, `core/digest.rs`, the tools) | `run_reads`, `selections`, `digests`, `digest_items`, the rejection count | `read_item`, `select`, `publish_digest` | long sequences of legal calls, a killed run that still publishes, checks and insert in two transactions | what fits when staged is publishable; what a check saw is not shown again; a run publishes once | `Digest` |
| Scheduler (`harness/scheduler.rs`, `commands/serve.rs`) | the loop's locals, the stop channel | `run_jobs`, shutdown | jobs that overrun other occurrences, a stop while a job runs | each occurrence fires at most once; nothing due is skipped; the stop ends the loop | `Scheduler` |
| Profile (`core/feedback.rs`, `core/profile.rs`, `mcp/tools/curator.rs`, `web/routes/curator.rs`) | `topics`, `sources`, `proposals`, `validated_feeds` | `validate_feed`, `propose_change`, `apply`, `reject`, the mirrors | checks that are stale when a proposal is decided, mirrors that overwrite | the profile follows the approvals and nothing else | `Profile`, `Naming` |
| Ingest (`core/ingest.rs`, `mcp/tools/fetch_sources.rs`) | `items`, `sources` fetch state, the report's mutex | `fetch_sources`, `Ingester::run`, a task per feed | concurrent feeds, a budget that aborts, check and insert in two calls, another process | an article is stored once; validators promise only what is stored or was looked for; the report is true; callers are answered | `Ingest` |
| Dedupe, extraction, HTTP (`core/dedupe.rs`, `extract.rs`, `http.rs`, `fetch.rs`, `feeds_discovery.rs`) | none | pure functions, one GET | boundaries, redirects, address forms | equal exactly when the same article; only public addresses are asked | `Dedupe`, `Download` |
| Attempt (`harness/claude_code.rs`, `hook.rs`, `trajectory.rs`, `scan_transcript.rs`, the writer of `runner.rs`) | a pipe, a bounded channel, `transcript.jsonl`, `run_events`, `hook-state.json` | `ClaudeCode::run`, the writer task, hook processes, `fold_turns`, `caps_used` | back-pressure, a writer that dies, parallel calls, a child that hangs | every line stored in order, or no success; the page counts what happened; the attempt ends | `Attempt`, `Transcript`, `Trajectory` |
| Database and retention (`db/`, `core/retention.rs`, `commands/prune.rs`) | the file, `migrations`, run directories, `run_events` | `open`, `migrate`, `prune` | two processes at once, deaths between a directory and its rows | ledger and schema agree; files go first; what is old goes in the end | `Migration`, `Retention`, `Upkeep` |
| Ratings, clicks, candidates, evidence (`web/routes/rate.rs`, `redirect.rs`, `core/candidates.rs`, `profile.rs`, `curator_input.rs`) | `ratings`, `reads` | two calls of `POST /rate`, the lists, `get_feedback` | ids that outlive their rows, digests between two calls, one ranking of likes and clicks | evidence names its item; a dislike leaves no trace in a score | `Signals` |
| Configuration and start (`config/`, `main.rs`, `commands/`) | files, environment, `mcp.json` | load, validate, spawn, start the tool server | three processes that resolve paths in three directories, files edited in between | the server serves its run; one data directory, one database | `Settings`, `Launch` |
| Access (`web/auth.rs`) | the key set, the throttle | `verify`, fetch, forced fetch | overlapping fetches, rotation, a provider that is down | a new key is learned, a retired one goes out | `Access` |
| Pages (`web/routes/…`, `harness/trajectory.rs`, `core/time.rs`) | — | chains of attempts, the state of a day, bounds of a day | guesses from time and number, days of 23 hours | the pages say what happened | `Pages`, `Calendar`, `Retention` |
| Vectors and reembed; editor notes, feed issues; prompts, schemas, layout | — | — | — | not modelled (see below) | — |

How they meet. The scheduler awaits `ServiceRunner::run`, a request spawns it, a command calls it;
it mirrors `topics.toml` and calls `Runner::run`, which takes the lock and starts the child. The
child's MCP server writes `items`, `selections`, `digests` and `proposals` through its own
connection; the runner reads them back to decide the verdict. The page reads `runs`, rates, and
decides `proposals`. The prune is a job of the same loop as the runs.

## Modules

| Module | Models | State and actions |
|---|---|---|
| `RunLifecycle` | who may run, the lock, attempts, the child, verdicts, deaths, restarts, time | a task per invocation site: the scheduler, web requests, command-line processes. `CountManual`, `TakeFlag`, `Spawn`/`Decline`/`DropRequest`, `ClearFlag` are `POST /run`, whose client may leave while it awaits; `Begin`, `Acquire`/`Refuse`, `StartAttempt`, `HarnessEnds`, `Classify`, `FinishLast`/`FinishAndRetry`, `AttemptErrs`, `Release` are `Runner::run`, cut at its database calls; `ChildWrites` is a commit of the child's server; `ServiceDies`, `CliDies`, `ServiceStarts`, `Tick` |
| `RunLedger` | the abstract specification: the table `runs` as a serial ledger, with no lock, clock or flag | `Open`, `FirstAttempt`, `Retry`, `Settle`, `Leave`, `Sweep`. `RunLifecycle` implements it under the mapping at its end (`RunsAreSerial`) |
| `Pages`, `MCPages`, `Calendar` | what a run page joins, what a day without a digest says; the bounds of a day | operators over `RunLifecycle`'s `runs`; `Calendar` is pure |
| `Digest` | staging and publishing over consecutive runs | `ReadItem`, `Select`, `Unstage`; a publish is `CallPublish`, `Check`/`Refuse`, `Insert`/`InsertErrs`, `CountRejection`; `NextRun`, `NextDay`. `passed` has the calls between their checks and their insert |
| `Scheduler` | `run_jobs` and the stop of `serve` | `Plan`, `PlanFails`, `Wake`, `JobEnds`, `CatchUp`, `PassOver`, `RoundEnds`, `EndLoop`; `Signal`, `SendStop`; `Tick` |
| `Profile`, `Naming` | proposals, their decisions and the mirrors; ids made of names, the quoted hook command | `ValidateFeed`, `CheckTarget`, `Propose`, `Approve`, `Reject`, `EditorRun`, `ScheduledCuratorRun`, `Ingest` |
| `Ingest` | `fetch_sources` | the tool: `Enter`, `Leave`; the round: `Mirror`, `Join`, `Collected`, `Deadline`, `Account`; a feed's task: `Fetch`, `Look`, `Embed`, `Open`, `Compare`, `Insert`, `Close`, `MarkOk`, `MarkFailed`, `TaskErrs`; `OtherStores`, `NextRun`. `task[f].pc` is the await the task is at, `conn` who holds the one connection; `passed`, which no action reads, remembers the entries that the fetch a source's validators come from passed over |
| `Dedupe`, `Download` | pure: urls, titles, nearest vector, text, extraction; addresses, redirects, capped bodies, discovery | each with a reference definition that its MC module compares it with |
| `Attempt` | one child from spawn to verdict | the child `CallTool`, `Answer`, `Conclude`, `Exit`, `Hang`; its hooks `HookLoads`, `HookEmpties`, `HookSaves`; the adapter `Spawn`, `ReadLine`, `Send`, `Eof`, `ChildWaited`, `Terminate`; the writer `Open`, `WriteLine`, `Flush` |
| `Transcript` | the abstract specification of an attempt: heard, stored in order, judged once | `Hear`, `Store`, `Judge`. `Attempt` implements it under the mapping `Promise` (`KeepsItsPromise`) |
| `Trajectory` | pure: `fold_turns`, `caps_used`, the scan | used by `Attempt` for what the page shows |
| `Migration`, `Retention`, `Upkeep` | opening and migrating; pruning; both, with processes that die | `Open`, `Skip`, `Apply`, `AppliedAlready`, `Busy`, `Record`, `Commit`, `Opened`; `MakesDir`, `InsertsRow`, `StoresLine`, `RunFinishes`, `Plan`, `RemoveDir`, `RemoveFails`, `DeleteRows`, `DeleteFails`; `Upkeep` conjoins the two state machines and adds `Exits` and `Dies` |
| `Signals` | clicks, ratings, digests, candidate lists, evidence | `Publish`, `Click`, `FindTarget`, `StoreRating`, `GetFeedback`, `Tick` |
| `Settings`, `Launch` | configuration; from a command line to the tools of an agent | `Edit`, `Start`, `Stop`, `Begin`, `Blind`, `ServerStarts`, `Call`, `End` |
| `Access` | the verifier in front of the pages | `Rotate`, `Retire`, `TimePasses`; a request's `Arrive`, `Answer`, `Land`, `Fail`, `ForceFetch` |
| `RunLifecycle_proofs`, `Digest_proofs`, `Feedback_proofs`, `Ingest_proofs`, `Attempt_proofs`, `Upkeep_proofs`, `Service_proofs`, `Algorithms_proofs` | theorems | one module per component; `Feedback_proofs` has `Profile` and `Signals`, whose specifications it extends side by side; `Algorithms_proofs` has what holds of the pure operators, and `Attempt_proofs` extends it; `Service_proofs` has what stands around the runs: the loop of `Scheduler`, the verifier of `Access` and the start of processes and agents of `Launch`, whose specifications it extends side by side |

A module `MC…` gives a module's constants their values for TLC, and holds the `ASSUME`s that check
the pure operators over all small inputs. Definitions whose comment begins with "Mutant" are
plausible bugs; they are not part of a specification. `PROJECT.json` pairs each property with one,
and the property fails when the mutant replaces the definition it varies.

### Abstractions

* Steps are cut where the code awaits: one `Db::call` is one step (a connection runs one call at a
  time, and the calls modelled as one step are one statement, one transaction, or reads and a write
  that no other process can come between with effect). Where another process does come between the
  statements of one call, the call is several steps: the checks of a publish and its insert, the batch
  of `Ingest` (`Open` to `Close`) and a migration.
* A task that is aborted stops at its await; a database call that has begun runs on in its blocking
  thread (`Deadline` of `Ingest` chooses which calls had begun).
* Times are whole units. A window of `2 × wall clock + 5` minutes is `2 * Wall + Slack`; the
  wall clock of the adapter and the other work of an attempt are a deadline that time cannot pass
  (`Tick`); `Overhead` is that other work. In `Attempt` the wall clock may strike at any moment.
* Texts, titles, reasons, evidence and vectors are left out; a topic or an item is a value, a weight
  or a cosine is a small integer, a line of a transcript is its kind, ids and tool.
* A command-line run is of kind manual and takes `MaxAttempts`; `--kind scheduled` and
  `--attempts 1` only take its row out of the cap and its retry away.
* An agent's calls that are refused for their arguments change nothing and are not steps.
* Processes of `RunLifecycle` agree on the window, as processes with one `config.toml` do; `Launch`
  says what may differ when it is edited.

## Runs

| Run | Instance | What it shows |
|---|---|---|
| `lock` | scheduler + one command, 2 attempts, window 2, one death, 2 calls, clock to 3 when idle, days of 2 | mutual exclusion, ownership of the lock, rows of live attempts stay open, the ledger refinement, and that the run page joins exactly the attempts of one call. Two runs overlap their windows, so take-over of a dead run's lock, the sweep, and a run across midnight all happen |
| `page` | scheduler + two requests, both roles, errors of database and files, a death, clients that leave, late children, 1 attempt | at most one owner of the flag; no success without the run's own digest; an accepted run gives its flag and its lock back. Three actors are the fewest that let a request be refused by another one's flag and by the scheduler's lock |
| `publish` | 5 items of 4 sources, two of which share a title, the second run is offered 3 of them, sections of 2 and 1, one item per source, two per topic, 2 runs with one publish each, 2 days | what `select` lets in is publishable but for the shared title, what a check saw is not shown again, positions are ranks. All caps bind: an item of the same source, of the same topic and of a full section each occur. The runs share three candidates, and the killed run's publish comes before the other's staging, between its staging and its check, between its check and its insert, or after it. Calls of one run that overlap are left to `PublishedOnce` |
| `rounds` | 3 jobs, two of them daily and one with fewer times, clock to 14 | an occurrence fires once, owed jobs run, the stop ends the loop. Two rounds, ties, a cron that ends, overruns over one and over several occurrences |
| `queue` | 2 topics and 2 sources, one of each listed in the files, 2 runs, 3 proposals | the profile follows the approvals. Three proposals allow an addition, a second one that is stale, and a change of what was added. The two runs are symmetric |
| `feeds` | 2 feeds of 4 entries (a story, its rewrite, its copy under one title, news), two versions of one feed, 2 calls, one database error, pages that fail, another process, 2 days, window 1 | an article is stored once; what is validated is stored or was looked for by that fetch; the report is true; callers are answered. Each way two entries can be one article occurs between feeds, within a batch and across runs |
| `lines` | 2 searches and a selection in up to 2 messages, pipe and channel of one line, cap of one search, one error | order of lines, verdicts, the hook's cap, the page's counts, the refinement of `Transcript`, the end. Capacity one makes every sender wait; two parallel searches are the fewest that race for the counter |
| `prune` | 2 processes, 2 migrations, 2 runs, windows of 0 and 1, one failure, 2 deaths | ledger and schema; files first; what is old goes. Two migrations let a process die or lose the race in the middle of the list; a run may be at its directory only, at its row, or have rows when the prunes meet it |
| `rate` | 3 items, 2 of them shown and rated, 2 tabs, 3 posts, a digest, a click, 2 days | evidence, digests of ratings, dislikes. Three posts allow a rating that is taken back and given to another item; the tabs are symmetric |
| `launch` | 2 processes, 2 directories, 7 environments, 7 commands, 4 versions of the files, an edit, 2 runs | the tool server works for its run; absolute paths reach the agent; one database |
| `keys` | 2 requests, 2 keys and one unknown, lifetime 3, throttle 2, timeout 1, clock to 5, one failure | rotation and retirement |
| `mirror` | 1 proposal | expected to fail: listed topics deleted by a Curator run |

Every bound (`MaxCalls`, `MaxCrashes`, `MaxTime`, `MaxClock`, `MaxRuns`, `MaxDay`, `MaxProposals`, `MaxErrs`,
`MaxFailures`, `MaxDeaths`, `MaxAge`, `MaxDigests`, `MaxReads`, `MaxPosts`, `MaxEdits`, `MaxKey`, `RunIds`,
`Messages`) is a guard of one action, or of the error it bounds. `CHECK_DEADLOCK FALSE` is there
because of these bounds: a run of a bounded system ends. `prune` does without: its service is always
started again.

Checked by `ASSUME` over all small inputs: canonical urls, title hashes, nearest vectors, normalised
and extracted text (`MCDedupe`); which addresses are allowed in their IPv4 and IPv6 forms, that
redirects contact public addresses only and end after exactly `max_redirects` hops, capped bodies,
discovery (`MCDownload`); slugs and shell quoting (`MCNaming`); the bounds of a day in zones that
change (`MCPages`); the scan of a transcript and the wall seconds (`MCAttempt`); the percentile
(`MCSignals`). Most of these are theorems of `Algorithms_proofs` as well, for every input.

### Fairness

* `RunLifecycle!FairSpec`: weak fairness of each web task's steps, of each task's `Runner::run`
  steps, and of the clock. The code awaits its database calls and its child, which the adapter kills
  at the wall clock, and tokio polls every ready task until it ends, or, a handler, until its client leaves
  (`DropRequest`, which makes it stop; a spawned run goes on). Nothing makes a request arrive, a
  fault happen or a process start again. Releasing the lock is fair only while the DELETE succeeds
  (`Faults` of `page` has no `"release"`): `Runner::run` returns without releasing when it fails,
  and the lock is then freed by the window.
* `Scheduler!FairSpec`: weak fairness of the loop and of the stop once the signal has come. A job
  returns: a run has a wall clock, a prune a finite plan. A graceful shutdown that never drains (an
  open page stream) would break the second; the service has none. Neither the signal nor time is
  fair.
* `Ingest!FairSpec`: the tool, the round and each task are polled. The network is not fair: what it
  does is a choice, and the budget's deadline is one more step of the round.
* `Attempt!FairSpec`: the adapter and the writer are polled, and the wall clock strikes in the end
  (`WF` of `Terminate`). Nothing is asked of the child. A database call of the writer returns; one
  that never does would hold `writer.await` (runner.rs:249), which has no deadline.
* `Upkeep!FairSpec`: migrating and pruning go on by themselves; the service is started again
  (`compose.yaml:33`, `restart: unless-stopped`) and its cron comes round. Nobody has to run the
  command. Deaths are bounded.

`Digest`, `Profile`, `Signals`, `Launch` and `Access` have no liveness property: what happens next
there is a person's, an agent's or a provider's choice.

## What is proved

Every safety invariant, action property and refinement that a passing run checks is a theorem: it
holds for every value of the constants that satisfies the named assumptions of the modules and the
hypotheses below, not only for the instances of the runs.
Each proof has the same plan. The property is seldom inductive, so a stronger invariant is stated;
the initial states have it, each action keeps it (one lemma per action, or one for all the actions
that move one task), and it implies the property. The last step is temporal and is left to LS4.

Hypotheses, and where the code justifies them:

* `NumbersAssumption`: the wall clock is at least one unit (a zero `wall_clock_minutes` is refused,
  config/schema.rs:591).
* `Timely`: `Overhead + MaxAttempts * (Wall + Overhead) <= Window`. With the shipped 15 minutes, two
  attempts and 5 minutes of slack it leaves 100 seconds of overhead for each stage. The code has no
  timer on that overhead: `writer.await` after the child (runner.rs:249) and the database calls are
  unbounded. When it is exceeded, another run may take the lock, and `release_lock` deletes whatever
  row is there. It is a hypothesis of the theorems marked (T) and of no other.
* `CosineIsSymmetric` of `Ingest`, which a cosine is.
* `AccessAssumption`: the lifetime, the throttle and the timeout are at least one unit.
* `PlaceAssumption`, `PathAssumption`, `CommandAssumption`, `NameAssumption` of `Launch`: a working
  directory is absolute, paths are sequences of names, `serve` takes no prompt (main.rs:36), a run id
  is not empty.

Run lifecycle (`RunLifecycle_proofs`):

* `TypeCorrect`: `TypeOK`. `TypeInv` adds that the row a task is at is a row of the table and that an
  attempt that is being finished has an outcome; `MovesTypeInv` says once what a step of one task may
  change, and each action is shown to be such a step.
* `FlagIsOwned`: `FlagHasOneOwner`. `FlagInv`: no two requests are between taking the flag and clearing
  it, and while one is, the flag is up. The converse is false: a dropped request leaves it up.
* `SuccessIsEarned`: `SuccessHasDigest`. `VerdictInv` adds that a verdict of success that is on its
  way goes to the run's own row, and that this row's child has written.
* `MutualExclusion`, `LockIsHeld`, `OpenRowsStayOpen` (T): `AtMostOneLiveRun`, `LiveRunHoldsLock`,
  `LiveRowIsOpen`. What keeps another process away is that the lock row is young. `SafetyInv`
  therefore carries, for each live run, an upper bound on its age by the stage and the attempt it is
  at; with `Timely` it is below the window at every stage, so `Acquire` of another task finds the row
  live (`LiveRunBlocks`), and a sweep finds the attempt's row too young.
* `Refinement` (T): the run lifecycle implements `RunLedger`. `LedgerInv` adds to `SafetyInv` that the
  row of a live run is the last row of the table, with the number of its attempt and, between two
  attempts, a failed or killed status. Each step is then a step of the ledger or leaves it
  (`Simulates`, one lemma per action).
* `PagesTellTheTruth` (T): `PagesFollowTheRuns`. `ChainInv`: a row is a first attempt or follows the
  row before it with the next number and the same kind; starts are in order; the
  attempts of one call start within less than a window of each other, because the rows of a live run
  are no older than its clock. So the page, which joins by kind, number and time, joins exactly the
  attempts of one call. `RunningInv`: without deaths and errors of the database, an open row has a
  task at work. That part of the property is conditional on the same.

Digest (`Digest_proofs`): `ShownOnce`, `PublishedOnce`, `Ranked` and `SelectSuffices`, which are
`NothingShownTwice`, `OneDigestPerRun`, `PositionsAreRanks` and `FullIsPublishable`. `IInv` adds that
what a run has staged was read by it and is within the caps of `select`, and `PassedInv`: a call that
passed its checks is the only one of its run, which has no digest yet; what it saw shares nothing
with what is staged; and what is staged stays as it is, because the call holds its server's
connection. An insert, of a late child too, therefore keeps what the checks established, but says
nothing of digests that came between: hence `d.run \in e.seen` in `NothingShownTwice`. The positions are ranks: an item's rank is one more than the number of those before it in
its section, different items have different ranks, and so the ranks fill 1 to the section's size
(`RanksFill`). `SelectSuffices`: where `publish` counts more of a title than the cap, `select` has kept
the cap for each source, so two sources share the title (`SharedTitleIsOver`).

Profile (`Feedback_proofs`): `TopicsFollow`, `SourcesFollow`. `QueueInv`: an approval is of a proposal of the
table that says so, and what a run proposes as a source it had validated itself. `OriginInv`: a topic
that no file lists is no seed, so that the mirrors, which delete seeds and rewrite what their file
lists, leave it alone. With both, an approval extends the chain of weights of its own topic and of no
other.

Ingest (`Ingest_proofs`):

* `OneRowPerArticle`: `ArticlesAreStoredOnce`. `LockInv` says whose batch is open and that no other
  task writes then; `OnceInv` that the projection such a batch compares with holds all that feeds
  have stored in the window, and that what was compared is still new when it is inserted.
* `ReportsAreTrue`: `ReportIsTrue`. `ReportInv`: a task counts what it stores until the budget drops
  it, what it says of its feed is true when it ends, and stays true of those joined in time; a feed
  whose task was aborted is reported as failed.
* `ValidatorsAreEarned`: `ValidatorsFollowItems`, whatever fails. `ValidatorsInv`: each entry of the
  fetched version is stored, a duplicate of what is, still in a list of the task, or among those it
  passed over, and the lists are empty when the feed is marked. What was passed over is remembered
  with the validators (`Missed`, `StillMissed`), so a later fetch answers for its own entries only.

Attempt (`Attempt_proofs`):

* `NothingIsDropped`, `SuccessHasItsLines`: `LinesAreKept`, `SuccessIsNearlyStored`. `LinesInv`: unless
  the writer died, file and channel together are what was read, but for a line in `send`
  (`InPlace`); if it died, no more was read than the channel could hold and the line being sent
  (`NoticedSoon`).
* `PromiseIsKept`: `Attempt` implements `Transcript`. `ResultInv` ties the verdict to the last result
  line.
* `HookKeepsItsCap`: `HookCapHolds`, whose condition is one search at a time. `CallsInv` and `HookInv`:
  then the file counts the searches that ran, except while the one that goes on has emptied it, and
  that one still knows the number.
* `PagesCountWhatHappened`: `PageCountsWhatHappened`, for transcripts of any length. `TurnsInv`: what
  the folds make of the lines the child has said is one turn per message, with each call listed in one of
  them and each failed call among the failed ones; a use is answered by one result. One line more keeps
  that (`SpokenCounts`, `CreditedCounts`, `OtherCounts`, lemmas about `fold_turns`). `LastInv`: nothing
  is said after the result, and no call goes on then. `FileInv` and `VerdictInv` lead from there to the
  rows a page reads: the file is the beginning of what was read, and a verdict of success comes from a
  transcript that was read to its result.

Ratings (`Feedback_proofs`): `EvidenceIsStable` (`IdInv`: ids are given once, the counter is ahead of
all of them, of those of deleted rows too); `RatingsAreTrue` (`TargetInv`: a request between its two
calls holds a digest that showed its item before, and its item is one that can be rated);
`DislikesAreSilent`, an action property: what a score reads of the ratings are the likes among them
(`OnlyLikesAreSignals`), and a stored dislike leaves those of the table without its item, whether it
replaced a like or nothing.

Files (`Upkeep_proofs`):

* `LedgerTellsTheTruth`: `LedgerIsTheSchema`, for any number of processes and migrations. `LedgerInv`
  adds what each process may rely on although the others go on: what it read from the ledger and all
  it has passed is applied (`KnowsPrefix`), and while its transaction is open nobody else applies its
  migration (`WritesTheNext`). With both, the migration a commit adds is the first one missing.
* `FilesBeforeRows`: `FilesGoFirst`, an action property, for any pruners, windows, runs, failures and
  deaths. `FilesInv` says what a step may rely on: what is on a list, made at any time before, is
  still finished and too old, and between the two halves of a run its directory is gone, whoever
  removed it.

Around the runs (`Service_proofs`):

* `LoopIsWellFormed`, `OccurrencesFireOnce`: `TypeOK` and `FiresOnce` of `Scheduler`, for any number of
  jobs and any sets of times. `IInv` adds that what a job has fired lies before the clock, and before
  what the round holds for it unless the round has already run it, and that a job not yet looked at
  has not been run in this round.
* `OwedJobsAreRun`: `OwedJobsRun`. `OwedInv`: while the loop sleeps or runs the round's first job, what
  the round holds for a job is its next occurrence, so a job that becomes due is overdue when the
  looks reach it, and until then it is ahead of them.
* `RotationLearned`, `RetiredGoOut`: the two action properties of `Access`, for any number of requests.
  `AccessInv` says what a request holds although keys come and go meanwhile: a key that was the
  provider's when the request came is not newer than its newest, the set a fetch brings lacks nothing
  that stayed and has nothing that was gone before the fetch began (`HeldInv`); a request forces a
  fetch only for a key that the cached set lacks, or when that set is new (`ForceInv`); what the cached
  set should not have was retired at most a timeout before it was stored (`CacheInv`); and the
  throttle's clock is the moment a forced fetch was last sent.
* `ServersServeTheirRuns`, `DataDirsAgree`: `ServerServesItsRun` and `OneDatabase` of `Launch`.
  `LaunchInv` remembers what a process loaded, whatever the files say now, and what its agent was
  started with. The key is `SameFiles`: an agent finds its `mcp.json` only if its own directory and its
  process's resolve the path to the same file, and that is so only if the data directory is absolute;
  then every process that has it opens the same database.
* `AgentsAreReached`: `AbsolutePathsReachTheAgent`, an action property. Absolute paths, joined, stay
  absolute, and name the same files from every directory (`Located`, `FindsIts`); and the tool server's
  environment, the agent's with the variables of `mcp.json` over it, leads to the configuration its
  process loads (`ServerLoads`).

Algorithms (`Algorithms_proofs`), on inputs of any length, most of them folds:

* `ScanIsExact`: `scan-transcript` answers 0 exactly for what is `Clean`, whatever the order of calls and
  results and whatever ids come again.
* `NearestIsNearest`, `TextIsNormalized`, `ExtractIsRight`, `TitlesAreTheirWords`: the operators of
  `Dedupe` do what `NearestIsMax`, `NormalizesWell`, `ExtractsWell` and `TitlesAgree` say of them. A text
  is normalised when no blank line stands at an end or beside another; what keeps its words and
  paragraphs on the way is one line's step (`IsNormal`, `Norms`).
* `FormsDoNotMatter`: `FormsAgree` for all 2^32 addresses of IPv4 in their three forms of IPv6.
* `BodiesAreWithinTheCap`: `WithinCap`, for chunks of any number and size.
* `OnlyPublicIsContacted`, `RequestsAreFollowed`: `OnlyPublic` and `Followed`, for any web of redirects
  (`IsWeb`: each leads to a url, and a number of them is followed), loops included. `Follow` is a
  recursive function on what has been visited; there is one, since each hop adds a url and their
  number is bounded (`FollowExists`).
* `HookRunsThisBinary`: `PathIsOneWord`, for any path: a quote in it leaves the quoting, is escaped, and
  returns to it, so that `sh` has read the path's beginning after each character.
* `SlugsAreIds`: `SlugIsAnId`, for any name, if an id may have the five characters of `topic`.
* `BoundsAreRight`: `BoundsAreTheDay`, for any day, two offsets and any second at which they change.

`FoldLeft` and the recursive functions are CHOOSEs, of which nothing is known until there is
something to choose. `Induction` takes a set of numbers instead of a formula, and is had from the
well-foundedness of the numbers (`WFMin`); with it a function of any number of steps exists
(`FoldExists`), a fold is a walk through the positions (`FoldSteps`, `Walked`), and what each step keeps
holds at the end (`WalkKeeps`). A theorem about a fold is then a set of accumulators per position
that the step keeps.

Lemmas that several of these need stand before them: sizes of sets of items and rows, heads and tails
of sequences, paths that are joined, multiples of a stage's time. The least or greatest of a set of
rows or digests is had from the well-foundedness of the numbers too.

Only model-checked:

* liveness (`FlagIsGivenBack`, `LockIsFreed`, `StopEndsTheLoop`, `CallersAreAnswered`, `AttemptEnds`,
  `ExpiredRunsGo`): fairness and ENABLED are out of the prover's reach;
* of the pure operators, that `CanonicalUrl` tells articles apart (`CanonicalWell`: it filters and sorts
  the parameters, and `SelectSeq` is defined by a recursion of which the library states no fact), what
  discovery proposes (`FoundWell`), the percentile of a source and the rounding of a duration:
  `ASSUME`s compare them with their reference definitions over small inputs.

## What the model found

A run exhibits one disagreement (`PROJECT.json`, "findings"): **a scheduled Curator run deletes the
seed topics.** `serve` gives the Curator's runner `Vec::new()` for its topics (serve.rs:82) and every
run mirrors its list first (service_runner.rs:173). They are back with the next Editor run; until
then no page and no tool sees them, and the Curator itself can neither read nor change them.
`dailybrief curate` passes the real list.

Four more are steps of the models, which the properties are worded around:

* A client that leaves can lock manual runs out. `POST /run` takes `active` (run.rs:112), then awaits
  `lock_holder` (run.rs:124) before it spawns the task that clears the flag. A handler that is
  dropped at that await leaves the flag up (`DropRequest`), and later requests are answered 409 until
  the service restarts, where SPEC.md:393 has "409 when a run is active". `FlagHasOneOwner` therefore
  does not say that a flag which is up has an owner, and `FlagIsGivenBack` is about accepted runs.
* Two runs can show one item. The checks of `publish` and its insert are one call, but not one
  transaction (digest.rs:123-165): the server of a killed run and the server of the next run may both
  check (`Check`) before either inserts (`Insert`), against "nothing shown in the last 14 days"
  (SPEC.md:131). `NothingShownTwice` is about the digests a check could see.
* Staging counts the items of a source by id (staging.rs:248), publishing by title (digest.rs:91), and
  nothing forbids two feeds one title: a set that every `select` let in may be rejected, against
  "checked on every `select` and again on `publish_digest`" (prompts/editor.md:43).
  `FullIsPublishable` names that exception (`SharedTitleIsOver`).
* An entry whose page cannot be had is passed over (ingest.rs:269), and the validators are kept, so it
  is not looked at again until the feed changes; core/fetch.rs:14 calls the text the feed carries "a
  fallback when the page fails". `ValidatorsFollowItems` names those entries (`passed`).

Remarks met while modelling. Runs and the scheduler:

* The sweep looks once, at startup, and only at rows older than the window: a service that is back
  within the window leaves the dead run's row `running` until the start after the next
  (serve.rs:37 says such a row "is closed").
* An occurrence that passes while a later job of the list catches up, after its own job was looked
  at, is lost: each job is looked at once per round (scheduler.rs:99 says it "fires right after").
* `retry_chain` does not look at the role; a day's page says `failed` between a failed attempt and
  the row of its retry, and for a run that crosses midnight.
* The window is computed from each process's own configuration: a `serve` that loaded another wall
  clock than a command sees another window.

Digest and profile:

* Staged order is not kept after a drop or a move: a new position is a count, not a maximum, and
  ties go to the item id (staging.rs:287, against "in staged order", SPEC.md:160).
* `topics.toml` overwrites an approved weight or promotion of a listed topic at the next run, and
  `feeds.toml` an approved disabling; an approved new source is stored, but ingest reads only the
  feeds of `feeds.toml`. `sync_topics` never embeds a topic that was approved, and `reembed` only the
  configured ones.
* "so the reader never sees a proposal that cannot apply" (mcp/tools/curator.rs:107) holds of the
  moment of the proposal: two pending additions of one topic can both be seen, and the second is
  answered 409. Two names can share one slug.
* No code writes `last_positive_at` or `saturation`, so every topic stays cold and none is damped.
* `get_feedback` covers a fixed window of 7 days; the tool's description says "since the last
  Curator run" (mcp/server.rs:202).

Ingest:

* A task that ends in a database error is reported as failed and its source's failures are not
  counted; after an error of the whole round the tool may be called again.
* `dailybrief fetch` takes no lock: the url is unique in the table, but titles and vectors are
  compared only with what was there when the batch began.
* `canonical_url` trims every slash at the end where its comment says one (dedupe.rs:18); titles
  without letters or digits all hash alike.

Attempt:

* "a run whose lines were not all stored cannot be called a success" (claude_code.rs:371) is nearly
  so: the adapter notices a dead writer at the next line it sends, and the runner only logs the
  writer's end, so a success may lack what was in the channel, the line being written, and rows the
  database refused. `SuccessIsNearlyStored` states the bound.
* The line held in `send` at the wall clock is lost.
* The hook allows eight searches to either role; the scan's cap of an Editor run is five. Parallel
  calls can pass the eighth.

Files, pages, configuration:

* `docs/adr/0013-retention.md:16` says a directory that cannot be removed stops the prune; the code
  goes on with the next run and reports it (retention.rs:141).
* The same ADR (line 17) says the pages never show a run whose file is gone but whose rows suggest
  otherwise. Between the two halves of a run, and for a day when the process dies there or the
  database refuses, they do: `FilesGoFirst` states what the order does give, that rows never go while the file is there.
  A run that has just begun, whose child says nothing or whose inserts fail has a file and no rows.
* A process that loses the race for a migration ends with an error instead of going on; the
  supervisor starts it again.
* With the default, relative paths every agent is blind: it is started in the run's directory, where
  the paths of its prompt and its `mcp.json` name nothing. The container sets absolute ones
  (Dockerfile:79). `config/config.toml:10` calls `data_dir` relative to the project root; it is
  relative to the working directory (load.rs:75).
* A day whose own or whose next midnight a change of the clock skips or repeats has no bounds, and
  its page answers that the date is bad.

## Not modelled

* `core/vector.rs`, `core/embed.rs`: floating point and an ONNX model; a cosine is a constant.
  `reembed` rewrites one column in batches at first deployment.
* `search_items`, `get_briefing`, the archive and search pages, `get_profile`'s counts: queries that
  change nothing and that nothing modelled depends on.
* Editor notes and feed issues: a row replaced, or one appended and an error stamped, in one call;
  shown, never decided by.
* Parsers (feeds, HTML, JSON, cron, tokens), redaction, hashes: libraries, or text.
* Views, prompts, schemas and their generator: layout and wording.
* `Scheduler::run_loop`, the single-job loop that `serve` no longer uses.

## Plan

1. Done: the modules, and the theorems of "What is proved".
2. Left to prove: that `CanonicalUrl` tells articles apart and what discovery proposes, for all inputs;
   a refinement of `Scheduler` and of `Signals` by a specification that has only occurrences, or only
   ratings.
3. Left to model: the ids of topics made of names inside `Profile`, and processes of `RunLifecycle`
   with different windows.
