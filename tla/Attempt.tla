------------------------------ MODULE Attempt -------------------------------
(***************************************************************************)
(* One attempt of a run from the spawn of `claude` to the verdict: what    *)
(* the child says goes through its stdout pipe to the adapter, from there  *)
(* through a bounded channel to the writer, and into transcript.jsonl and  *)
(* `run_events`.  The child calls tools, several at a time; each WebSearch *)
(* is first put to a hook process of its own, and these share the counter  *)
(* in hook-state.json.                                                     *)
(***************************************************************************)
EXTENDS Trajectory, FiniteSets, FiniteSetsExt

CONSTANTS
  ToolOf,     \* the tools the child may call, in their order
  Messages,   \* bound: the messages it calls them in
  HookCap,    \* CURATOR_WEB_SEARCH_CAP
  ScanCap,    \* caps.web_search
  Pipe,       \* the lines that fit in the stdout pipe
  Capacity,   \* LINE_CHANNEL_CAPACITY
  MaxErrs,    \* bound: the errors of files and tables
  Faults      \* of "spawn", "read", "disk", "db", "save", "long", "hang"

\* A tool call is named by its number, its use id.
Uses == DOMAIN ToolOf

ASSUME AttemptAssumption ==
  /\ ToolOf \in Seq(STRING)
  /\ Messages \in Nat /\ MaxErrs \in Nat
  /\ HookCap \in Nat /\ ScanCap \in Nat
  /\ Pipe \in Nat \ {0} /\ Capacity \in Nat \ {0}

VARIABLES
  agent,     \* the child process
  msg,       \* the message it is at
  call,      \* where each tool call is, or what its hook decided
  answered,  \* the calls whose result it has written
  saw,       \* the count each hook process has loaded
  counter,   \* the count in hook-state.json, 0 when absent or torn
  pipe,      \* lines written and not read
  adapter,   \* where ClaudeCode::run is
  read,      \* the lines it has read
  result,    \* the last result line it has parsed
  closed,    \* sink_closed
  channel,   \* the lines on their way to the writer
  writer,    \* where the writer task is
  file,      \* transcript.jsonl
  rows,      \* the run's rows of run_events, as their numbers
  outcome    \* the RunOutcome

\* The errors there have been: rows not inserted, a dead writer, counts not saved.
Errs ==
  Len(file) - Cardinality(rows) + Cardinality({u \in Uses : call[u] = "noted"})
    + IF writer = "died" THEN 1 ELSE 0
Err(fault) == fault \in Faults /\ Errs < MaxErrs

child == <<agent, msg, call, answered, saw, counter>>
vars == <<child, pipe, adapter, read, result, closed, channel, writer, file, rows, outcome>>

Init ==
  /\ agent = "unborn"
  /\ msg = 0
  /\ call = [u \in Uses |-> "none"]
  /\ answered = {}
  /\ saw = [u \in Uses |-> 0]
  /\ counter = 0
  /\ pipe = <<>>
  /\ adapter = "spawning"
  /\ read = <<>>
  /\ result = None
  /\ closed = FALSE
  /\ channel = <<>>
  /\ writer = "opening"
  /\ file = <<>>
  /\ rows = {}
  /\ outcome = None

-----------------------------------------------------------------------------
(* The child and its hook processes *)

\* A write to stdout waits while the pipe is full, and fails when nobody reads it.
Says(line) ==
  /\ agent = "working"
  /\ adapter \in {"reading", "sending"}
  /\ Len(pipe) < Pipe
  /\ pipe' = Append(pipe, line)

Asked(u) == call[u] # "none"
Going(u) == Asked(u) /\ u \notin answered

\* A tool call, in the present message or, when all calls are answered, a new one.
CallTool(u) ==
  /\ ~Asked(u)
  /\ \A v \in 1..(u - 1) : Asked(v)
  /\ \E m \in {msg, msg + 1} \cap 1..Messages :
       /\ m # msg => \A v \in Uses : ~Going(v)
       /\ msg' = m
       /\ Says(Assistant(m, u, ToolOf[u]))
  /\ call' = [call EXCEPT ![u] = IF ToolOf[u] = "WebSearch" THEN "hook" ELSE "allowed"]
  /\ UNCHANGED <<agent, answered, saw, counter, adapter, read, result, closed, channel, writer, file, rows, outcome>>

\* Mutant: the count is compared with one too few.
RefusesAfter(count) == count > HookCap

\* decide for a WebSearch.
Refuses(count) == count >= HookCap

\* load_state and decide.
HookLoads(u) ==
  /\ call[u] = "hook"
  /\ saw' = [saw EXCEPT ![u] = counter]
  /\ call' = [call EXCEPT ![u] = IF Refuses(counter) THEN "refused" ELSE "saving"]
  /\ UNCHANGED <<agent, msg, answered, counter, pipe, adapter, read, result, closed, channel, writer, file, rows, outcome>>

\* save_state is fs::write: the file is emptied, then written.  An error is noted and
\* allows the call, with the counter as it was or empty.
HookEmpties(u) ==
  /\ call[u] = "saving"
  /\ \/ call' = [call EXCEPT ![u] = "emptied"] /\ counter' = 0
     \/ Err("save") /\ call' = [call EXCEPT ![u] = "noted"] /\ UNCHANGED counter
  /\ UNCHANGED <<agent, msg, answered, saw, pipe, adapter, read, result, closed, channel, writer, file, rows, outcome>>

HookSaves(u) ==
  /\ call[u] = "emptied"
  /\ \/ call' = [call EXCEPT ![u] = "allowed"] /\ counter' = saw[u] + 1
     \/ Err("save") /\ call' = [call EXCEPT ![u] = "noted"] /\ UNCHANGED counter
  /\ saw' = [saw EXCEPT ![u] = 0]
  /\ UNCHANGED <<agent, msg, answered, pipe, adapter, read, result, closed, channel, writer, file, rows, outcome>>

\* The tool's result: a refused call is an error, and an allowed one may be.
Answer(u) ==
  /\ u \notin answered
  /\ \/ call[u] = "refused" /\ Says(ToolResult(u, TRUE))
     \/ /\ call[u] \in {"allowed", "noted"}
        /\ \E err \in IF ToolOf[u] = "WebSearch" THEN {FALSE} ELSE BOOLEAN : Says(ToolResult(u, err))
  /\ answered' = answered \cup {u}
  /\ UNCHANGED <<agent, msg, call, saw, counter, adapter, read, result, closed, channel, writer, file, rows, outcome>>

\* The last line, when every call is answered; one over the cap is cut and does
\* not parse.
Conclude ==
  /\ \A u \in Uses : ~Going(u)
  /\ \E l \in {Result("success"), Result("error")}
              \cup (IF "long" \in Faults THEN {Unknown} ELSE {}) : Says(l)
  /\ agent' = "ended"
  /\ UNCHANGED <<msg, call, answered, saw, counter, adapter, read, result, closed, channel, writer, file, rows, outcome>>

\* It exits, or is killed by a signal, with what it wrote still in the pipe; a process
\* it leaves may hold the other end.
Exit ==
  /\ agent \in {"working", "ended"}
  /\ agent' \in {"gone"} \cup (IF "hang" \in Faults THEN {"left"} ELSE {})
  /\ UNCHANGED <<msg, call, answered, saw, counter, pipe, adapter, read, result, closed, channel, writer, file, rows, outcome>>

\* It closes its stdout and hangs.
Hang ==
  /\ "hang" \in Faults
  /\ agent = "ended"
  /\ agent' = "hanging"
  /\ UNCHANGED <<msg, call, answered, saw, counter, pipe, adapter, read, result, closed, channel, writer, file, rows, outcome>>

Agent == Conclude \/ Exit \/ Hang \/ \E u \in Uses :
  CallTool(u) \/ HookLoads(u) \/ HookEmpties(u) \/ HookSaves(u) \/ Answer(u)

-----------------------------------------------------------------------------
(* ClaudeCode::run *)

Spawn ==
  /\ adapter = "spawning"
  /\ \/ adapter' = "reading" /\ agent' = "working" /\ UNCHANGED outcome
     \/ /\ "spawn" \in Faults
        /\ adapter' = "done" /\ outcome' = "failed" /\ UNCHANGED agent
  /\ UNCHANGED <<msg, call, answered, saw, counter, pipe, read, result, closed, channel, writer, file, rows>>

\* The next line, cut and redacted; it is then held until the channel takes it.
ReadLine ==
  /\ adapter = "reading"
  /\ pipe # <<>>
  /\ pipe' = Tail(pipe)
  /\ read' = Append(read, Head(pipe))
  /\ adapter' = "sending"
  /\ UNCHANGED <<child, result, closed, channel, writer, file, rows, outcome>>

Receiving == writer \in {"opening", "ready"}

Parsed == IF Last(read).kind = "result" THEN Last(read).sub ELSE result

\* sink.send waits while the channel is full; it fails when the receiver is gone.
\* Either way the line is parsed.
Send ==
  /\ adapter = "sending"
  /\ \/ /\ Receiving
        /\ Len(channel) < Capacity
        /\ channel' = Append(channel, Last(read))
        /\ UNCHANGED closed
     \/ ~Receiving /\ closed' = TRUE /\ UNCHANGED channel
  /\ result' = Parsed
  /\ adapter' = "reading"
  /\ UNCHANGED <<child, pipe, read, writer, file, rows, outcome>>

\* The end of the output, or an error reading it.
Eof ==
  /\ adapter = "reading"
  /\ \/ pipe = <<>> /\ agent \in {"hanging", "gone"}
     \/ "read" \in Faults
  /\ adapter' = "waiting"
  /\ UNCHANGED <<child, pipe, read, result, closed, channel, writer, file, rows, outcome>>

\* Mutant: a closed sink is only logged.
VerdictWhateverStored ==
  IF result = "success" THEN "success" ELSE "failed"

\* What the end of the child is classified as.
Verdict ==
  IF closed \/ result # "success" THEN "failed" ELSE "success"

ChildWaited ==
  /\ adapter = "waiting"
  /\ agent = "gone"
  /\ outcome' = Verdict
  /\ adapter' = "done"
  /\ UNCHANGED <<child, pipe, read, result, closed, channel, writer, file, rows>>

\* Mutant: the deadline covers the read loop only.
TimesOutReading == adapter \in {"reading", "sending"}

TimesOut == adapter \in {"reading", "sending", "waiting"}

\* The wall clock covers the read loop and the wait: SIGTERM, then SIGKILL.
Terminate ==
  /\ TimesOut
  /\ agent' = "gone"
  /\ outcome' = "killed"
  /\ adapter' = "done"
  /\ UNCHANGED <<msg, call, answered, saw, counter, pipe, read, result, closed, channel, writer, file, rows>>

Adapter == Spawn \/ ReadLine \/ Send \/ Eof \/ ChildWaited \/ Terminate

-----------------------------------------------------------------------------
(* The writer task of Runner::attempt *)

Open ==
  /\ writer = "opening"
  /\ writer' \in {"ready"} \cup (IF Err("disk") THEN {"died"} ELSE {})
  /\ UNCHANGED <<child, pipe, adapter, read, result, closed, channel, file, rows, outcome>>

\* Mutant: a line whose write fails is passed over.
Unwritten == "ready"

\* What an error of the file makes of the task: it ends, and the channel closes.
Broken == "died"

\* One turn of the loop: the line goes to the file, then its row to the table, whose
\* error is logged and the file continues.
WriteLine ==
  /\ writer = "ready"
  /\ channel # <<>>
  /\ channel' = Tail(channel)
  /\ \/ /\ file' = Append(file, Head(channel))
        /\ \/ rows' = rows \cup {Len(file) + 1}
           \/ Err("db") /\ UNCHANGED rows
        /\ UNCHANGED writer
     \/ Err("disk") /\ writer' = Broken /\ UNCHANGED <<file, rows>>
  /\ UNCHANGED <<child, pipe, adapter, read, result, closed, outcome>>

\* Mutant: the writer ends when it has nothing to do.
IdleForGood == channel = <<>>

\* recv returns None: the sender is gone and the channel is empty.
Drained == adapter = "done" /\ channel = <<>>

Flush ==
  /\ writer = "ready"
  /\ Drained
  /\ writer' = "ended"
  /\ UNCHANGED <<child, pipe, adapter, read, result, closed, channel, file, rows, outcome>>

Writer == Open \/ WriteLine \/ Flush

Next == Agent \/ Adapter \/ Writer

Spec == Init /\ [][Next]_vars

\* The adapter and the writer are polled, and time passes; nothing is asked of the
\* child.
FairSpec == Spec /\ WF_vars(Adapter) /\ WF_vars(Terminate) /\ WF_vars(Writer)

-----------------------------------------------------------------------------
(* Properties *)

AllLines ==
  {Assistant(m, u, ToolOf[u]) : m \in 1..Messages, u \in Uses}
  \cup {ToolResult(u, err) : u \in Uses, err \in BOOLEAN}
  \cup {Result("success"), Result("error"), Unknown}

\* The verdict is in, and Runner::attempt has waited for the writer.
Settled == adapter = "done" /\ writer \in {"ended", "died"}

\* A burst "is slowed down, never dropped" (runner.rs:207): between the child and the
\* file there is each line in its place, unless the writer died.  Only the line that
\* waited for the channel at the wall clock is lost.
LinesAreKept ==
  writer # "died" =>
    \/ file \o channel = read
    \/ /\ adapter = "sending" \/ outcome = "killed"
       /\ file \o channel = Front(read)

\* For whoever reads the transcript, the attempt is one that stores what it hears in
\* order and judges it once.
EndsInSuccess(lines) ==
  \E n \in DOMAIN lines :
    /\ lines[n].kind = "result" /\ lines[n].sub = "success"
    /\ \A m \in DOMAIN lines : m > n => lines[m].kind # "result"

Promise == INSTANCE Transcript WITH
  Lines <- AllLines, Succeeds <- EndsInSuccess,
  heard <- read, stored <- file, verdict <- outcome

KeepsItsPromise == Promise!Spec

\* "a run whose lines were not all stored cannot be called a success, whatever the
\* harness reported" (claude_code.rs:371): not quite.  The adapter notices a dead writer
\* at the next line it sends, so a success has lost at most what was in the channel and
\* the line being written.
SuccessIsNearlyStored ==
  Settled /\ outcome = "success" => Len(read) <= Len(file) + Capacity + 1

Searches == {u \in Uses : ToolOf[u] = "WebSearch"}
Ran == {u \in Searches : call[u] \in {"allowed", "noted"}}

\* No message asked for two tools.
OneByOne ==
  LET said == read \o pipe IN
  \A i, j \in DOMAIN said :
    i # j /\ said[i].kind = "assistant" /\ said[j].kind = "assistant"
      => said[i].id # said[j].id

\* When the child asks for one search at a time and each count is saved, the cap of the
\* hook holds: processes that live for one call keep it in a file.  (Parallel calls
\* can lose a count, and one that reads the file while it is empty sets it back.)
HookCapHolds ==
  OneByOne /\ (\A u \in Uses : call[u] # "noted") => Cardinality(Ran) <= HookCap

\* The lines of run_events, in the order of seq: the nth has n - 1 before it.
Events ==
  [n \in 1..Cardinality(rows) |->
     file[CHOOSE r \in rows : Cardinality({s \in rows : s < r}) = n - 1]]

PageCaps == [reads |-> 1, for_you |-> 1, beyond_radar |-> 0, web_search |-> ScanCap, max_turns |-> Messages]

\* When no row was lost, the page of a successful run counts what happened: its turns
\* are the messages, its searches those that were asked, its selections those the
\* server accepted, although results of parallel calls come in any order.
PageCountsWhatHappened ==
  Settled /\ outcome = "success" /\ rows = DOMAIN read =>
    LET used == CapsUsed(FoldTurns(Events), result, PageCaps) IN
    /\ used.turns.used = msg
    /\ used.searches.used = Cardinality({u \in Searches : Asked(u)})
    /\ used.selects.used =
         Cardinality({u \in Uses : ToolOf[u] = "select" /\ ToolResult(u, FALSE) \in ToSet(read)})

\* The attempt ends, whatever the child does with its pipe and whatever is full.
AttemptEnds == agent # "unborn" ~> Settled
=============================================================================
