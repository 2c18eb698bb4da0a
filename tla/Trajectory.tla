----------------------------- MODULE Trajectory -----------------------------
(***************************************************************************)
(* What the pages and `scan-transcript` make of the lines of a transcript: *)
(* turns, the caps that were used, and the searches that were asked for.   *)
(* A line is one message of the stream with at most one block, which is    *)
(* how the harness writes them.                                            *)
(***************************************************************************)
EXTENDS Naturals, Sequences, SequencesExt, FiniteSets

None == "none"

\* `id` is the message's, `use` the tool call's, 0 without one; `tool` what it calls; `sub` the subtype of a
\* result.
Line(kind, id, use, tool, sub, err) ==
  [kind |-> kind, id |-> id, use |-> use, tool |-> tool, sub |-> sub, err |-> err]

Assistant(id, use, tool) == Line("assistant", id, use, tool, None, FALSE)
ToolResult(use, err) == Line("user", 0, use, None, None, err)
Result(sub) == Line("result", 0, 0, None, sub, FALSE)

\* A line that does not parse: kept, and ignored by the folds.
Unknown == Line("unparseable", 0, 0, None, None, FALSE)

\* HashMap::insert
Insert(map, key, value) ==
  [k \in DOMAIN map \cup {key} |-> IF k = key THEN value ELSE map[k]]

-----------------------------------------------------------------------------
(* fold_turns *)

\* Mutant: a tool result closes the message it answers.
OpenAfterResult(acc, l) == IF l.kind = "assistant" THEN l.id ELSE 0

\* The message whose lines may go on: a result between them does not end it.
OpenAfter(acc, l) == IF l.kind = "assistant" THEN l.id ELSE acc.open

\* A turn lists the tools it called, and those of them that failed.
Opened(id) == [id |-> id, tools |-> <<>>, failed |-> <<>>]
Calling(turn, tool) == [id |-> turn.id, tools |-> Append(turn.tools, tool), failed |-> turn.failed]
Failing(turn, tool) == [id |-> turn.id, tools |-> turn.tools, failed |-> Append(turn.failed, tool)]

\* An assistant line joins the turn of the line before it with the same id.
Spoken(acc, l) ==
  LET joins == acc.open # 0 /\ acc.open = l.id
      turns == IF joins THEN acc.turns
               ELSE Append(acc.turns, Opened(l.id))
      n == Len(turns)
  IN [turns |-> IF l.tool = None THEN turns
                ELSE [turns EXCEPT ![n] = Calling(@, l.tool)],
      by |-> IF l.tool = None THEN acc.by
             ELSE Insert(acc.by, l.use, [turn |-> n, tool |-> l.tool]),
      open |-> OpenAfter(acc, l)]

\* A result is credited to the turn that asked for it; an orphan is ignored.
Credited(acc, l) ==
  [turns |-> IF l.use \in DOMAIN acc.by /\ l.err
             THEN [acc.turns EXCEPT ![acc.by[l.use].turn] = Failing(@, acc.by[l.use].tool)]
             ELSE acc.turns,
   by |-> acc.by,
   open |-> OpenAfter(acc, l)]

Fold(acc, l) ==
  CASE l.kind = "assistant" -> Spoken(acc, l)
    [] l.kind = "user" -> Credited(acc, l)
    [] OTHER -> acc

NoTurns == [turns |-> <<>>, by |-> <<>>, open |-> 0]
Turned(lines) == FoldLeft(Fold, NoTurns, lines)
FoldTurns(lines) == Turned(lines).turns

-----------------------------------------------------------------------------
(* caps_used *)

\* Where a tool stands in the lists of the turns, and how often.
Places(lists, tool) ==
  UNION {{n} \X {i \in DOMAIN lists[n] : lists[n][i] = tool} : n \in DOMAIN lists}
Listed(lists, tool) == Cardinality(Places(lists, tool))
Called(turns, tool) == Listed([n \in DOMAIN turns |-> turns[n].tools], tool)
Failed(turns, tool) == Listed([n \in DOMAIN turns |-> turns[n].failed], tool)

\* saturating_sub: a rejected call is not a selection.
Accepted(turns, tool) ==
  IF Failed(turns, tool) > Called(turns, tool) THEN 0
  ELSE Called(turns, tool) - Failed(turns, tool)

Hit(used, cap) == cap > 0 /\ used >= cap
Used(used, cap) == [used |-> used, cap |-> cap, hit |-> Hit(used, cap)]

\* The result's milliseconds, rounded; without them, from the first time stamp to the last.
WallSecs(durations, stamps) ==
  IF durations # <<>> THEN (durations[1] + 500) \div 1000
  ELSE IF stamps # <<>> /\ Last(stamps) > stamps[1] THEN Last(stamps) - stamps[1] ELSE 0

\* A run that was stopped at its turns reached that cap, whatever it was.
CapsUsed(turns, sub, caps) ==
  LET stopped == sub = "error_max_turns"
      used == Used(Len(turns), IF stopped THEN Len(turns) ELSE caps.max_turns)
  IN [reads |-> Used(Called(turns, "read_item"), caps.reads),
      selects |-> Used(Accepted(turns, "select"), caps.for_you + caps.beyond_radar),
      searches |-> Used(Called(turns, "WebSearch"), caps.web_search),
      turns |-> [used EXCEPT !.hit = @ \/ stopped],
      publishes |-> Called(turns, "publish_digest")]

-----------------------------------------------------------------------------
(* scan_transcript *)

\* A scanned line carries something forbidden or not; a result of read_item has a
\* text that is "stored", or not what is stored of an item that exists.
Scanned(line, leak, text) == [line |-> line, leak |-> leak, text |-> text]

IsCall(line) == line.kind = "assistant" /\ line.tool # None

\* Every tool_use counts, an allowed one or not.
IsSearch(line) == line.kind = "assistant" /\ line.tool = "WebSearch"

\* check_read_item: the tool is the last one that was asked for under this id.
Foreign(uses, s) ==
  /\ s.line.kind = "user" /\ s.line.use \in DOMAIN uses
  /\ uses[s.line.use] = "read_item"
  /\ ~s.line.err /\ s.text # "stored"

Finds(acc, s) ==
  [uses |-> IF IsCall(s.line) THEN Insert(acc.uses, s.line.use, s.line.tool) ELSE acc.uses,
   searches |-> IF IsSearch(s.line) THEN acc.searches + 1 ELSE acc.searches,
   found |-> acc.found \o (IF s.leak THEN <<"forbidden">> ELSE <<>>)
                       \o (IF Foreign(acc.uses, s) THEN <<"read_item">> ELSE <<>>)]

Scan(seen) == FoldLeft(Finds, [uses |-> <<>>, searches |-> 0, found |-> <<>>], seen)

Findings(seen, cap) ==
  Scan(seen).found \o IF Scan(seen).searches > cap THEN <<"WebSearch">> ELSE <<>>

\* The command: the lines, and the error the run's row keeps; its exit code.
ScanTranscript(seen, cap, errorLeaks) ==
  IF Findings(seen, cap) = <<>> /\ ~errorLeaks THEN 0 ELSE 1

(* What the scan is for: it is clean exactly when no line and no stored    *)
(* error carries what is forbidden, every read_item answered with what is  *)
(* stored, and no more searches were asked for than the cap.               *)
Clean(seen, cap) ==
  LET asked(n) == {m \in 1..n - 1 : IsCall(seen[m].line) /\ seen[m].line.use = seen[n].line.use}
      last(n) == CHOOSE m \in asked(n) : \A k \in asked(n) : k <= m
  IN /\ \A n \in DOMAIN seen : ~seen[n].leak
     /\ \A n \in DOMAIN seen :
          seen[n].line.kind = "user" /\ ~seen[n].line.err /\ asked(n) # {}
          /\ seen[last(n)].line.tool = "read_item" => seen[n].text = "stored"
     /\ Cardinality({n \in DOMAIN seen : IsSearch(seen[n].line)}) <= cap
=============================================================================
