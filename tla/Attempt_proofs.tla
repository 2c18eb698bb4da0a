--------------------------- MODULE Attempt_proofs ---------------------------
(***************************************************************************)
(* What an attempt does with the lines of its child, for any tools, pipes, *)
(* channels and faults: they are stored in order, a success has nearly all *)
(* of them, the attempt keeps the promise of Transcript; when the cap of   *)
(* the search hook holds; and that a run's page counts what happened.      *)
(***************************************************************************)
EXTENDS Attempt, Algorithms_proofs, SequenceTheorems

Searching == {"hook", "saving", "emptied"}
Calls == {"none", "refused", "allowed", "noted"} \cup Searching

TypeInv ==
  /\ agent \in {"unborn", "working", "ended", "gone", "left", "hanging"}
  /\ msg \in 0..Messages
  /\ call \in [Uses -> Calls]
  /\ answered \in SUBSET Uses
  /\ saw \in [Uses -> Nat] /\ counter \in Nat
  /\ pipe \in Seq(AllLines) /\ read \in Seq(AllLines)
  /\ channel \in Seq(AllLines) /\ file \in Seq(AllLines)
  /\ adapter \in {"spawning", "reading", "sending", "waiting", "done"}
  /\ writer \in {"opening", "ready", "ended", "died"}
  /\ closed \in BOOLEAN
  /\ outcome \in {None, "success", "failed", "killed"}
  /\ outcome # None <=> adapter = "done"
  /\ adapter = "sending" => read # <<>>
  /\ writer = "ended" => adapter = "done"

\* Between the child and the file each line is in its place.
InPlace ==
  /\ adapter \in {"spawning", "reading", "waiting"} => file \o channel = read
  /\ adapter = "sending" => file \o channel = Front(read)
  /\ adapter = "done" =>
       \/ file \o channel = read
       \/ outcome = "killed" /\ read # <<>> /\ file \o channel = Front(read)

\* A dead writer is noticed at the next line that is sent: until then no more was
\* read than the channel could hold, and that line.
NoticedSoon ==
  ~closed =>
    /\ adapter # "sending" /\ outcome # "killed" => Len(read) <= Len(file) + Capacity
    /\ adapter = "sending" => Len(read) <= Len(file) + Capacity + 1

LinesInv ==
  /\ Len(channel) <= Capacity
  /\ writer # "died" => InPlace
  /\ writer = "ended" => channel = <<>>
  /\ writer = "died" => NoticedSoon
  /\ outcome = "success" => ~closed

\* The verdict follows the last result line that was parsed.
ResultInv ==
  /\ adapter \in {"spawning", "reading", "waiting"} /\ result = "success" => EndsInSuccess(read)
  /\ adapter = "sending" /\ result = "success" => EndsInSuccess(Front(read))

Said == read \o pipe

AllSaved == \A u \in Uses : call[u] # "noted"

\* The message that is open was heard; only a search has a hook, and it is answered
\* after it.
CallsInv ==
  /\ msg # 0 => \E n \in DOMAIN Said : Said[n].kind = "assistant" /\ Said[n].id = msg
  /\ \A u \in answered : call[u] \notin {"none"} \cup Searching
  /\ \A u \in Uses : call[u] \in Searching => ToolOf[u] = "WebSearch"

\* With one search at a time, the file counts the searches that ran, except while
\* the one that goes on has emptied it.
HookInv ==
  OneByOne /\ AllSaved =>
    /\ \A u, v \in Uses : Going(u) /\ Going(v) => u = v
    /\ Cardinality(Ran) <= HookCap
    /\ (\A u \in Uses : call[u] # "emptied") => counter = Cardinality(Ran)
    /\ \A u \in Uses : /\ call[u] = "saving" => saw[u] = counter /\ counter < HookCap
                       /\ call[u] = "emptied" => saw[u] = Cardinality(Ran) /\ saw[u] < HookCap

-----------------------------------------------------------------------------
(* Sequences *)

LEMMA FrontAndLast ==
  ASSUME NEW S, NEW s \in Seq(S), s # <<>>
  PROVE  /\ Front(s) \in Seq(S) /\ Len(Front(s)) = Len(s) - 1 /\ Last(s) \in S
         /\ \A n \in 1..Len(s) - 1 : Front(s)[n] = s[n]
         /\ Append(Front(s), Last(s)) = s
<1>1. Len(s) \in Nat /\ Len(s) # 0 /\ Last(s) \in S
  BY EmptySeq, ElementOfSeq DEF Last
<1>2. /\ Front(s) \in Seq(S) /\ Len(Front(s)) = Len(s) - 1
      /\ \A n \in 1..Len(s) - 1 : Front(s)[n] = s[n]
  <2>1. \A i \in 1..Len(s) - 1 : s[i] \in S
    BY <1>1, ElementOfSeq
  <2> DEFINE n == Len(s) - 1
  <2>2. 1 \in Int /\ n \in Int /\ n - 1 + 1 = n
    BY <1>1
  <2>3. /\ SubSeq(s, 1, n) \in Seq(S)
        /\ Len(SubSeq(s, 1, n)) = IF 1 <= n THEN n - 1 + 1 ELSE 0
        /\ \A i \in 1 .. n - 1 + 1 : SubSeq(s, 1, n)[i] = s[1 + i - 1]
    <3> HIDE DEF n
    <3> QED
      BY <2>1, <2>2, SubSeqProperties DEF n
  <2>4. n \in Nat /\ (IF 1 <= n THEN n - 1 + 1 ELSE 0) = n
    <3>1. \A k \in Nat : k # 0 => k - 1 \in Nat
      OBVIOUS
    <3>2. n \in Nat
      BY <1>1, <3>1
    <3> QED
      <4> HIDE DEF n
      <4> QED
        BY <3>2
  <2>5. \A i \in 1..n : 1 + i - 1 = i /\ i \in 1 .. n - 1 + 1
    BY <2>4
  <2>6. Front(s) = SubSeq(s, 1, n)
    BY DEF Front
  <2> HIDE DEF n
  <2>7. Front(s) \in Seq(S) /\ Len(Front(s)) = n /\ \A i \in 1..n : Front(s)[i] = s[i]
    BY <2>3, <2>4, <2>5, <2>6
  <2> QED
    BY <2>7 DEF n
<1>3. Append(Front(s), Last(s)) = s
  <2> DEFINE t == Append(Front(s), Last(s))
  <2>1. t \in Seq(S) /\ Len(t) = Len(s) /\ \A i \in 1..Len(s) - 1 : t[i] = s[i]
    BY <1>1, <1>2, AppendProperties
  <2>2. t[Len(s)] = s[Len(s)]
    BY <1>1, <1>2 DEF Last
  <2> HIDE DEF t
  <2>3. \A i \in 1..Len(s) : t[i] = s[i]
    BY <1>1, <2>1, <2>2
  <2>4. t = s
    BY <2>1, <2>3, SeqEqual
  <2> QED
    BY <2>4 DEF t
<1> QED
  BY <1>1, <1>2, <1>3

LEMMA FrontOfAppend ==
  ASSUME NEW S, NEW s \in Seq(S), NEW e \in S
  PROVE  /\ Append(s, e) \in Seq(S) /\ Append(s, e) # <<>> /\ Len(Append(s, e)) = Len(s) + 1
         /\ Front(Append(s, e)) = s /\ Last(Append(s, e)) = e
<1>1. Append(s, e) \in Seq(S) /\ Append(s, e) # <<>> /\ Len(Append(s, e)) = Len(s) + 1
  BY AppendProperties
<1>2. Append(Front(Append(s, e)), Last(Append(s, e))) = Append(s, e)
      /\ Front(Append(s, e)) \in Seq(S) /\ Last(Append(s, e)) \in S
  BY <1>1, FrontAndLast
<1> QED
  BY <1>1, <1>2, AppendInjective

LEMMA ConcatAppend ==
  ASSUME NEW S, NEW s \in Seq(S), NEW t \in Seq(S), NEW e \in S
  PROVE  s \o Append(t, e) = Append(s \o t, e)
<1>1. <<e>> \in Seq(S) /\ s \o t \in Seq(S)
  BY ConcatProperties
<1>2. Append(t, e) = t \o <<e>> /\ Append(s \o t, e) = (s \o t) \o <<e>>
  BY <1>1, AppendIsConcat
<1> QED
  BY <1>1, <1>2, ConcatAssociative

\* The first of the second sequence moves to the end of the first.
LEMMA MoveHead ==
  ASSUME NEW S, NEW s \in Seq(S), NEW t \in Seq(S), t # <<>>
  PROVE  /\ Head(t) \in S /\ Tail(t) \in Seq(S) /\ Len(Tail(t)) = Len(t) - 1
         /\ Append(s, Head(t)) \o Tail(t) = s \o t
         /\ Len(s) < Len(s \o t) /\ (s \o t)[Len(s) + 1] = Head(t)
<1>1. /\ Head(t) \in S /\ Tail(t) \in Seq(S) /\ Len(Tail(t)) = Len(t) - 1
      /\ Len(t) \in Nat /\ Len(t) # 0 /\ Len(s) \in Nat
  BY HeadTailProperties, EmptySeq, LenProperties
<1>2. t = <<Head(t)>> \o Tail(t)
  <2>1. SubSeq(t, 1, Len(t)) = <<t[1]>> \o SubSeq(t, 2, Len(t))
    BY <1>1, SubSeqRecursiveFirst
  <2> QED
    BY <1>1, <2>1, SubSeqFull, TailIsSubSeq
<1>3. Append(s, Head(t)) = s \o <<Head(t)>> /\ <<Head(t)>> \in Seq(S)
  BY <1>1, AppendIsConcat
<1>4. Append(s, Head(t)) \o Tail(t) = s \o t
  BY <1>1, <1>2, <1>3, ConcatAssociative
<1>5. Len(s \o t) = Len(s) + Len(t) /\ (s \o t)[Len(s) + 1] = t[1]
  BY <1>1, ConcatProperties
<1> QED
  BY <1>1, <1>4, <1>5

-----------------------------------------------------------------------------
(* The verdict on the lines *)

\* A line that is no result does not change the verdict of the lines before it.
LEMMA SuccessStays ==
  ASSUME NEW S, NEW s \in Seq(S), NEW l \in S, EndsInSuccess(s), l.kind # "result"
  PROVE  EndsInSuccess(Append(s, l))
<1>1. PICK n \in DOMAIN s :
        /\ s[n].kind = "result" /\ s[n].sub = "success"
        /\ \A m \in DOMAIN s : m > n => s[m].kind # "result"
  BY DEF EndsInSuccess
<1> DEFINE t == Append(s, l)
<1>2. /\ DOMAIN s = 1..Len(s) /\ DOMAIN t = 1..Len(s) + 1 /\ Len(s) \in Nat
      /\ \A i \in 1..Len(s) : t[i] = s[i]
      /\ t[Len(s) + 1] = l
  BY AppendProperties, LenProperties
<1> HIDE DEF t
<1>3. n \in DOMAIN t /\ t[n].kind = "result" /\ t[n].sub = "success"
  BY <1>1, <1>2
<1>4. ASSUME NEW m \in DOMAIN t, m > n PROVE t[m].kind # "result"
  <2>1. CASE m \in DOMAIN s
    BY <1>1, <1>2, <1>4, <2>1
  <2>2. CASE m = Len(s) + 1
    BY <1>2, <2>2
  <2> QED
    BY <1>2, <2>1, <2>2
<1>5. EndsInSuccess(t)
  BY <1>3, <1>4 DEF EndsInSuccess
<1> QED
  BY <1>5 DEF t

\* A result of success does.
LEMMA SuccessLast ==
  ASSUME NEW S, NEW s \in Seq(S), s # <<>>, Last(s).kind = "result", Last(s).sub = "success"
  PROVE  EndsInSuccess(s)
<1>1. Len(s) \in DOMAIN s /\ \A m \in DOMAIN s : ~(m > Len(s))
  BY EmptySeq, LenProperties
<1> QED
  BY <1>1 DEF EndsInSuccess, Last

-----------------------------------------------------------------------------
(* Types *)

LEMMA SaysMoves ==
  ASSUME TypeInv, NEW l \in AllLines, Says(l)
  PROVE  pipe' = Append(pipe, l) /\ pipe' \in Seq(AllLines) /\ agent = "working"
  BY DEF TypeInv, Says

\* A tool is called in the open message or in the next one.
LEMMA CallToolMoves ==
  ASSUME TypeInv, NEW u \in Uses, CallTool(u)
  PROVE  /\ call[u] = "none" /\ call' \in [Uses -> Calls] /\ call'[u] \in {"hook", "allowed"}
         /\ call'[u] = "allowed" => ToolOf[u] # "WebSearch"
         /\ \A v \in Uses \ {u} : call'[v] = call[v]
         /\ \E m \in 1..Messages :
              /\ msg' = m /\ m \in {msg, msg + 1}
              /\ m # msg => \A v \in Uses : ~Going(v)
              /\ pipe' = Append(pipe, Assistant(m, u, ToolOf[u]))
              /\ Assistant(m, u, ToolOf[u]) \in AllLines
         /\ pipe' \in Seq(AllLines)
         /\ UNCHANGED <<answered, saw, counter, agent>>
<1>1. PICK m \in {msg, msg + 1} \cap 1..Messages :
        /\ m # msg => \A v \in Uses : ~Going(v)
        /\ msg' = m
        /\ Says(Assistant(m, u, ToolOf[u]))
  BY DEF CallTool
<1>2. Assistant(m, u, ToolOf[u]) \in AllLines
  BY <1>1 DEF AllLines
<1>3. pipe' = Append(pipe, Assistant(m, u, ToolOf[u])) /\ pipe' \in Seq(AllLines)
  BY <1>1, <1>2, SaysMoves
<1>4. /\ call[u] = "none"
      /\ call' = [call EXCEPT ![u] = IF ToolOf[u] = "WebSearch" THEN "hook" ELSE "allowed"]
      /\ UNCHANGED <<answered, saw, counter, agent>>
  BY DEF CallTool, Asked
<1>5. /\ call' \in [Uses -> Calls] /\ call'[u] \in {"hook", "allowed"}
      /\ call'[u] = "allowed" => ToolOf[u] # "WebSearch"
      /\ \A v \in Uses \ {u} : call'[v] = call[v]
  BY <1>4 DEF TypeInv, Calls, Searching
<1> QED
  BY <1>1, <1>2, <1>3, <1>4, <1>5

\* The steps of a hook and of the agent that say nothing.
LEMMA HookTypes ==
  ASSUME TypeInv, NEW u \in Uses, HookLoads(u) \/ HookEmpties(u) \/ HookSaves(u)
  PROVE  /\ call' \in [Uses -> Calls] /\ saw' \in [Uses -> Nat] /\ counter' \in Nat
         /\ UNCHANGED <<pipe, agent, msg, answered>>
<1>0. call \in [Uses -> Calls] /\ saw \in [Uses -> Nat] /\ counter \in Nat
      /\ saw[u] \in Nat /\ saw[u] + 1 \in Nat
  BY DEF TypeInv
<1>1. CASE HookLoads(u)
  BY <1>0, <1>1 DEF HookLoads, Calls, Searching
<1>2. CASE HookEmpties(u)
  BY <1>0, <1>2 DEF HookEmpties, Calls, Searching
<1>3. CASE HookSaves(u)
  BY <1>0, <1>3 DEF HookSaves, Calls, Searching
<1> QED
  BY <1>1, <1>2, <1>3

LEMMA AnswerMoves ==
  ASSUME TypeInv, NEW u \in Uses, Answer(u)
  PROVE  /\ call[u] \in {"refused", "allowed", "noted"} /\ answered' = answered \cup {u}
         /\ \E l \in AllLines : pipe' = Append(pipe, l) /\ l.kind # "assistant"
         /\ pipe' \in Seq(AllLines)
         /\ UNCHANGED <<call, saw, counter, agent, msg>>
<1>1. PICK err \in BOOLEAN : Says(ToolResult(u, err))
  BY DEF Answer
<1>2. ToolResult(u, err) \in AllLines /\ ToolResult(u, err).kind = "user"
  <2>1. ToolResult(u, err) \in AllLines
    BY DEF AllLines
  <2>2. ToolResult(u, err).kind = "user"
    BY DEF ToolResult, Line
  <2> QED
    BY <2>1, <2>2
<1>3. pipe' = Append(pipe, ToolResult(u, err)) /\ pipe' \in Seq(AllLines)
  BY <1>1, <1>2, SaysMoves
<1> QED
  BY <1>2, <1>3 DEF Answer

LEMMA ConcludeMoves ==
  ASSUME TypeInv, Conclude
  PROVE  /\ \E l \in AllLines : pipe' = Append(pipe, l) /\ l.kind # "assistant"
         /\ pipe' \in Seq(AllLines) /\ agent' = "ended"
         /\ UNCHANGED <<call, saw, counter, answered, msg>>
<1>1. PICK l \in {Result("success"), Result("error"), Unknown} : Says(l)
  BY DEF Conclude
<1>2. l \in AllLines /\ l.kind # "assistant"
  <2>1. l \in AllLines
    BY DEF AllLines
  <2>2. \A sub : Result(sub).kind = "result"
    BY DEF Result, Line
  <2>3. Unknown.kind = "unparseable"
    BY DEF Unknown, Line
  <2> QED
    BY <2>1, <2>2, <2>3
<1>3. pipe' = Append(pipe, l) /\ pipe' \in Seq(AllLines)
  BY <1>1, <1>2, SaysMoves
<1> QED
  BY <1>2, <1>3 DEF Conclude

\* What the child does reaches the adapter through the pipe only.
Beyond == <<adapter, read, result, closed, channel, writer, file, outcome>>

LEMMA AgentMoves ==
  ASSUME TypeInv, Agent
  PROVE  UNCHANGED Beyond
  BY DEF Agent, Conclude, Exit, Hang, CallTool, HookLoads, HookEmpties, HookSaves, Answer, Beyond

LEMMA AgentTypes ==
  ASSUME TypeInv, Agent
  PROVE  TypeInv'
<1>1. UNCHANGED Beyond
  BY AgentMoves
<1>2. ASSUME agent' \in {"unborn", "working", "ended", "gone", "left", "hanging"},
             msg' \in 0..Messages, call' \in [Uses -> Calls], answered' \in SUBSET Uses,
             saw' \in [Uses -> Nat], counter' \in Nat, pipe' \in Seq(AllLines)
      PROVE  TypeInv'
  BY <1>1, <1>2 DEF TypeInv, Beyond
<1>3. ASSUME NEW u \in Uses, CallTool(u) PROVE TypeInv'
  BY <1>2, <1>3, CallToolMoves DEF TypeInv
<1>4. ASSUME NEW u \in Uses, HookLoads(u) \/ HookEmpties(u) \/ HookSaves(u) PROVE TypeInv'
  BY <1>2, <1>4, HookTypes DEF TypeInv
<1>5. ASSUME NEW u \in Uses, Answer(u) PROVE TypeInv'
  BY <1>2, <1>5, AnswerMoves DEF TypeInv
<1>6. CASE Conclude
  BY <1>2, <1>6, ConcludeMoves DEF TypeInv
<1>7. CASE Exit \/ Hang
  BY <1>2, <1>7 DEF TypeInv, Exit, Hang
<1> QED
  BY <1>3, <1>4, <1>5, <1>6, <1>7 DEF Agent

\* A line leaves the pipe.
LEMMA ReadLineMoves ==
  ASSUME TypeInv, ReadLine
  PROVE  /\ Head(pipe) \in AllLines /\ pipe' = Tail(pipe) /\ pipe' \in Seq(AllLines)
         /\ read' = Append(read, Head(pipe)) /\ read' \in Seq(AllLines) /\ read' # <<>>
         /\ Len(read') = Len(read) + 1 /\ Front(read') = read /\ Last(read') = Head(pipe)
         /\ read' \o pipe' = read \o pipe
         /\ adapter = "reading" /\ adapter' = "sending"
         /\ UNCHANGED <<child, result, closed, channel, writer, file, outcome>>
<1>1. /\ pipe # <<>> /\ pipe' = Tail(pipe) /\ read' = Append(read, Head(pipe))
      /\ adapter = "reading" /\ adapter' = "sending"
      /\ UNCHANGED <<child, result, closed, channel, writer, file, outcome>>
  BY DEF ReadLine
<1>2. pipe \in Seq(AllLines) /\ read \in Seq(AllLines)
  BY DEF TypeInv
<1>3. Head(pipe) \in AllLines /\ Tail(pipe) \in Seq(AllLines)
      /\ Append(read, Head(pipe)) \o Tail(pipe) = read \o pipe
  BY <1>1, <1>2, MoveHead
<1> QED
  BY <1>1, <1>2, <1>3, FrontOfAppend

\* The line that was read last goes to the channel, or nobody takes it.
LEMMA SendMoves ==
  ASSUME TypeInv, Send
  PROVE  /\ adapter = "sending" /\ adapter' = "reading" /\ result' = Parsed
         /\ Last(read) \in AllLines
         /\ \/ /\ writer \in {"opening", "ready"} /\ Len(channel) < Capacity
               /\ channel' = Append(channel, Last(read)) /\ channel' \in Seq(AllLines)
               /\ closed' = closed
            \/ writer \in {"ended", "died"} /\ closed' = TRUE /\ channel' = channel
         /\ UNCHANGED <<child, pipe, read, writer, file, outcome>>
<1>1. Last(read) \in AllLines
  BY FrontAndLast DEF Send, TypeInv
<1>2. Append(channel, Last(read)) \in Seq(AllLines)
  BY <1>1, AppendProperties DEF TypeInv
<1>3. writer \in {"opening", "ready", "ended", "died"}
  BY DEF TypeInv
<1> QED
  BY <1>1, <1>2, <1>3 DEF Send, Receiving

\* The next line is written, or the writer dies with it.
LEMMA WriteLineMoves ==
  ASSUME TypeInv, WriteLine
  PROVE  /\ writer = "ready" /\ channel # <<>>
         /\ channel' = Tail(channel) /\ channel' \in Seq(AllLines)
         /\ Len(channel') = Len(channel) - 1 /\ Head(channel) \in AllLines
         /\ \/ /\ file' = Append(file, Head(channel)) /\ file' \in Seq(AllLines)
               /\ writer' = "ready"
            \/ writer' = "died" /\ file' = file
         /\ UNCHANGED <<child, pipe, adapter, read, result, closed, outcome>>
<1>1. Head(channel) \in AllLines /\ Tail(channel) \in Seq(AllLines)
      /\ Len(Tail(channel)) = Len(channel) - 1
  BY HeadTailProperties DEF WriteLine, TypeInv
<1>2. Append(file, Head(channel)) \in Seq(AllLines)
  BY <1>1, AppendProperties DEF TypeInv
<1> QED
  BY <1>1, <1>2 DEF WriteLine, Broken

LEMMA StepType == TypeInv /\ [Next]_vars => TypeInv'
<1> SUFFICES ASSUME TypeInv, [Next]_vars PROVE TypeInv'
  OBVIOUS
<1>1. CASE Agent
  BY <1>1, AgentTypes
<1>2. CASE Spawn
  BY <1>2 DEF Spawn, TypeInv, None
<1>3. CASE ReadLine
  BY <1>3, ReadLineMoves DEF TypeInv, child
<1>4. CASE Send
  BY <1>4, SendMoves DEF TypeInv, child
<1>5. CASE Eof
  BY <1>5 DEF Eof, TypeInv, child
<1>6. CASE ChildWaited
  BY <1>6 DEF ChildWaited, Verdict, TypeInv, child, None
<1>7. CASE Terminate
  BY <1>7 DEF Terminate, TimesOut, TypeInv, None
<1>8. CASE Open
  BY <1>8 DEF Open, TypeInv, child
<1>9. CASE WriteLine
  BY <1>9, WriteLineMoves DEF TypeInv, child
<1>10. CASE Flush
  BY <1>10 DEF Flush, Drained, TypeInv, child
<1>11. CASE UNCHANGED vars
  BY <1>11 DEF vars, child, TypeInv
<1> QED
  BY <1>1, <1>2, <1>3, <1>4, <1>5, <1>6, <1>7, <1>8, <1>9, <1>10, <1>11
     DEF Next, Adapter, Writer

-----------------------------------------------------------------------------
(* The lines, and the verdict *)

LEMMA Lengths ==
  ASSUME TypeInv
  PROVE  /\ Len(read) \in Nat /\ Len(file) \in Nat /\ Len(channel) \in Nat
         /\ Len(file \o channel) = Len(file) + Len(channel)
         /\ read # <<>> => Len(Front(read)) = Len(read) - 1
  BY LenProperties, ConcatProperties, FrontAndLast DEF TypeInv

\* What was read when the writer dies is in the file, in the channel, or in the
\* adapter's hand.
LEMMA DeathIsSoonNoticed ==
  ASSUME TypeInv, InPlace, Len(channel) <= Capacity
  PROVE  NoticedSoon
<1>1. Capacity \in Nat
  BY AttemptAssumption
<1>2. adapter \in {"spawning", "reading", "waiting"} => Len(read) <= Len(file) + Capacity
  BY <1>1, Lengths DEF InPlace
<1>3. adapter = "sending" => Len(read) <= Len(file) + Capacity + 1
  BY <1>1, Lengths DEF InPlace, TypeInv
<1>4. adapter = "done" /\ outcome # "killed" => Len(read) <= Len(file) + Capacity
  BY <1>1, Lengths DEF InPlace
<1> QED
  BY <1>2, <1>3, <1>4 DEF NoticedSoon, TypeInv

LEMMA StepLines == TypeInv /\ LinesInv /\ [Next]_vars => LinesInv'
<1> SUFFICES ASSUME TypeInv, LinesInv, [Next]_vars PROVE LinesInv'
  OBVIOUS
<1> USE AttemptAssumption
<1>1. CASE Agent
  BY <1>1, AgentMoves DEF LinesInv, InPlace, NoticedSoon, Beyond
<1>2. CASE Spawn
  BY <1>2 DEF Spawn, LinesInv, InPlace, NoticedSoon, TypeInv, None
<1>3. CASE ReadLine
  <2>1. /\ adapter = "reading" /\ adapter' = "sending" /\ Front(read') = read
        /\ Len(read') = Len(read) + 1 /\ Len(read) \in Nat /\ Len(file) \in Nat
        /\ UNCHANGED <<channel, file, writer, closed, outcome>>
    BY <1>3, ReadLineMoves, Lengths
  <2>2. writer # "died" => InPlace'
    BY <2>1 DEF LinesInv, InPlace
  <2>3. writer = "died" => NoticedSoon'
    BY <2>1 DEF LinesInv, NoticedSoon, TypeInv, None
  <2> QED
    BY <2>1, <2>2, <2>3 DEF LinesInv
<1>4. CASE Send
  <2>1. /\ adapter = "sending" /\ adapter' = "reading" /\ read # <<>> /\ outcome = None
        /\ UNCHANGED <<read, writer, file, outcome>>
        /\ writer # "ended"
    BY <1>4, SendMoves DEF TypeInv
  <2>2. CASE /\ writer \in {"opening", "ready"} /\ Len(channel) < Capacity
             /\ channel' = Append(channel, Last(read))
    <3>1. file \o channel = Front(read)
      BY <2>1, <2>2 DEF LinesInv, InPlace
    <3>2. file \o channel' = read
      <4>1. /\ file \in Seq(AllLines) /\ channel \in Seq(AllLines) /\ Last(read) \in AllLines
            /\ Append(Front(read), Last(read)) = read
        BY <2>1, FrontAndLast DEF TypeInv
      <4>2. file \o Append(channel, Last(read)) = Append(file \o channel, Last(read))
        BY <4>1, ConcatAppend
      <4> QED
        BY <2>2, <3>1, <4>1, <4>2
    <3>3. Len(channel') <= Capacity
      BY <2>2, Lengths, AppendProperties, SendMoves, <1>4 DEF TypeInv
    <3> QED
      BY <2>1, <2>2, <3>2, <3>3 DEF LinesInv, InPlace, None
  <2>3. CASE writer = "died" /\ closed' = TRUE /\ channel' = channel
    BY <2>1, <2>3 DEF LinesInv, NoticedSoon, None
  <2> QED
    BY <1>4, <2>1, <2>2, <2>3, SendMoves
<1>5. CASE Eof
  BY <1>5 DEF Eof, LinesInv, InPlace, NoticedSoon
<1>6. CASE ChildWaited
  <2>1. /\ adapter = "waiting" /\ adapter' = "done" /\ outcome' = Verdict /\ outcome = None
        /\ UNCHANGED <<read, writer, file, channel, closed>>
    BY <1>6 DEF ChildWaited, TypeInv
  <2>2. outcome' = "success" => ~closed
    BY <2>1 DEF Verdict
  <2>3. writer # "died" => InPlace'
    BY <2>1 DEF LinesInv, InPlace
  <2>4. writer = "died" => NoticedSoon'
    BY <2>1 DEF LinesInv, NoticedSoon, None
  <2>5. writer # "ended"
    BY <2>1 DEF TypeInv
  <2> QED
    BY <2>1, <2>2, <2>3, <2>4, <2>5 DEF LinesInv
<1>7. CASE Terminate
  <2>1. /\ adapter \in {"reading", "sending", "waiting"} /\ adapter' = "done"
        /\ outcome' = "killed" /\ UNCHANGED <<read, writer, file, channel, closed>>
        /\ adapter = "sending" => read # <<>>
    BY <1>7 DEF Terminate, TimesOut, TypeInv
  <2>2. writer # "died" => InPlace'
    BY <2>1 DEF LinesInv, InPlace
  <2>3. NoticedSoon'
    BY <2>1 DEF NoticedSoon
  <2> QED
    BY <2>1, <2>2, <2>3 DEF LinesInv
<1>8. CASE Open
  <2>1. /\ writer = "opening" /\ writer' \in {"ready", "died"}
        /\ UNCHANGED <<adapter, read, file, channel, closed, outcome>>
    BY <1>8 DEF Open
  <2>2. InPlace /\ NoticedSoon
    BY <2>1, DeathIsSoonNoticed DEF LinesInv
  <2> QED
    BY <2>1, <2>2 DEF LinesInv, InPlace, NoticedSoon
<1>9. CASE WriteLine
  <2>1. /\ writer = "ready" /\ channel # <<>> /\ channel' = Tail(channel)
        /\ Len(channel') = Len(channel) - 1 /\ channel' \in Seq(AllLines)
        /\ UNCHANGED <<adapter, read, closed, outcome>>
    BY <1>9, WriteLineMoves
  <2>2. InPlace /\ NoticedSoon
    BY <2>1, DeathIsSoonNoticed DEF LinesInv
  <2>3. Len(channel') <= Capacity
    BY <2>1, Lengths DEF LinesInv
  <2>4. CASE file' = Append(file, Head(channel)) /\ writer' = "ready"
    <3>1. file' \o channel' = file \o channel
      BY <2>1, <2>4, MoveHead DEF TypeInv
    <3>2. InPlace'
      BY <2>1, <2>2, <3>1 DEF InPlace
    <3> QED
      BY <2>1, <2>3, <2>4, <3>2 DEF LinesInv
  <2>5. CASE writer' = "died" /\ file' = file
    BY <2>1, <2>2, <2>3, <2>5 DEF LinesInv, NoticedSoon
  <2> QED
    BY <1>9, <2>4, <2>5, WriteLineMoves
<1>10. CASE Flush
  BY <1>10 DEF Flush, Drained, LinesInv, InPlace
<1>11. CASE UNCHANGED vars
  BY <1>11 DEF vars, LinesInv, InPlace, NoticedSoon
<1> QED
  BY <1>1, <1>2, <1>3, <1>4, <1>5, <1>6, <1>7, <1>8, <1>9, <1>10, <1>11
     DEF Next, Adapter, Writer

LEMMA StepResult == TypeInv /\ ResultInv /\ [Next]_vars => ResultInv'
<1> SUFFICES ASSUME TypeInv, ResultInv, [Next]_vars PROVE ResultInv'
  OBVIOUS
<1>1. CASE Agent
  BY <1>1, AgentMoves DEF ResultInv, EndsInSuccess, Beyond
<1>2. CASE Spawn
  BY <1>2 DEF Spawn, ResultInv, EndsInSuccess
<1>3. CASE ReadLine
  <2>1. /\ adapter = "reading" /\ adapter' = "sending" /\ Front(read') = read
        /\ result' = result
    BY <1>3, ReadLineMoves
  <2>2. EndsInSuccess(read) => EndsInSuccess(Front(read'))
    BY <2>1
  <2> QED
    BY <2>1, <2>2 DEF ResultInv
<1>4. CASE Send
  <2>1. /\ adapter = "sending" /\ adapter' = "reading" /\ result' = Parsed /\ read' = read
        /\ read # <<>> /\ read \in Seq(AllLines) /\ Last(read) \in AllLines
        /\ Front(read) \in Seq(AllLines) /\ Append(Front(read), Last(read)) = read
    BY <1>4, SendMoves, FrontAndLast DEF TypeInv
  <2>2. ASSUME result' = "success" PROVE EndsInSuccess(read)
    <3>1. CASE Last(read).kind = "result"
      BY <2>1, <2>2, <3>1, SuccessLast DEF Parsed
    <3>2. CASE Last(read).kind # "result"
      <4>1. EndsInSuccess(Front(read))
        BY <2>1, <2>2, <3>2 DEF Parsed, ResultInv
      <4>2. EndsInSuccess(Append(Front(read), Last(read)))
        BY <2>1, <3>2, <4>1, SuccessStays
      <4> QED
        BY <2>1, <4>2
    <3> QED
      BY <3>1, <3>2
  <2>3. EndsInSuccess(read) => EndsInSuccess(read')
    BY <2>1
  <2> QED
    BY <2>1, <2>2, <2>3 DEF ResultInv
<1>5. CASE Eof
  BY <1>5 DEF Eof, ResultInv, EndsInSuccess
<1>6. CASE ChildWaited \/ Terminate
  BY <1>6 DEF ChildWaited, Terminate, ResultInv
<1>7. CASE Writer
  BY <1>7 DEF Writer, Open, WriteLine, Flush, ResultInv, EndsInSuccess
<1>8. CASE UNCHANGED vars
  BY <1>8 DEF vars, ResultInv, EndsInSuccess
<1> QED
  BY <1>1, <1>2, <1>3, <1>4, <1>5, <1>6, <1>7, <1>8 DEF Next, Adapter

-----------------------------------------------------------------------------

AttemptInv == TypeInv /\ LinesInv /\ ResultInv

LEMMA InitAttempt == Init => AttemptInv
<1> SUFFICES ASSUME Init PROVE AttemptInv
  OBVIOUS
<1>1. /\ read = <<>> /\ file = <<>> /\ channel = <<>> /\ pipe = <<>> /\ file \o channel = read
      /\ Len(channel) = 0
  BY DEF Init
<1>2. TypeInv
  <2>1. /\ msg = 0 /\ 0 \in 0..Messages /\ answered = {} /\ counter = 0
        /\ call = [u \in Uses |-> "none"] /\ saw = [u \in Uses |-> 0]
        /\ agent = "unborn" /\ adapter = "spawning" /\ writer = "opening"
        /\ closed = FALSE /\ outcome = None
    BY AttemptAssumption DEF Init
  <2>2. call \in [Uses -> Calls] /\ saw \in [Uses -> Nat] /\ answered \in SUBSET Uses
    BY <2>1 DEF Calls
  <2>3. /\ pipe \in Seq(AllLines) /\ read \in Seq(AllLines)
        /\ channel \in Seq(AllLines) /\ file \in Seq(AllLines)
    BY <1>1, EmptySeq
  <2> QED
    BY <2>1, <2>2, <2>3 DEF TypeInv
<1>3. LinesInv
  BY <1>1, AttemptAssumption DEF Init, LinesInv, InPlace, None
<1>4. ResultInv
  BY DEF Init, ResultInv, None
<1> QED
  BY <1>2, <1>3, <1>4 DEF AttemptInv

LEMMA StepAttempt == AttemptInv /\ [Next]_vars => AttemptInv'
  BY StepType, StepLines, StepResult DEF AttemptInv

\* Between the child and transcript.jsonl no line is dropped or overtaken, whatever
\* the sizes of the pipe and of the channel, unless the writer died; the wall clock
\* costs the one line in the adapter's hand.
THEOREM NothingIsDropped == Spec => []LinesAreKept
<1>1. AttemptInv => LinesAreKept
  BY DEF AttemptInv, TypeInv, LinesInv, InPlace, LinesAreKept
<1> QED
  BY <1>1, InitAttempt, StepAttempt, PTL DEF Spec

\* A success has stored all it heard, but for what the channel held when the writer
\* died and the line being written: ClaudeCode::run sends no line more to a dead
\* writer without calling the run failed.
THEOREM SuccessHasItsLines == Spec => []SuccessIsNearlyStored
<1>1. AttemptInv => SuccessIsNearlyStored
  <2> SUFFICES ASSUME AttemptInv, Settled, outcome = "success"
               PROVE  Len(read) <= Len(file) + Capacity + 1
    BY DEF SuccessIsNearlyStored
  <2>1. Len(read) \in Nat /\ Len(file) \in Nat /\ Len(channel) \in Nat /\ Capacity \in Nat
        /\ Len(file \o channel) = Len(file) + Len(channel) /\ Len(channel) <= Capacity
    BY Lengths, AttemptAssumption DEF AttemptInv, LinesInv
  <2>2. CASE writer = "ended"
    <3>1. file \o channel = read
      BY <2>2 DEF Settled, AttemptInv, LinesInv, InPlace
    <3> QED
      BY <2>1, <3>1
  <2>3. CASE writer = "died"
    <3>1. ~closed /\ adapter # "sending"
      BY DEF Settled, AttemptInv, LinesInv
    <3>2. Len(read) <= Len(file) + Capacity
      BY <2>3, <3>1 DEF AttemptInv, LinesInv, NoticedSoon
    <3> QED
      BY <2>1, <3>2
  <2> QED
    BY <2>2, <2>3 DEF Settled
<1> QED
  BY <1>1, InitAttempt, StepAttempt, PTL DEF Spec

-----------------------------------------------------------------------------
(* The promise of Transcript *)

LEMMA StoreStep ==
  ASSUME AttemptInv, WriteLine
  PROVE  Promise!Store \/ UNCHANGED Promise!vars
<1>1. /\ writer = "ready" /\ channel # <<>> /\ UNCHANGED <<read, outcome>>
      /\ file' = Append(file, Head(channel)) \/ file' = file
  BY WriteLineMoves DEF AttemptInv
<1>2. file \in Seq(AllLines) /\ channel \in Seq(AllLines) /\ read \in Seq(AllLines)
      /\ Len(file) \in Nat /\ Len(read) \in Nat
  BY Lengths DEF AttemptInv, TypeInv
<1>3. Len(file) < Len(file \o channel) /\ (file \o channel)[Len(file) + 1] = Head(channel)
  BY <1>1, <1>2, MoveHead
<1>4. InPlace
  BY <1>1 DEF AttemptInv, LinesInv
<1>5. file \o channel = read \/ (read # <<>> /\ file \o channel = Front(read))
  BY <1>4 DEF InPlace, AttemptInv, TypeInv
<1>6. Len(file) < Len(read) /\ read[Len(file) + 1] = Head(channel)
  <2>1. CASE file \o channel = read
    BY <1>3, <2>1
  <2>2. CASE read # <<>> /\ file \o channel = Front(read)
    <3>1. /\ Len(Front(read)) = Len(read) - 1
          /\ \A n \in 1..Len(read) - 1 : Front(read)[n] = read[n]
      BY <1>2, <2>2, FrontAndLast
    <3>2. Len(file) < Len(read) - 1 /\ Front(read)[Len(file) + 1] = Head(channel)
      BY <1>3, <2>2, <3>1
    <3>3. Len(file) + 1 \in 1..Len(read) - 1
      BY <1>2, <3>2
    <3> QED
      BY <1>2, <3>1, <3>2, <3>3
  <2> QED
    BY <1>5, <2>1, <2>2
<1>7. CASE file' = Append(file, Head(channel))
  BY <1>1, <1>6, <1>7 DEF Promise!Store
<1>8. CASE file' = file
  BY <1>1, <1>8 DEF Promise!vars
<1> QED
  BY <1>1, <1>7, <1>8

LEMMA PromiseStep == AttemptInv /\ [Next]_vars => [Promise!Next]_(Promise!vars)
<1> SUFFICES ASSUME AttemptInv, [Next]_vars
             PROVE  Promise!Next \/ UNCHANGED Promise!vars
  OBVIOUS
<1>0. TypeInv /\ (adapter # "done" => outcome = "none")
  BY DEF AttemptInv, TypeInv, None
<1>1. CASE Agent
  BY <1>0, <1>1, AgentMoves DEF Promise!vars, Beyond
<1>2. CASE Spawn
  <2>1. UNCHANGED <<read, file>> /\ adapter = "spawning" /\ outcome' \in {outcome, "failed"}
    BY <1>2 DEF Spawn
  <2> QED
    BY <1>0, <2>1 DEF Promise!Next, Promise!Judge, Promise!vars
<1>3. CASE ReadLine
  <2>1. /\ adapter = "reading" /\ Head(pipe) \in AllLines /\ read' = Append(read, Head(pipe))
        /\ UNCHANGED <<file, outcome>>
    BY <1>0, <1>3, ReadLineMoves
  <2> QED
    BY <1>0, <2>1 DEF Promise!Next, Promise!Hear
<1>4. CASE Send \/ Eof \/ Open \/ Flush
  BY <1>4 DEF Send, Eof, Open, Flush, Promise!vars
<1>5. CASE ChildWaited
  <2>1. /\ adapter = "waiting" /\ outcome' = Verdict /\ UNCHANGED <<read, file>>
    BY <1>5 DEF ChildWaited
  <2>2. outcome' \in {"success", "failed"} /\ (outcome' = "success" => result = "success")
    BY <2>1 DEF Verdict
  <2>3. result = "success" => EndsInSuccess(read)
    BY <2>1 DEF AttemptInv, ResultInv
  <2> QED
    BY <1>0, <2>1, <2>2, <2>3 DEF Promise!Next, Promise!Judge
<1>6. CASE Terminate
  <2>1. /\ adapter # "done" /\ outcome' = "killed" /\ UNCHANGED <<read, file>>
    BY <1>6 DEF Terminate, TimesOut
  <2> QED
    BY <1>0, <2>1 DEF Promise!Next, Promise!Judge
<1>7. CASE WriteLine
  BY <1>7, StoreStep DEF Promise!Next
<1>8. CASE UNCHANGED vars
  BY <1>8 DEF vars, Promise!vars
<1> QED
  BY <1>1, <1>2, <1>3, <1>4, <1>5, <1>6, <1>7, <1>8 DEF Next, Adapter, Writer

\* An attempt with its pipe, its channel and its two tasks is, for whoever reads the
\* transcript, one that stores the lines in the order it heard them and judges once:
\* a success only on lines whose last result says so.
THEOREM PromiseIsKept == Spec => KeepsItsPromise
<1>1. Init => Promise!Init
  BY DEF Init, Promise!Init, None
<1> QED
  BY <1>1, InitAttempt, StepAttempt, PromiseStep, PTL DEF Spec, KeepsItsPromise, Promise!Spec

-----------------------------------------------------------------------------
(* The cap of the hook *)

\* What was said is in the pipe or was read; nothing else becomes of it.
LEMMA SaidGrows ==
  ASSUME TypeInv, [Next]_vars
  PROVE  /\ Said \in Seq(AllLines)
         /\ Said' = Said \/ \E l \in AllLines : Said' = Append(Said, l)
<1>0. read \in Seq(AllLines) /\ pipe \in Seq(AllLines) /\ Said \in Seq(AllLines)
  BY ConcatProperties DEF TypeInv, Said
<1>1. ASSUME read' = read, NEW l \in AllLines, pipe' = Append(pipe, l)
      PROVE  Said' = Append(Said, l)
  BY <1>0, <1>1, ConcatAppend DEF Said
<1>2. CASE Agent
  <2>1. read' = read
    BY <1>2, AgentMoves DEF Beyond
  <2>2. ASSUME NEW u \in Uses, CallTool(u) PROVE \E l \in AllLines : Said' = Append(Said, l)
    BY <1>1, <2>1, <2>2, CallToolMoves
  <2>3. ASSUME NEW u \in Uses, Answer(u) PROVE \E l \in AllLines : Said' = Append(Said, l)
    BY <1>1, <2>1, <2>3, AnswerMoves
  <2>4. CASE Conclude
    BY <1>0, <1>1, <2>1, <2>4, ConcludeMoves
  <2>5. ASSUME NEW u \in Uses, HookLoads(u) \/ HookEmpties(u) \/ HookSaves(u)
        PROVE  Said' = Said
    BY <2>1, <2>5, HookTypes DEF Said
  <2>6. CASE Exit \/ Hang
    <3>1. pipe' = pipe
      BY <2>6 DEF Exit, Hang
    <3> QED
      BY <1>0, <2>1, <3>1 DEF Said
  <2> QED
    BY <1>0, <1>2, <2>2, <2>3, <2>4, <2>5, <2>6 DEF Agent
<1>3. CASE ReadLine
  BY <1>0, <1>3, ReadLineMoves DEF Said
<1>4. CASE Spawn \/ Send \/ Eof \/ ChildWaited \/ Terminate \/ Writer
  <2>1. read' = read /\ pipe' = pipe
    BY <1>4 DEF Spawn, Send, Eof, ChildWaited, Terminate, Writer, Open, WriteLine, Flush
  <2> QED
    BY <1>0, <2>1 DEF Said
<1>5. CASE UNCHANGED vars
  BY <1>0, <1>5 DEF vars, Said
<1> QED
  BY <1>2, <1>3, <1>4, <1>5 DEF Next, Adapter

\* What was heard of a message stays heard.
LEMMA HeardStays ==
  ASSUME TypeInv, [Next]_vars
  PROVE  /\ DOMAIN Said \subseteq DOMAIN Said'
         /\ \A n \in DOMAIN Said : Said'[n] = Said[n]
<1>1. CASE Said' = Said
  BY <1>1
<1>2. ASSUME NEW l \in AllLines, Said' = Append(Said, l)
      PROVE  /\ DOMAIN Said \subseteq DOMAIN Said'
             /\ \A n \in DOMAIN Said : Said'[n] = Said[n]
  BY <1>2, SaidGrows, AppendProperties, LenProperties
<1> QED
  BY <1>1, <1>2, SaidGrows

\* If the child asks for one search at a time, it did so before.
LEMMA OneByOneBefore ==
  ASSUME TypeInv, [Next]_vars, OneByOne'
  PROVE  OneByOne
<1>1. OneByOne <=> \A i, j \in DOMAIN Said :
        i # j /\ Said[i].kind = "assistant" /\ Said[j].kind = "assistant" => Said[i].id # Said[j].id
  BY DEF OneByOne, Said
<1>2. \A i, j \in DOMAIN Said' :
        i # j /\ Said'[i].kind = "assistant" /\ Said'[j].kind = "assistant" => Said'[i].id # Said'[j].id
  BY DEF OneByOne, Said
<1> QED
  BY <1>1, <1>2, HeardStays

\* The steps that leave the calls alone.
LEMMA CallsLeftAlone ==
  ASSUME [Next]_vars, \A u \in Uses : ~(CallTool(u) \/ HookLoads(u) \/ HookEmpties(u) \/ HookSaves(u) \/ Answer(u))
  PROVE  UNCHANGED <<msg, call, answered, saw, counter>>
<1>1. CASE Agent
  BY <1>1 DEF Agent, Conclude, Exit, Hang
<1>2. CASE Adapter
  BY <1>2 DEF Adapter, Spawn, ReadLine, Send, Eof, ChildWaited, Terminate, child
<1>3. CASE Writer
  BY <1>3 DEF Writer, Open, WriteLine, Flush, child
<1>4. CASE UNCHANGED vars
  BY <1>4 DEF vars, child
<1> QED
  BY <1>1, <1>2, <1>3, <1>4 DEF Next

HookStep(u) == HookLoads(u) \/ HookEmpties(u) \/ HookSaves(u)

\* A hook's step is one of a call that is searching.
LEMMA HookMoves ==
  ASSUME TypeInv, NEW u \in Uses, HookStep(u)
  PROVE  /\ call[u] \in Searching /\ call'[u] # "none"
         /\ \A v \in Uses \ {u} : call'[v] = call[v]
         /\ UNCHANGED <<msg, answered>>
<1>0. call \in [Uses -> Calls]
  BY DEF TypeInv
<1>1. CASE HookLoads(u)
  BY <1>0, <1>1 DEF HookLoads, Searching
<1>2. CASE HookEmpties(u)
  BY <1>0, <1>2 DEF HookEmpties, Searching
<1>3. CASE HookSaves(u)
  BY <1>0, <1>3 DEF HookSaves, Searching
<1> QED
  BY <1>1, <1>2, <1>3 DEF HookStep

LEMMA StepCalls == TypeInv /\ CallsInv /\ [Next]_vars => CallsInv'
<1> SUFFICES ASSUME TypeInv, CallsInv, [Next]_vars PROVE CallsInv'
  OBVIOUS
<1>0. msg # 0 => \E n \in DOMAIN Said' : Said'[n].kind = "assistant" /\ Said'[n].id = msg
  BY HeardStays DEF CallsInv
<1>1. ASSUME NEW u \in Uses, CallTool(u) PROVE CallsInv'
  <2>1. PICK m \in 1..Messages :
          /\ msg' = m
          /\ pipe' = Append(pipe, Assistant(m, u, ToolOf[u]))
          /\ Assistant(m, u, ToolOf[u]) \in AllLines
    BY <1>1, CallToolMoves
  <2>2. Said' = Append(Said, Assistant(m, u, ToolOf[u])) /\ Said \in Seq(AllLines)
    BY <1>1, <2>1, SaidGrows, ConcatAppend DEF CallTool, Said, TypeInv
  <2>3. Assistant(m, u, ToolOf[u]).kind = "assistant" /\ Assistant(m, u, ToolOf[u]).id = m
    BY DEF Assistant, Line
  <2>4. Len(Said) + 1 \in DOMAIN Said' /\ Said'[Len(Said) + 1] = Assistant(m, u, ToolOf[u])
    BY <2>1, <2>2, AppendProperties, LenProperties
  <2>5. \E n \in DOMAIN Said' : Said'[n].kind = "assistant" /\ Said'[n].id = msg'
    BY <2>1, <2>3, <2>4
  <2>6. /\ call[u] = "none" /\ answered' = answered
        /\ call'[u] = "hook" => ToolOf[u] = "WebSearch"
        /\ call'[u] \in {"hook", "allowed"}
        /\ \A v \in Uses \ {u} : call'[v] = call[v]
    BY <1>1, CallToolMoves DEF CallTool, TypeInv
  <2>7. u \notin answered
    BY <2>6 DEF CallsInv
  <2> QED
    BY <2>5, <2>6, <2>7 DEF CallsInv, Searching, TypeInv
<1>2. ASSUME NEW u \in Uses, HookStep(u) PROVE CallsInv'
  <2>1. u \notin answered /\ ToolOf[u] = "WebSearch"
    BY <1>2, HookMoves DEF CallsInv
  <2> QED
    BY <1>0, <1>2, <2>1, HookMoves DEF CallsInv, TypeInv
<1>3. ASSUME NEW u \in Uses, Answer(u) PROVE CallsInv'
  BY <1>0, <1>3, AnswerMoves DEF CallsInv, Searching
<1>4. CASE UNCHANGED <<msg, call, answered, saw, counter>>
  BY <1>0, <1>4 DEF CallsInv
<1> QED
  BY <1>1, <1>2, <1>3, <1>4, CallsLeftAlone DEF HookStep

\* The calls are finitely many.
LEMMA RanIsFinite == IsFiniteSet(Ran) /\ Cardinality(Ran) \in Nat
<1>1. DOMAIN ToolOf = 1..Len(ToolOf) /\ Len(ToolOf) \in Nat
  BY AttemptAssumption, LenProperties
<1>2. IsFiniteSet(Uses)
  BY <1>1, FS_Interval DEF Uses
<1>3. Ran \in SUBSET Uses
  BY DEF Ran, Searches
<1> QED
  BY <1>2, <1>3, FS_Subset, FS_CardinalityType

\* A new call under the assumption: it opens a message, so none was going on.
LEMMA CalledAlone ==
  ASSUME TypeInv, CallsInv, [Next]_vars, NEW u \in Uses, CallTool(u), OneByOne'
  PROVE  \A v \in Uses : ~Going(v)
<1>1. PICK m \in 1..Messages :
        /\ msg' = m
        /\ m # msg => \A v \in Uses : ~Going(v)
        /\ pipe' = Append(pipe, Assistant(m, u, ToolOf[u]))
        /\ Assistant(m, u, ToolOf[u]) \in AllLines
  BY CallToolMoves
<1>2. SUFFICES ASSUME m = msg PROVE FALSE
  BY <1>1
<1>3. Said' = Append(Said, Assistant(m, u, ToolOf[u])) /\ Said \in Seq(AllLines)
  BY <1>1, SaidGrows, ConcatAppend DEF CallTool, Said, TypeInv
<1>4. Assistant(m, u, ToolOf[u]).kind = "assistant" /\ Assistant(m, u, ToolOf[u]).id = m
  BY DEF Assistant, Line
<1>5. /\ Len(Said) + 1 \in DOMAIN Said' /\ Said'[Len(Said) + 1] = Assistant(m, u, ToolOf[u])
      /\ \A n \in DOMAIN Said : n # Len(Said) + 1
  BY <1>1, <1>3, AppendProperties, LenProperties
<1>6. PICK n \in DOMAIN Said : Said[n].kind = "assistant" /\ Said[n].id = msg
  BY <1>2 DEF CallsInv
<1>7. n \in DOMAIN Said' /\ Said'[n] = Said[n] /\ n # Len(Said) + 1
  BY <1>5, HeardStays
<1>8. \A i, j \in DOMAIN Said' :
        i # j /\ Said'[i].kind = "assistant" /\ Said'[j].kind = "assistant" => Said'[i].id # Said'[j].id
  BY DEF OneByOne, Said
<1> QED
  BY <1>2, <1>4, <1>5, <1>6, <1>7, <1>8

\* What HookInv promises when its premise holds.
Counted ==
  /\ \A u, v \in Uses : Going(u) /\ Going(v) => u = v
  /\ Cardinality(Ran) <= HookCap
  /\ (\A u \in Uses : call[u] # "emptied") => counter = Cardinality(Ran)
  /\ \A u \in Uses : /\ call[u] = "saving" => saw[u] = counter /\ counter < HookCap
                     /\ call[u] = "emptied" => saw[u] = Cardinality(Ran) /\ saw[u] < HookCap

LEMMA StepHook == TypeInv /\ CallsInv /\ HookInv /\ [Next]_vars => HookInv'
<1> SUFFICES ASSUME TypeInv, CallsInv, HookInv, [Next]_vars, OneByOne', AllSaved'
             PROVE  Counted'
  BY DEF HookInv, Counted
<1>0. OneByOne
  BY OneByOneBefore
<1>1. ASSUME AllSaved PROVE Counted
  BY <1>0, <1>1 DEF HookInv, Counted
<1>2. call \in [Uses -> Calls] /\ saw \in [Uses -> Nat] /\ counter \in Nat /\ HookCap \in Nat
  BY AttemptAssumption DEF TypeInv
<1>3. ASSUME UNCHANGED <<call, saw, counter>>, answered \subseteq answered' PROVE Counted'
  <2>1. AllSaved
    BY <1>3 DEF AllSaved
  <2>2. Ran' = Ran
    BY <1>3 DEF Ran
  <2> QED
    BY <1>1, <1>3, <2>1, <2>2 DEF Counted, Going, Asked
<1>4. ASSUME NEW u \in Uses, CallTool(u) PROVE Counted'
  <2>1. /\ call[u] = "none" /\ call'[u] \in {"hook", "allowed"}
        /\ call'[u] = "allowed" => ToolOf[u] # "WebSearch"
        /\ \A v \in Uses \ {u} : call'[v] = call[v]
        /\ UNCHANGED <<answered, saw, counter>>
    BY <1>4, CallToolMoves
  <2>2. AllSaved
    BY <2>1 DEF AllSaved
  <2>3. Ran' = Ran
    BY <2>1 DEF Ran, Searches
  <2>4. \A v \in Uses : ~Going(v)
    BY <1>4, CalledAlone
  <2>5. \A v \in Uses : Going(v)' => v = u
    BY <2>1, <2>4 DEF Going, Asked
  <2> QED
    BY <1>1, <2>1, <2>2, <2>3, <2>5 DEF Counted
<1>5. ASSUME NEW u \in Uses, HookStep(u) PROVE Counted'
  <2>1. /\ call[u] \in Searching /\ call'[u] # "none"
        /\ \A v \in Uses \ {u} : call'[v] = call[v]
        /\ answered' = answered /\ ToolOf[u] = "WebSearch" /\ u \notin answered
    BY <1>5, HookMoves DEF CallsInv
  <2>2. AllSaved
    BY <2>1 DEF AllSaved, Searching
  <2>3. Counted
    BY <1>1, <2>2
  <2>4. \A v, w \in Uses : Going(v)' /\ Going(w)' => v = w
    BY <2>1, <2>3 DEF Counted, Going, Asked, Searching
  <2>5. \A v \in Uses \ {u} : call[v] \notin Searching /\ call'[v] \notin Searching
    <3>1. Going(u)
      BY <2>1 DEF Going, Asked, Searching
    <3>2. \A v \in Uses : call[v] \in Searching => Going(v)
      BY DEF CallsInv, Going, Asked, Searching
    <3> QED
      BY <2>1, <2>3, <3>1, <3>2 DEF Counted
  <2>6. CASE HookLoads(u)
    <3>1. /\ call[u] = "hook" /\ saw'[u] = counter /\ counter' = counter
          /\ call'[u] = "refused" \/ (call'[u] = "saving" /\ counter < HookCap)
      BY <1>2, <2>6 DEF HookLoads, Refuses
    <3>2. Ran' = Ran
      BY <2>1, <3>1 DEF Ran, Searches
    <3> QED
      BY <2>3, <2>4, <2>5, <3>1, <3>2 DEF Counted, Searching
  <2>7. CASE HookEmpties(u)
    <3>1. call[u] = "saving" /\ call'[u] = "emptied" /\ saw' = saw
      BY <1>2, <2>7 DEF HookEmpties, AllSaved
    <3>2. Ran' = Ran
      BY <2>1, <3>1 DEF Ran, Searches
    <3>3. saw[u] = Cardinality(Ran) /\ saw[u] < HookCap
      BY <2>3, <2>5, <3>1 DEF Counted, Searching
    <3> QED
      BY <2>3, <2>4, <2>5, <3>1, <3>2, <3>3 DEF Counted, Searching
  <2>8. CASE HookSaves(u)
    <3>1. call[u] = "emptied" /\ call'[u] = "allowed" /\ counter' = saw[u] + 1
      BY <1>2, <2>8 DEF HookSaves, AllSaved
    <3>2. Ran' = Ran \cup {u} /\ u \notin Ran
      BY <2>1, <3>1 DEF Ran, Searches
    <3>3. Cardinality(Ran') = Cardinality(Ran) + 1
      BY <3>2, RanIsFinite, FS_AddElement
    <3>4. saw[u] = Cardinality(Ran) /\ saw[u] < HookCap /\ saw[u] \in Nat
      BY <1>2, <2>3, <3>1 DEF Counted
    <3>5. Cardinality(Ran') <= HookCap /\ counter' = Cardinality(Ran')
      BY <1>2, <3>1, <3>3, <3>4
    <3> QED
      BY <2>4, <2>5, <3>1, <3>5 DEF Counted, Searching
  <2> QED
    BY <1>5, <2>6, <2>7, <2>8 DEF HookStep
<1>6. ASSUME NEW u \in Uses, Answer(u) PROVE Counted'
  BY <1>3, <1>6, AnswerMoves
<1>7. CASE UNCHANGED <<msg, call, answered, saw, counter>>
  BY <1>3, <1>7
<1> QED
  BY <1>4, <1>5, <1>6, <1>7, CallsLeftAlone DEF HookStep

\* The hook processes of one child, which live for one search each and share a file,
\* let at most the cap through when they come one after the other and each count is
\* saved.
THEOREM HookKeepsItsCap == Spec => []HookCapHolds
<1>1. Init => TypeInv /\ CallsInv /\ HookInv
  <2> SUFFICES ASSUME Init PROVE CallsInv /\ HookInv
    BY InitAttempt DEF AttemptInv
  <2>1. /\ msg = 0 /\ answered = {} /\ counter = 0 /\ \A u \in Uses : call[u] = "none"
    BY DEF Init
  <2>2. Ran = {}
    BY <2>1 DEF Ran, Searches
  <2>3. Cardinality(Ran) = 0 /\ HookCap \in Nat
    BY <2>2, FS_EmptySet, AttemptAssumption
  <2>4. \A u \in Uses : ~Going(u)
    BY <2>1 DEF Going, Asked
  <2> QED
    BY <2>1, <2>3, <2>4 DEF CallsInv, HookInv, Searching
<1>2. TypeInv /\ CallsInv /\ HookInv /\ [Next]_vars => (TypeInv /\ CallsInv /\ HookInv)'
  BY StepType, StepCalls, StepHook
<1>3. HookInv => HookCapHolds
  BY DEF HookInv, HookCapHolds, AllSaved
<1> QED
  BY <1>1, <1>2, <1>3, PTL DEF Spec

-----------------------------------------------------------------------------
(* What the page counts *)

\* A tool whose calls a page counts.
Counts == {"WebSearch", "select"}

Asking(asked, t) == {u \in asked : ToolOf[u] = t}

\* The turns of m messages that asked for `asked`, of which `failed` were answered with an error.
Tally(T, m, asked, failed) ==
  /\ T \in Folded
  /\ Len(T.turns) = m /\ T.open = m
  /\ \A u \in DOMAIN T.by : u \in asked /\ T.by[u].tool = ToolOf[u] /\ T.by[u].turn \in 1..m
  /\ \A u \in asked : ToolOf[u] # None => u \in DOMAIN T.by
  /\ \A t \in Counts : Tallies(T.turns, t, Cardinality(Asking(asked, t)), Cardinality(Asking(failed, t)))

Heard(u, err) == \E n \in DOMAIN Said : Said[n] = ToolResult(u, err)

AskedUses == {u \in Uses : Asked(u)}
FailedUses == {u \in answered : Heard(u, TRUE)}

\* What the lines that were said make of the calls: the turns are the messages, a call is listed
\* in one of them and its result, which comes once, is credited to it.
TurnsInv ==
  /\ Tally(Turned(Said), msg, AskedUses, FailedUses)
  /\ \A u \in Uses : u \in answered <=> Heard(u, TRUE) \/ Heard(u, FALSE)
  /\ \A u \in Uses : ~(Heard(u, TRUE) /\ Heard(u, FALSE))

\* Nothing is said before the spawn or after the result.
LastInv ==
  /\ adapter = "spawning" => Said = <<>>
  /\ \A n \in DOMAIN Said : Said[n].kind = "result" =>
       n = Len(Said) /\ agent # "working" /\ \A u \in Uses : ~Going(u)

\* The file is the beginning of what was read, and a row is one of its lines.
FileInv ==
  /\ Len(file) <= Len(read) /\ \A n \in DOMAIN file : file[n] = read[n]
  /\ rows \subseteq DOMAIN file

VerdictInv == outcome = "success" => EndsInSuccess(read)

\* One use more is one call more of its tool.
LEMMA AskingMore ==
  ASSUME NEW asked \in SUBSET Uses, NEW u \in Uses \ asked, NEW t
  PROVE  Cardinality(Asking(asked \cup {u}, t)) =
           IF ToolOf[u] = t THEN Cardinality(Asking(asked, t)) + 1 ELSE Cardinality(Asking(asked, t))
<1>1. IsFiniteSet(Asking(asked, t))
  <2>1. DOMAIN ToolOf = 1..Len(ToolOf) /\ Len(ToolOf) \in Nat
    BY AttemptAssumption, LenProperties
  <2>2. IsFiniteSet(Uses)
    BY <2>1, FS_Interval DEF Uses
  <2>3. Asking(asked, t) \in SUBSET Uses
    BY DEF Asking
  <2> QED
    BY <2>2, <2>3, FS_Subset
<1>2. CASE ToolOf[u] = t
  <2>1. Asking(asked \cup {u}, t) = Asking(asked, t) \cup {u} /\ u \notin Asking(asked, t)
    BY <1>2 DEF Asking
  <2> QED
    BY <1>1, <1>2, <2>1, FS_AddElement
<1>3. CASE ToolOf[u] # t
  <2>1. Asking(asked \cup {u}, t) = Asking(asked, t)
    BY <1>3 DEF Asking
  <2> QED
    BY <1>3, <2>1
<1> QED
  BY <1>2, <1>3

\* A use is a number, a tool a name.
LEMMA UsesAre == Uses \subseteq Nat /\ \A u \in Uses : ToolOf[u] \in Names
<1>1. ToolOf \in Seq(STRING)
  BY AttemptAssumption
<1>2. Uses \subseteq Nat /\ \A u \in Uses : ToolOf[u] \in STRING
  BY <1>1 DEF Uses
<1> QED
  BY <1>2 DEF Names

\* The fields of a line.
LEMMA LineIs ==
  ASSUME NEW kind \in Names, NEW id \in Nat, NEW use \in Nat, NEW tool \in Names, NEW sub \in Names,
         NEW err \in BOOLEAN
  PROVE  /\ Line(kind, id, use, tool, sub, err) \in Lines
         /\ Line(kind, id, use, tool, sub, err).kind = kind /\ Line(kind, id, use, tool, sub, err).id = id
         /\ Line(kind, id, use, tool, sub, err).use = use /\ Line(kind, id, use, tool, sub, err).tool = tool
         /\ Line(kind, id, use, tool, sub, err).err = err
BY DEF Lines, Line

\* The literals are names.
LEMMA NamesAre ==
  /\ "assistant" \in Names /\ "user" \in Names /\ "result" \in Names /\ "unparseable" \in Names
  /\ "success" \in Names /\ "error" \in Names /\ None \in Names
BY DEF Names

\* A call as a line.
LEMMA AssistantIs ==
  ASSUME NEW m \in Nat, NEW u \in Uses
  PROVE  /\ Assistant(m, u, ToolOf[u]) \in Lines
         /\ Assistant(m, u, ToolOf[u]).kind = "assistant" /\ Assistant(m, u, ToolOf[u]).id = m
         /\ Assistant(m, u, ToolOf[u]).use = u /\ Assistant(m, u, ToolOf[u]).tool = ToolOf[u]
<1>1. u \in Nat /\ ToolOf[u] \in Names
  BY UsesAre
<1>2. PICK kind \in Names : kind = "assistant"
  BY NamesAre
<1>3. PICK none \in Names, no \in BOOLEAN : none = None /\ no = FALSE
  BY NamesAre
<1>4. PICK tool \in Names, use \in Nat : tool = ToolOf[u] /\ use = u
  BY <1>1
<1>5. PICK l : l = Line(kind, m, use, tool, none, no)
  OBVIOUS
<1>6. l \in Lines /\ l.kind = kind /\ l.id = m /\ l.use = use /\ l.tool = tool
  BY <1>5, LineIs
<1>7. Assistant(m, u, ToolOf[u]) = l
  BY <1>2, <1>3, <1>4, <1>5 DEF Assistant
<1> QED
  BY <1>2, <1>4, <1>6, <1>7

\* A result as a line.
LEMMA ToolResultIs ==
  ASSUME NEW u \in Uses, NEW err \in BOOLEAN
  PROVE  /\ ToolResult(u, err) \in Lines
         /\ ToolResult(u, err).kind = "user" /\ ToolResult(u, err).use = u /\ ToolResult(u, err).err = err
<1>1. u \in Nat
  BY UsesAre
<1>2. PICK kind \in Names : kind = "user"
  BY NamesAre
<1>3. PICK none \in Names, zero \in Nat : none = None /\ zero = 0
  BY NamesAre
<1>4. ToolResult(u, err) = Line(kind, zero, u, none, none, err)
  BY <1>2, <1>3 DEF ToolResult
<1> QED
  BY <1>1, <1>2, <1>4, LineIs

\* The last line.
LEMMA LastLineIs ==
  ASSUME NEW l \in {Result("success"), Result("error"), Unknown}
  PROVE  l \in Lines /\ l.kind \in {"result", "unparseable"}
<1>1. PICK none \in Names, zero \in Nat, no \in BOOLEAN : none = None /\ zero = 0 /\ no = FALSE
  BY NamesAre
<1>2. PICK kind \in Names : kind = IF l = Unknown THEN "unparseable" ELSE "result"
  BY NamesAre
<1>3. PICK sub \in Names : sub = IF l = Unknown THEN None ELSE IF l = Result("success") THEN "success" ELSE "error"
  BY NamesAre
<1>4. l = Line(kind, zero, zero, none, sub, no)
  <2>1. CASE l = Unknown
    BY <1>1, <1>2, <1>3, <2>1 DEF Unknown
  <2>2. CASE l # Unknown
    BY <1>1, <1>2, <1>3, <2>2 DEF Result
  <2> QED
    BY <2>1, <2>2
<1>5. l \in Lines /\ l.kind = kind
  BY <1>4, LineIs
<1> QED
  BY <1>2, <1>5

\* A call of a new tool use, in the open message or the next.
LEMMA TallyCalls ==
  ASSUME NEW T, NEW m \in Nat, NEW asked \in SUBSET Uses, NEW failed, Tally(T, m, asked, failed),
         NEW u \in Uses \ asked, NEW k \in Nat \ {0}, k \in {m, m + 1}
  PROVE  Tally(Fold(T, Assistant(k, u, ToolOf[u])), k, asked \cup {u}, failed)
<1>1. PICK l \in Lines : /\ l = Assistant(k, u, ToolOf[u]) /\ l.kind = "assistant"
                         /\ l.id = k /\ l.use = u /\ l.tool = ToolOf[u]
  BY AssistantIs
<1>2. T \in Folded /\ T.open = Len(T.turns) /\ l.id \in {T.open, T.open + 1} /\ l.id # 0
  BY <1>1 DEF Tally
<1>3. ASSUME NEW t \in Counts
      PROVE  /\ Len(Fold(T, l).turns) = k /\ Fold(T, l).open = k
             /\ Fold(T, l).by = IF l.tool = None THEN T.by
                                ELSE Insert(T.by, u, [turn |-> k, tool |-> ToolOf[u]])
             /\ Tallies(Fold(T, l).turns, t, Cardinality(Asking(asked \cup {u}, t)), Cardinality(Asking(failed, t)))
  <2>1. t # None /\ Tallies(T.turns, t, Cardinality(Asking(asked, t)), Cardinality(Asking(failed, t)))
    BY DEF Tally, Counts, None
  <2>2. PICK c, f : c = Cardinality(Asking(asked, t)) /\ f = Cardinality(Asking(failed, t)) /\ Tallies(T.turns, t, c, f)
    BY <2>1
  <2>3. /\ Len(Fold(T, l).turns) = l.id /\ Fold(T, l).open = l.id
        /\ Fold(T, l).by = IF l.tool = None THEN T.by
                           ELSE Insert(T.by, l.use, [turn |-> l.id, tool |-> l.tool])
        /\ Tallies(Fold(T, l).turns, t, IF l.tool = t THEN c + 1 ELSE c, f)
    BY <1>1, <1>2, <2>1, <2>2, SpokenCounts
  <2>4. Cardinality(Asking(asked \cup {u}, t)) = IF l.tool = t THEN c + 1 ELSE c
    BY <1>1, <2>2, AskingMore
  <2> QED
    BY <1>1, <2>2, <2>3, <2>4
<1>4. "select" \in Counts
  BY DEF Counts
<1>5. Fold(T, l) \in Folded
  BY <1>2, FoldType
<1>6. ASSUME NEW v \in DOMAIN Fold(T, l).by
      PROVE  v \in asked \cup {u} /\ Fold(T, l).by[v].tool = ToolOf[v] /\ Fold(T, l).by[v].turn \in 1..k
  <2>1. CASE v \in DOMAIN T.by /\ Fold(T, l).by[v] = T.by[v]
    BY <2>1 DEF Tally
  <2>2. CASE v = u /\ Fold(T, l).by[v] = [turn |-> k, tool |-> ToolOf[u]]
    BY <2>2
  <2>3. Fold(T, l).by = T.by \/ Fold(T, l).by = Insert(T.by, u, [turn |-> k, tool |-> ToolOf[u]])
    BY <1>3, <1>4
  <2> QED
    BY <2>1, <2>2, <2>3 DEF Insert
<1>7. ASSUME NEW v \in asked \cup {u}, ToolOf[v] # None PROVE v \in DOMAIN Fold(T, l).by
  <2>1. v # u => v \in DOMAIN T.by
    BY <1>7 DEF Tally
  <2> QED
    BY <1>1, <1>3, <1>4, <1>7, <2>1 DEF Insert
<1> QED
  BY <1>1, <1>3, <1>4, <1>5, <1>6, <1>7 DEF Tally

\* A result, in whatever order it comes.
LEMMA TallyResults ==
  ASSUME NEW T, NEW m, NEW asked \in SUBSET Uses, NEW failed \in SUBSET Uses, Tally(T, m, asked, failed),
         NEW u \in asked \ failed, NEW err \in BOOLEAN
  PROVE  Tally(Fold(T, ToolResult(u, err)), m, asked, IF err THEN failed \cup {u} ELSE failed)
<1>1. PICK l \in Lines : l = ToolResult(u, err) /\ l.kind = "user" /\ l.use = u /\ l.err = err
  BY ToolResultIs
<1>2. T \in Folded /\ (u \in DOMAIN T.by => T.by[u].turn \in DOMAIN T.turns /\ T.by[u].tool = ToolOf[u])
  BY DEF Tally, Folded
<1>3. Fold(T, l) \in Folded
  BY <1>2, FoldType
<1>4. ASSUME NEW t \in Counts
      PROVE  /\ Len(Fold(T, l).turns) = Len(T.turns)
             /\ Fold(T, l).open = T.open /\ Fold(T, l).by = T.by
             /\ Tallies(Fold(T, l).turns, t, Cardinality(Asking(asked, t)),
                        Cardinality(Asking(IF err THEN failed \cup {u} ELSE failed, t)))
  <2>1. PICK c, f : c = Cardinality(Asking(asked, t)) /\ f = Cardinality(Asking(failed, t)) /\ Tallies(T.turns, t, c, f)
    BY DEF Tally
  <2>2. /\ Len(Fold(T, l).turns) = Len(T.turns)
        /\ Fold(T, l).open = T.open /\ Fold(T, l).by = T.by
        /\ Tallies(Fold(T, l).turns, t, c,
                   IF l.use \in DOMAIN T.by /\ l.err /\ T.by[l.use].tool = t THEN f + 1 ELSE f)
    BY <1>1, <1>2, <2>1, CreditedCounts
  <2>3. u \in DOMAIN T.by /\ T.by[u].tool = t <=> ToolOf[u] = t
    BY <1>2 DEF Tally, Counts, None
  <2>4. Cardinality(Asking(IF err THEN failed \cup {u} ELSE failed, t)) =
          IF err /\ ToolOf[u] = t THEN f + 1 ELSE f
    BY <2>1, AskingMore
  <2> QED
    BY <1>1, <2>1, <2>2, <2>3, <2>4
<1>5. "select" \in Counts
  BY DEF Counts
<1> QED
  BY <1>1, <1>3, <1>4, <1>5 DEF Tally

\* What was said is lines.
LEMMA SaidType == ASSUME TypeInv PROVE Said \in Seq(AllLines) /\ Said \in Seq(Lines)
<1>1. AllLines \subseteq Lines
  <2>1. \A m \in 1..Messages, u \in Uses : Assistant(m, u, ToolOf[u]) \in Lines
    BY AssistantIs, AttemptAssumption
  <2>2. \A u \in Uses, err \in BOOLEAN : ToolResult(u, err) \in Lines
    BY ToolResultIs
  <2>3. Result("success") \in Lines /\ Result("error") \in Lines /\ Unknown \in Lines
    BY LastLineIs
  <2> QED
    BY <2>1, <2>2, <2>3 DEF AllLines
<1>2. Said \in Seq(AllLines)
  BY ConcatProperties DEF TypeInv, Said
<1> QED
  BY <1>1, <1>2

\* What the child says is the last that was said.
LEMMA SaysAppends ==
  ASSUME TypeInv, NEW l \in AllLines, Says(l), read' = read
  PROVE  Said' = Append(Said, l)
<1>1. pipe' = Append(pipe, l) /\ read \in Seq(AllLines) /\ pipe \in Seq(AllLines)
  BY DEF Says, TypeInv
<1> QED
  BY <1>1, ConcatAppend DEF Said

\* Only a call, a result and the last line are said.
LEMMA SaidStays ==
  ASSUME TypeInv, [Next]_vars, ~Conclude, \A u \in Uses : ~CallTool(u) /\ ~Answer(u)
  PROVE  Said' = Said
<1>1. CASE Agent
  <2>1. read' = read
    BY <1>1, AgentMoves DEF Beyond
  <2>2. pipe' = pipe
    BY <1>1 DEF Agent, HookLoads, HookEmpties, HookSaves, Exit, Hang
  <2> QED
    BY <2>1, <2>2 DEF Said
<1>2. CASE ReadLine
  BY <1>2, ReadLineMoves DEF Said
<1>3. CASE Spawn \/ Send \/ Eof \/ ChildWaited \/ Terminate \/ Writer
  BY <1>3 DEF Said, Spawn, Send, Eof, ChildWaited, Terminate, Writer, Open, WriteLine, Flush
<1>4. CASE UNCHANGED vars
  BY <1>4 DEF vars, Said
<1> QED
  BY <1>1, <1>2, <1>3, <1>4 DEF Next, Adapter

\* A call is said.
LEMMA CallSays ==
  ASSUME TypeInv, NEW u \in Uses, CallTool(u)
  PROVE  \E m \in 1..Messages :
           /\ msg' = m /\ m \in {msg, msg + 1}
           /\ Assistant(m, u, ToolOf[u]) \in AllLines
           /\ Said' = Append(Said, Assistant(m, u, ToolOf[u]))
<1>1. PICK m \in {msg, msg + 1} \cap 1..Messages : msg' = m /\ Says(Assistant(m, u, ToolOf[u]))
  BY DEF CallTool
<1>2. Assistant(m, u, ToolOf[u]) \in AllLines
  BY <1>1 DEF AllLines
<1>3. read' = read
  BY DEF CallTool
<1>4. Said' = Append(Said, Assistant(m, u, ToolOf[u]))
  BY <1>1, <1>2, <1>3, SaysAppends
<1> QED
  BY <1>1, <1>2, <1>4

\* A result is said.
LEMMA AnswerSays ==
  ASSUME TypeInv, NEW u \in Uses, Answer(u)
  PROVE  \E err \in BOOLEAN : /\ ToolResult(u, err) \in AllLines
                              /\ Said' = Append(Said, ToolResult(u, err))
<1>1. PICK err \in BOOLEAN : Says(ToolResult(u, err))
  BY DEF Answer
<1>2. ToolResult(u, err) \in AllLines
  BY DEF AllLines
<1>3. read' = read
  BY DEF Answer
<1> QED
  BY <1>1, <1>2, <1>3, SaysAppends

\* The last line is said.
LEMMA ConcludeSays ==
  ASSUME TypeInv, Conclude
  PROVE  \E l \in AllLines : /\ l \in {Result("success"), Result("error"), Unknown}
                             /\ Said' = Append(Said, l)
<1>1. PICK l \in {Result("success"), Result("error"), Unknown} : Says(l)
  BY DEF Conclude
<1>2. l \in AllLines
  BY DEF AllLines
<1>3. read' = read
  BY DEF Conclude
<1> QED
  BY <1>1, <1>2, <1>3, SaysAppends

\* What one line more adds to what was heard.
LEMMA HeardMore ==
  ASSUME TypeInv, NEW l \in AllLines, Said' = Append(Said, l), NEW u, NEW err
  PROVE  Heard(u, err)' <=> Heard(u, err) \/ l = ToolResult(u, err)
<1>1. Said \in Seq(AllLines)
  BY SaidType
<1>2. /\ DOMAIN Said' = DOMAIN Said \cup {Len(Said) + 1} /\ Said'[Len(Said) + 1] = l
      /\ \A n \in DOMAIN Said : Said'[n] = Said[n]
  BY <1>1
<1> QED
  BY <1>2 DEF Heard

\* A result names the call and the outcome.
LEMMA ResultsDiffer ==
  ASSUME NEW u, NEW v, NEW e, NEW f, ToolResult(u, e) = ToolResult(v, f)
  PROVE  u = v /\ e = f
BY DEF ToolResult, Line

\* Another line is no result.
LEMMA NoResult ==
  ASSUME NEW l, l.kind # "user", NEW u, NEW err
  PROVE  l # ToolResult(u, err)
BY DEF ToolResult, Line

\* The tally is kept by every step.
LEMMA StepTurns == TypeInv /\ TurnsInv /\ CallsInv /\ [Next]_vars => TurnsInv'
<1> SUFFICES ASSUME TypeInv, TurnsInv, CallsInv, [Next]_vars PROVE TurnsInv'
  OBVIOUS
<1>0. /\ Said \in Seq(AllLines) /\ Said \in Seq(Lines) /\ msg \in Nat /\ answered \in SUBSET Uses
      /\ call \in [Uses -> Calls]
  BY SaidType, AttemptAssumption DEF TypeInv
<1>00. /\ AskedUses \in SUBSET Uses /\ FailedUses \in SUBSET Uses
       /\ Tally(Turned(Said), msg, AskedUses, FailedUses)
  BY <1>0 DEF AskedUses, FailedUses, TurnsInv
<1>1. ASSUME NEW u \in Uses, CallTool(u) PROVE TurnsInv'
  <2>1. PICK m \in 1..Messages :
          /\ msg' = m /\ m \in {msg, msg + 1}
          /\ Assistant(m, u, ToolOf[u]) \in AllLines
          /\ Said' = Append(Said, Assistant(m, u, ToolOf[u]))
    BY <1>1, CallSays
  <2>2. m \in Nat \ {0} /\ Assistant(m, u, ToolOf[u]) \in Lines /\ Assistant(m, u, ToolOf[u]).kind = "assistant"
    BY <2>1, AttemptAssumption, AssistantIs
  <2>3. Turned(Said') = Fold(Turned(Said), Assistant(m, u, ToolOf[u]))
    BY <1>0, <2>1, <2>2, TurnedAppend
  <2>4. \A v, err : Heard(v, err)' <=> Heard(v, err)
    BY <2>1, <2>2, HeardMore, NoResult
  <2>5. AskedUses' = AskedUses \cup {u} /\ u \notin AskedUses /\ answered' = answered
    <3>1. /\ call[u] = "none" /\ call'[u] # "none" /\ answered' = answered
          /\ \A v \in Uses \ {u} : call'[v] = call[v]
      BY <1>1, CallToolMoves
    <3> QED
      BY <3>1 DEF AskedUses, Asked
  <2>6. FailedUses' = FailedUses
    BY <2>4, <2>5 DEF FailedUses
  <2>7. Tally(Turned(Said'), m, AskedUses \cup {u}, FailedUses)
    <3>1. u \in Uses \ AskedUses /\ m \in Nat \ {0} /\ m \in {msg, msg + 1} /\ msg \in Nat
      BY <1>0, <2>1, <2>2, <2>5
    <3>2. Tally(Fold(Turned(Said), Assistant(m, u, ToolOf[u])), m, AskedUses \cup {u}, FailedUses)
      BY <1>00, <3>1, TallyCalls
    <3> QED
      BY <2>3, <3>2
  <2> QED
    BY <2>1, <2>4, <2>5, <2>6, <2>7 DEF TurnsInv
<1>2. ASSUME NEW u \in Uses, Answer(u) PROVE TurnsInv'
  <2>1. PICK err \in BOOLEAN : ToolResult(u, err) \in AllLines /\ Said' = Append(Said, ToolResult(u, err))
    BY <1>2, AnswerSays
  <2>2. ToolResult(u, err) \in Lines
    BY ToolResultIs
  <2>3. Turned(Said') = Fold(Turned(Said), ToolResult(u, err))
    BY <1>0, <2>1, <2>2, TurnedAppend
  <2>4. \A v, e : Heard(v, e)' <=> Heard(v, e) \/ (v = u /\ e = err)
    BY <2>1, HeardMore, ResultsDiffer
  <2>5. /\ u \notin answered /\ answered' = answered \cup {u} /\ AskedUses' = AskedUses /\ u \in AskedUses
        /\ msg' = msg
    BY <1>2, AnswerMoves DEF Answer, AskedUses, Asked
  <2>6. FailedUses' = IF err THEN FailedUses \cup {u} ELSE FailedUses
    <3>1. ~Heard(u, TRUE) /\ ~Heard(u, FALSE)
      BY <2>5 DEF TurnsInv
    <3> QED
      BY <2>4, <2>5, <3>1 DEF FailedUses
  <2>7. Tally(Turned(Said'), msg, AskedUses, IF err THEN FailedUses \cup {u} ELSE FailedUses)
    <3>1. u \in AskedUses \ FailedUses
      BY <2>5 DEF FailedUses
    <3> QED
      BY <1>00, <2>3, <3>1, TallyResults
  <2>8. \A v \in Uses : v \in answered' <=> Heard(v, TRUE)' \/ Heard(v, FALSE)'
    BY <2>4, <2>5 DEF TurnsInv
  <2>9. \A v \in Uses : ~(Heard(v, TRUE)' /\ Heard(v, FALSE)')
    BY <2>4, <2>5 DEF TurnsInv
  <2> QED
    BY <2>5, <2>6, <2>7, <2>8, <2>9 DEF TurnsInv
<1>3. CASE Conclude
  <2>1. PICK l \in AllLines : l \in {Result("success"), Result("error"), Unknown} /\ Said' = Append(Said, l)
    BY <1>3, ConcludeSays
  <2>2. l \in Lines /\ l.kind \notin {"assistant", "user"}
    BY <2>1, LastLineIs
  <2>3. Turned(Said') = Turned(Said)
    BY <1>0, <2>1, <2>2, TurnedAppend, OtherCounts
  <2>4. \A v, err : Heard(v, err)' <=> Heard(v, err)
    BY <2>1, <2>2, HeardMore, NoResult
  <2>5. msg' = msg /\ call' = call /\ answered' = answered
    BY <1>3, ConcludeMoves
  <2>6. AskedUses' = AskedUses /\ FailedUses' = FailedUses
    BY <2>4, <2>5 DEF AskedUses, FailedUses, Asked
  <2> QED
    BY <2>3, <2>4, <2>5, <2>6 DEF TurnsInv
<1>4. ASSUME ~Conclude, \A u \in Uses : ~CallTool(u) /\ ~Answer(u) PROVE TurnsInv'
  <2>1. Said' = Said
    BY <1>4, SaidStays
  <2>2. msg' = msg /\ answered' = answered
    <3>1. ASSUME NEW u \in Uses, HookStep(u) PROVE msg' = msg /\ answered' = answered
      BY <3>1, HookMoves
    <3> QED
      BY <1>4, <3>1, CallsLeftAlone DEF HookStep
  <2>3. AskedUses' = AskedUses
    <3>1. ASSUME NEW u \in Uses, HookStep(u) PROVE AskedUses' = AskedUses
      <4>1. call[u] # "none" /\ call'[u] # "none" /\ \A v \in Uses \ {u} : call'[v] = call[v]
        BY <3>1, HookMoves DEF Searching
      <4> QED
        BY <4>1 DEF AskedUses, Asked
    <3>2. call' = call => AskedUses' = AskedUses
      BY DEF AskedUses, Asked
    <3> QED
      BY <1>4, <3>1, <3>2, CallsLeftAlone DEF HookStep
  <2>4. \A v, err : Heard(v, err)' <=> Heard(v, err)
    BY <2>1 DEF Heard
  <2>5. FailedUses' = FailedUses
    BY <2>2, <2>4 DEF FailedUses
  <2> QED
    BY <2>1, <2>2, <2>3, <2>4, <2>5 DEF TurnsInv
<1> QED
  BY <1>1, <1>2, <1>3, <1>4

\* Nothing is said after the result.
LEMMA StepLast == TypeInv /\ LastInv /\ [Next]_vars => LastInv'
<1> SUFFICES ASSUME TypeInv, LastInv, [Next]_vars PROVE LastInv'
  OBVIOUS
<1>0. Said \in Seq(AllLines)
  BY SaidType
\* A line that is said with none of the earlier ones a result.
<1>1. ASSUME NEW l \in AllLines, Said' = Append(Said, l), agent = "working", adapter # "spawning", adapter' = adapter,
             l.kind = "result" => agent' # "working" /\ \A u \in Uses : ~Going(u)'
      PROVE  LastInv'
  <2>1. \A n \in DOMAIN Said : Said[n].kind # "result"
    BY <1>1 DEF LastInv
  <2>2. /\ DOMAIN Said' = DOMAIN Said \cup {Len(Said')} /\ Said'[Len(Said')] = l
        /\ \A n \in DOMAIN Said : Said'[n] = Said[n]
    BY <1>0, <1>1
  <2> QED
    BY <1>1, <2>1, <2>2 DEF LastInv
<1>2. ASSUME NEW u \in Uses, CallTool(u) PROVE LastInv'
  <2>1. PICK m \in 1..Messages : /\ Assistant(m, u, ToolOf[u]) \in AllLines
                                 /\ Said' = Append(Said, Assistant(m, u, ToolOf[u]))
    BY <1>2, CallSays
  <2>2. Assistant(m, u, ToolOf[u]).kind = "assistant"
    BY <2>1, AttemptAssumption, AssistantIs
  <2>3. agent = "working" /\ adapter # "spawning" /\ adapter' = adapter
    BY <1>2 DEF CallTool, Says
  <2> QED
    BY <1>1, <2>1, <2>2, <2>3
<1>3. ASSUME NEW u \in Uses, Answer(u) PROVE LastInv'
  <2>1. PICK err \in BOOLEAN : ToolResult(u, err) \in AllLines /\ Said' = Append(Said, ToolResult(u, err))
    BY <1>3, AnswerSays
  <2>2. ToolResult(u, err).kind = "user"
    BY ToolResultIs
  <2>3. agent = "working" /\ adapter # "spawning" /\ adapter' = adapter
    BY <1>3 DEF Answer, Says
  <2> QED
    BY <1>1, <2>1, <2>2, <2>3
<1>4. CASE Conclude
  <2>1. PICK l \in AllLines : Said' = Append(Said, l)
    BY <1>4, ConcludeSays
  <2>2. /\ agent = "working" /\ adapter # "spawning" /\ adapter' = adapter /\ agent' = "ended"
        /\ \A u \in Uses : ~Going(u)
    BY <1>4 DEF Conclude, Says
  <2>3. call' = call /\ answered' = answered
    BY <1>4 DEF Conclude
  <2> QED
    BY <1>1, <2>1, <2>2, <2>3 DEF Going, Asked
<1>5. ASSUME ~Conclude, \A u \in Uses : ~CallTool(u) /\ ~Answer(u) PROVE LastInv'
  <2>1. Said' = Said
    BY <1>5, SaidStays
  <2>2. adapter' = "spawning" => adapter = "spawning"
    BY DEF Next, Agent, Conclude, Exit, Hang, CallTool, HookLoads, HookEmpties, HookSaves, Answer,
           Adapter, Spawn, ReadLine, Send, Eof, ChildWaited, Terminate,
           Writer, Open, WriteLine, Flush, vars
  <2>3. agent' = "working" => agent = "working" \/ adapter = "spawning"
    <3>1. CASE Agent
      BY <3>1 DEF Agent, Conclude, Exit, Hang, CallTool, HookLoads, HookEmpties, HookSaves, Answer
    <3>2. CASE Adapter
      BY <3>2 DEF Adapter, Spawn, ReadLine, Send, Eof, ChildWaited, Terminate, child
    <3>3. CASE Writer
      BY <3>3 DEF Writer, Open, WriteLine, Flush, child
    <3>4. CASE UNCHANGED vars
      BY <3>4 DEF vars, child
    <3> QED
      BY <3>1, <3>2, <3>3, <3>4 DEF Next
  <2>4. \A u \in Uses : Going(u)' => Going(u)
    <3>1. ASSUME NEW v \in Uses, HookStep(v) PROVE \A u \in Uses : Going(u)' => Going(u)
      <4>1. /\ call[v] # "none" /\ call'[v] # "none" /\ \A u \in Uses \ {v} : call'[u] = call[u]
            /\ answered' = answered
        BY <3>1, HookMoves DEF Searching
      <4> QED
        BY <4>1 DEF Going, Asked
    <3>2. UNCHANGED <<call, answered>> => \A u \in Uses : Going(u)' => Going(u)
      BY DEF Going, Asked
    <3> QED
      BY <1>5, <3>1, <3>2, CallsLeftAlone DEF HookStep
  <2>5. Said = <<>> => DOMAIN Said = {}
    OBVIOUS
  <2> QED
    BY <2>1, <2>2, <2>3, <2>4, <2>5 DEF LastInv
<1> QED
  BY <1>2, <1>3, <1>4, <1>5

\* The file grows by the next line that was read.
LEMMA StepFile == AttemptInv /\ FileInv /\ [Next]_vars => FileInv'
<1> SUFFICES ASSUME AttemptInv, FileInv, [Next]_vars PROVE FileInv'
  OBVIOUS
<1>0. TypeInv /\ read \in Seq(AllLines) /\ file \in Seq(AllLines)
  BY DEF AttemptInv, TypeInv
<1>1. CASE ReadLine
  <2>1. PICK l \in AllLines : read' = Append(read, l) /\ file' = file /\ rows' = rows
    BY <1>0, <1>1, ReadLineMoves DEF ReadLine
  <2>2. Len(read') = Len(read) + 1 /\ \A n \in DOMAIN read : read'[n] = read[n]
    BY <1>0, <2>1
  <2>3. \A n \in DOMAIN file : n \in DOMAIN read
    BY <1>0 DEF FileInv
  <2> QED
    BY <1>0, <2>1, <2>2, <2>3 DEF FileInv
<1>2. CASE WriteLine
  <2>1. read' = read /\ (rows' = rows \/ (file' = Append(file, Head(channel)) /\ rows' = rows \cup {Len(file) + 1}))
    BY <1>2 DEF WriteLine
  <2>2. CASE file' = file /\ rows' = rows
    BY <2>1, <2>2 DEF FileInv
  <2>3. CASE Len(file) < Len(read) /\ file' = Append(file, read[Len(file) + 1])
    <3>1. read[Len(file) + 1] \in AllLines /\ Len(file) \in Nat /\ Len(read) \in Nat
      BY <1>0, <2>3
    <3>2. /\ Len(file') = Len(file) + 1 /\ DOMAIN file' = DOMAIN file \cup {Len(file) + 1}
          /\ file'[Len(file) + 1] = read[Len(file) + 1]
          /\ \A n \in DOMAIN file : file'[n] = file[n]
      BY <1>0, <2>3, <3>1
    <3> QED
      BY <2>1, <2>3, <3>1, <3>2 DEF FileInv
  <2>4. (file' = file /\ rows' = rows) \/ (Len(file) < Len(read) /\ file' = Append(file, read[Len(file) + 1]))
    <3>1. Promise!Store \/ UNCHANGED Promise!vars
      BY <1>2, StoreStep
    <3>2. file' = file => rows' = rows
      <4>1. file # Append(file, Head(channel))
        <5>1. Head(channel) \in AllLines
          BY <1>0, <1>2, WriteLineMoves
        <5> QED
          BY <1>0, <5>1
      <4> QED
        BY <1>2, <2>1, <4>1
    <3> QED
      BY <3>1, <3>2 DEF Promise!Store, Promise!vars
  <2> QED
    BY <2>2, <2>3, <2>4
<1>3. CASE UNCHANGED <<read, file, rows>>
  BY <1>3 DEF FileInv
<1>4. ~ReadLine /\ ~WriteLine => UNCHANGED <<read, file, rows>>
  <2>1. Agent => UNCHANGED <<read, file, rows>>
    BY DEF Agent, Conclude, Exit, Hang, CallTool, HookLoads, HookEmpties, HookSaves, Answer
  <2> QED
    BY <2>1 DEF Next, Adapter, Spawn, Send, Eof, ChildWaited, Terminate, Writer, Open, Flush, vars
<1> QED
  BY <1>1, <1>2, <1>3, <1>4

\* A success has read its result.
LEMMA StepVerdict == AttemptInv /\ VerdictInv /\ [Next]_vars => VerdictInv'
<1> SUFFICES ASSUME AttemptInv, VerdictInv, [Next]_vars, outcome' = "success" PROVE EndsInSuccess(read)'
  BY DEF VerdictInv
<1>0. outcome = "success" => adapter = "done"
  BY DEF AttemptInv, TypeInv, None
<1>1. CASE ChildWaited
  <2>1. adapter = "waiting" /\ result = "success" /\ read' = read
    BY <1>1 DEF ChildWaited, Verdict
  <2>2. EndsInSuccess(read)
    BY <2>1 DEF AttemptInv, ResultInv
  <2> QED
    BY <2>1, <2>2 DEF EndsInSuccess
<1>2. CASE outcome = "success" /\ read' = read
  BY <1>2 DEF VerdictInv, EndsInSuccess
<1>3. ChildWaited \/ (outcome = "success" /\ read' = read)
  <2>1. Agent => UNCHANGED <<read, outcome>>
    BY DEF Agent, Conclude, Exit, Hang, CallTool, HookLoads, HookEmpties, HookSaves, Answer
  <2>2. Spawn \/ Terminate => outcome' # "success" \/ (outcome' = outcome /\ read' = read)
    BY DEF Spawn, Terminate
  <2>3. ReadLine \/ Send \/ Eof => outcome' = outcome /\ adapter # "done"
    BY DEF ReadLine, Send, Eof
  <2>4. Writer \/ UNCHANGED vars => UNCHANGED <<read, outcome>>
    BY DEF Writer, Open, WriteLine, Flush, vars
  <2> QED
    BY <1>0, <2>1, <2>2, <2>3, <2>4 DEF Next, Adapter
<1> QED
  BY <1>1, <1>2, <1>3

\* The rows of the whole file, in their order, are its lines.
LEMMA EventsAreLines ==
  ASSUME file \in Seq(AllLines), rows = DOMAIN file
  PROVE  Events = file
<1> DEFINE N == Len(file)
           nth(n) == CHOOSE r \in rows : Cardinality({s \in rows : s < r}) = n - 1
<1>1. N \in Nat /\ rows = 1..N
  OBVIOUS
<1>2. Cardinality(rows) = N
  BY <1>1, FS_Interval
<1>3. ASSUME NEW n \in 1..N PROVE nth(n) = n
  <2>1. ASSUME NEW r \in 1..N PROVE Cardinality({s \in rows : s < r}) = r - 1
    <3>1. {s \in rows : s < r} = 1..(r - 1)
      BY <1>1
    <3>2. Cardinality(1..(r - 1)) = r - 1
      BY <1>1, FS_Interval
    <3> QED
      BY <3>1, <3>2
  <2>2. \A r \in rows : Cardinality({s \in rows : s < r}) = n - 1 <=> r = n
    BY <1>1, <2>1
  <2> QED
    BY <1>1, <2>2
<1>4. Events = [n \in 1..N |-> file[nth(n)]]
  BY <1>2 DEF Events
<1> HIDE DEF nth
<1>5. Events = [n \in 1..N |-> file[n]]
  BY <1>3, <1>4
<1> QED
  BY <1>1, <1>5

\* At a success the result was the last line, every call was answered, and all was read.
LEMMA SuccessSaidAll ==
  ASSUME TypeInv, LastInv, VerdictInv, outcome = "success"
  PROVE  Said = read /\ \A u \in Uses : ~Going(u)
<1>1. read \in Seq(AllLines) /\ pipe \in Seq(AllLines)
  BY DEF TypeInv
<1>2. PICK n \in DOMAIN read : read[n].kind = "result"
  BY DEF VerdictInv, EndsInSuccess
<1>3. n \in DOMAIN Said /\ Said[n] = read[n] /\ Len(Said) = Len(read) + Len(pipe)
  BY <1>1 DEF Said
<1>4. n = Len(Said) /\ \A u \in Uses : ~Going(u)
  BY <1>2, <1>3 DEF LastInv
<1>5. pipe = <<>>
  <2>1. Len(pipe) = 0
    BY <1>1, <1>2, <1>3, <1>4
  <2> QED
    BY <1>1, <2>1
<1> QED
  BY <1>1, <1>4, <1>5 DEF Said

\* What holds of an attempt and makes its page right.
PageInv == AttemptInv /\ CallsInv /\ TurnsInv /\ LastInv /\ FileInv /\ VerdictInv

\* The invariant is what the page needs.
LEMMA PageIsRight == PageInv => PageCountsWhatHappened
<1> SUFFICES ASSUME PageInv, outcome = "success", rows = DOMAIN read
             PROVE  LET used == CapsUsed(FoldTurns(Events), result, PageCaps) IN
                    /\ used.turns.used = msg
                    /\ used.searches.used = Cardinality({u \in Searches : Asked(u)})
                    /\ used.selects.used =
                         Cardinality({u \in Uses : ToolOf[u] = "select" /\ ToolResult(u, FALSE) \in ToSet(read)})
  BY DEF PageCountsWhatHappened
<1>0. TypeInv /\ read \in Seq(AllLines) /\ file \in Seq(AllLines)
  BY DEF PageInv, AttemptInv, TypeInv
<1>1. Said = read /\ \A u \in Uses : ~Going(u)
  BY <1>0, SuccessSaidAll DEF PageInv
<1>2. file = read
  <2>1. DOMAIN file = DOMAIN read /\ \A n \in DOMAIN file : file[n] = read[n]
    BY <1>0 DEF PageInv, FileInv
  <2> QED
    BY <1>0, <2>1
<1>3. Events = Said
  BY <1>0, <1>1, <1>2, EventsAreLines
<1>4. PICK T : T = Turned(Said)
  OBVIOUS
<1>5. Tally(T, msg, AskedUses, FailedUses)
  BY <1>4 DEF PageInv, TurnsInv
<1>6. FoldTurns(Events) = T.turns
  BY <1>3, <1>4 DEF FoldTurns
<1>7. Len(T.turns) = msg
  BY <1>5 DEF Tally
<1>8. ASSUME NEW t \in Counts
      PROVE  /\ Called(T.turns, t) = Cardinality(Asking(AskedUses, t))
             /\ Failed(T.turns, t) = Cardinality(Asking(FailedUses, t))
  BY <1>5, TalliesCount DEF Tally
<1>9. Asking(AskedUses, "WebSearch") = {u \in Searches : Asked(u)}
  BY DEF Asking, AskedUses, Searches
<1>10. Accepted(T.turns, "select") =
         Cardinality({u \in Uses : ToolOf[u] = "select" /\ ToolResult(u, FALSE) \in ToSet(read)})
  <2> DEFINE asked == Asking(AskedUses, "select")
             failed == Asking(FailedUses, "select")
             taken == {u \in Uses : ToolOf[u] = "select" /\ ToolResult(u, FALSE) \in ToSet(read)}
  <2>1. \A u \in Uses : ToolResult(u, FALSE) \in ToSet(read) <=> Heard(u, FALSE)
    BY <1>1 DEF ToSet, Heard
  <2>2. \A u \in Uses : Asked(u) <=> u \in answered
    BY <1>1 DEF Going, Asked, PageInv, CallsInv
  <2>3. \A u \in Uses : u \in answered => (Heard(u, TRUE) <=> ~Heard(u, FALSE))
    BY DEF PageInv, TurnsInv
  <2>4. \A u \in Uses : Heard(u, FALSE) => u \in answered
    BY DEF PageInv, TurnsInv
  <2>5. answered \subseteq Uses
    BY <1>0 DEF TypeInv
  <2>6. taken = asked \ failed /\ failed \subseteq asked /\ asked \subseteq Uses
    BY <2>1, <2>2, <2>3, <2>4, <2>5 DEF Asking, AskedUses, FailedUses
  <2>7. IsFiniteSet(Uses)
    <3>1. DOMAIN ToolOf = 1..Len(ToolOf) /\ Len(ToolOf) \in Nat
      BY AttemptAssumption, LenProperties
    <3> QED
      BY <3>1, FS_Interval DEF Uses
  <2> HIDE DEF asked, failed, taken
  <2>8. IsFiniteSet(asked) /\ IsFiniteSet(failed) /\ asked \cap failed = failed
    BY <2>6, <2>7, FS_Subset
  <2>9. Cardinality(taken) = Cardinality(asked) - Cardinality(failed) /\ Cardinality(failed) <= Cardinality(asked)
    <3>1. Cardinality(asked \ failed) = Cardinality(asked) - Cardinality(asked \cap failed)
      BY <2>8, FS_Difference
    <3>2. Cardinality(failed) <= Cardinality(asked)
      BY <2>6, <2>8, FS_Subset
    <3> QED
      BY <2>6, <2>8, <3>1, <3>2
  <2>10. Cardinality(asked) \in Nat /\ Cardinality(failed) \in Nat
    BY <2>8, FS_CardinalityType
  <2>11. Called(T.turns, "select") = Cardinality(asked) /\ Failed(T.turns, "select") = Cardinality(failed)
    BY <1>8 DEF Counts, asked, failed
  <2>12. Accepted(T.turns, "select") = Cardinality(taken)
    BY <2>9, <2>10, <2>11 DEF Accepted
  <2> QED
    BY <2>12 DEF taken
<1>11. Called(T.turns, "WebSearch") = Cardinality({u \in Searches : Asked(u)})
  BY <1>8, <1>9 DEF Counts
<1>12. LET used == CapsUsed(T.turns, result, PageCaps) IN
       /\ used.turns.used = Len(T.turns)
       /\ used.searches.used = Called(T.turns, "WebSearch")
       /\ used.selects.used = Accepted(T.turns, "select")
  BY DEF CapsUsed, Used
<1> QED
  BY <1>6, <1>7, <1>10, <1>11, <1>12

\* The page of a successful run whose rows were all inserted shows as many turns as the
\* child spoke messages, as many searches as it asked for and as many selections as were
\* accepted, for any tools in any number of messages, with parallel calls whose results
\* come in any order.
THEOREM PagesCountWhatHappened == Spec => []PageCountsWhatHappened
<1>1. Init => PageInv
  <2> SUFFICES ASSUME Init PROVE CallsInv /\ TurnsInv /\ LastInv /\ FileInv /\ VerdictInv
    BY InitAttempt DEF PageInv
  <2>1. /\ Said = <<>> /\ msg = 0 /\ answered = {} /\ file = <<>> /\ read = <<>> /\ rows = {} /\ outcome = None
        /\ \A u \in Uses : call[u] = "none"
    BY DEF Init, Said
  <2>2. AskedUses = {} /\ FailedUses = {} /\ \A u, err : ~Heard(u, err)
    BY <2>1 DEF AskedUses, FailedUses, Asked, Heard
  <2>3. Tally(NoTurns, 0, {}, {})
    <3>1. /\ NoTurns.turns = <<>> /\ Len(NoTurns.turns) = 0 /\ NoTurns.open = 0 /\ DOMAIN NoTurns.by = {}
      BY DEF NoTurns
    <3>2. \A t : Asking({}, t) = {}
      BY DEF Asking
    <3>3. ListsOf(<<>>) = <<>> /\ FailsOf(<<>>) = <<>>
      BY DEF ListsOf, FailsOf
    <3>4. \A t : Tallies(<<>>, t, 0, 0)
      BY <3>3, NothingStands DEF Tallies
    <3> QED
      BY <3>1, <3>2, <3>4, NoTurnsType, FS_EmptySet DEF Tally
  <2>4. TurnsInv
    BY <2>1, <2>2, <2>3, TurnedEmpty DEF TurnsInv
  <2>5. CallsInv /\ LastInv /\ FileInv
    BY <2>1 DEF CallsInv, LastInv, FileInv, Searching
  <2> QED
    BY <2>1, <2>4, <2>5 DEF VerdictInv, None
<1>2. PageInv /\ [Next]_vars => PageInv'
  <2>1. PageInv /\ [Next]_vars => AttemptInv' /\ FileInv' /\ VerdictInv'
    BY StepAttempt, StepFile, StepVerdict DEF PageInv
  <2>2. PageInv /\ [Next]_vars => CallsInv' /\ TurnsInv' /\ LastInv'
    BY StepCalls, StepTurns, StepLast DEF PageInv, AttemptInv
  <2> QED
    BY <2>1, <2>2 DEF PageInv
<1> QED
  BY <1>1, <1>2, PageIsRight, PTL DEF Spec
=============================================================================
