----------------------------- MODULE MCAttempt ------------------------------
(* Two searches and a selection; and, for the scan, every short transcript *)
(* of two calls that share an id, their results and a line that leaks.     *)
EXTENDS Attempt

MCToolOf == <<"WebSearch", "WebSearch", "select">>

SomeLines ==
  {Scanned(Assistant(1, 1, "read_item"), FALSE, None), Scanned(Assistant(1, 2, "WebSearch"), FALSE, None),
   Scanned(Assistant(2, 1, "select"), FALSE, None), Scanned(ToolResult(1, FALSE), FALSE, "stored"),
   Scanned(ToolResult(1, FALSE), FALSE, "foreign"), Scanned(ToolResult(1, TRUE), FALSE, "foreign"),
   Scanned(ToolResult(2, FALSE), FALSE, "foreign"), Scanned(Unknown, TRUE, None)}

ASSUME ScanFindsAll ==
  \A n \in 0..4 : \A seen \in [1..n -> SomeLines], leaks \in BOOLEAN :
    ScanTranscript(seen, 1, leaks) = 0 <=> Clean(seen, 1) /\ ~leaks

ASSUME WallIsRounded ==
  /\ WallSecs(<<1499>>, <<>>) = 1 /\ WallSecs(<<1500>>, <<9>>) = 2
  /\ WallSecs(<<>>, <<7, 9, 12>>) = 5 /\ WallSecs(<<>>, <<9, 7>>) = 0 /\ WallSecs(<<>>, <<>>) = 0
=============================================================================
