------------------------------ MODULE MCDigest ------------------------------
(* Digest on five items, two of one source and two of one title, of which   *)
(* the second run is offered three.                                         *)
EXTENDS Digest

FiveItems == 1..5
FiveSources == <<"s1", "s2", "s3", "s4", "s4">>
SharedTitles == [s1 |-> "One", s2 |-> "One", s3 |-> "Three", s4 |-> "Four"]
FiveTopics == <<{"a"}, {"a"}, {"b"}, {"a"}, {"a"}>>
FiveOffered == <<1..5, 2..4>>
=============================================================================
