------------------------------ MODULE MCNaming ------------------------------
(* Names of up to seven characters where an id has five, and paths of up   *)
(* to five.                                                                *)
EXTENDS Naturals, Sequences

Ids == INSTANCE Naming WITH MaxId <- 5

ASSUME SlugsAreIds == \A n \in 0..7 : \A name \in [1..n -> {"a", "-", "."}] : Ids!SlugIsAnId(name)
ASSUME PathsAreQuoted ==
  \A n \in 1..5 : \A path \in [1..n -> {"a", " ", Ids!Quote, Ids!Backslash}] : Ids!PathIsOneWord(path)
=============================================================================
