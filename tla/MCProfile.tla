----------------------------- MODULE MCProfile -----------------------------
EXTENDS Profile, TLC, MCNaming

\* One topic is listed and one is not; the one feed of feeds.toml is on.
OneTopicListed == "listed" :> 1
OneFeedListed == "feed" :> TRUE

\* Nothing tells two runs apart.
RunSymmetry == Permutations(Runs)
=============================================================================
