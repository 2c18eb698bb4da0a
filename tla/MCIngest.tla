------------------------------ MODULE MCIngest ------------------------------
EXTENDS Ingest, MCDownload, MCDedupe

\* A feed with a story and its rewrite, then a later version of it with news; and
\* another feed that carries the story under its title.
MCContent == [a |-> <<<<"story", "rewrite">>, <<"story", "news">>>>, b |-> <<<<"copy">>>>]
MCEntries == {"story", "rewrite", "news", "copy"}
MCUrlOf == [e \in MCEntries |-> e]
MCTitleOf == [e \in MCEntries |-> IF e = "copy" THEN "story" ELSE e]
MCNear == {<<"story", "rewrite">>, <<"rewrite", "story">>,
           <<"copy", "rewrite">>, <<"rewrite", "copy">>}
=============================================================================
