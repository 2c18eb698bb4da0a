----------------------------- MODULE MCDownload -----------------------------
(* A small web: a page and a feed on a public host, redirects of every     *)
(* length up to one too many, a loop, and hosts that must not be asked.    *)
EXTENDS Naturals, Sequences

\* 93.184.216.34 and 10.0.0.1; a name, an address, and a name with both.
Public == [v |-> 4, octets |-> <<93, 184, 216, 34>>]
Private == [v |-> 4, octets |-> <<10, 0, 0, 1>>]
Url(id) ==
  [id |-> id, scheme |-> IF id = "mail" THEN "mailto" ELSE "https",
   literal |-> id \in {"intranet"}, local |-> id = "localhost",
   addresses |-> IF id = "intranet" THEN {Private}
                 ELSE IF id = "rebound" THEN {Public, Private} ELSE {Public}]
Answer(id) ==
  LET to == [one |-> "page", two |-> "one", three |-> "two", loop |-> "loop",
             inward |-> "intranet", rebinds |-> "rebound"]
  IN [status |-> IF id \in DOMAIN to THEN 300 ELSE IF id = "gone" THEN 404 ELSE 200,
      location |-> Url(IF id \in DOMAIN to THEN to[id] ELSE id),
      announced |-> IF id = "large" THEN 5 ELSE 0,
      chunks |-> IF id = "stream" THEN <<2, 2, 1>> ELSE <<2, 2>>,
      feed |-> id \in {"feed", "atom", "stream"},
      links |-> IF id = "page" THEN <<Url("feed"), Url("intranet"), Url("mail"), Url("feed")>> ELSE <<>>]
Names == {"page", "feed", "atom", "gone", "large", "stream", "one", "two", "three", "loop",
          "inward", "intranet", "rebinds", "rebound", "localhost", "mail"}
MCUrls == {Url(id) : id \in Names}
MCWeb == [u \in MCUrls |-> Answer(u.id)]
Probes == <<Url("feed"), Url("atom"), Url("gone"), Url("stream"), Url("rebound")>>

D == INSTANCE Download WITH Urls <- MCUrls, Web <- MCWeb, MaxRedirects <- 2, MaxBytes <- 4

Octets == {0, 1, 10, 51, 64, 100, 113, 127, 128, 168, 169, 172, 192, 198, 203, 224, 254}
ASSUME AddressesAgree ==
  \A a \in Octets, b \in {0, 2, 16, 18, 51, 64, 127, 168, 254}, c \in {0, 2, 100, 113} : D!FormsAgree(<<a, b, c, 1>>)
ASSUME WebIsFollowed == \A u \in MCUrls : D!OnlyPublic(u) /\ D!Followed(u)
ASSUME BodiesAreCapped == \A u \in MCUrls : D!WithinCap(MCWeb[u])
ASSUME FeedsAreFound == \A u \in MCUrls : D!FoundWell(u, Probes)
=============================================================================
