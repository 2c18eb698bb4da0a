------------------------------ MODULE Download ------------------------------
(***************************************************************************)
(* One GET through the guarded client (src/core/http.rs) and the discovery *)
(* of feeds that is built on it (src/core/feeds_discovery.rs).  A web is a *)
(* function from urls to answers; a url has a scheme and a host; a host is *)
(* an address or a name, which DNS resolves to a set of addresses.  An     *)
(* address is a sequence of octets, or of segments with a leading mark.    *)
(*                                                                         *)
(* Each algorithm is defined as the code computes it and compared with a   *)
(* definition of what it is for, over the webs of the MC module.           *)
(***************************************************************************)
EXTENDS Naturals, Sequences, SequencesExt

CONSTANTS
  Urls,          \* [id |-> .., scheme |-> .., literal |-> BOOLEAN, local |-> BOOLEAN, addresses |-> ..]
  Web,           \* [Urls -> answers]: [status, location, chunks, announced, feed, links]
  MaxRedirects,  \* ingest.max_redirects
  MaxBytes       \* the cap of a body

-----------------------------------------------------------------------------
(* Addresses *)

V4(a, b, c, d) == [v |-> 4, octets |-> <<a, b, c, d>>]
V6(segments) == [v |-> 6, segments |-> segments]

\* private_v4: everything that is not a public unicast address.
PrivateV4(o) ==
  \/ o[1] \in {0, 10, 127} \cup 224..255
  \/ o[1] = 100 /\ o[2] \in 64..127
  \/ o[1] = 169 /\ o[2] = 254
  \/ o[1] = 172 /\ o[2] \in 16..31
  \/ o[1] = 192 /\ (o[2] = 168 \/ (o[2] = 0 /\ o[3] \in {0, 2}))
  \/ o[1] = 198 /\ (o[2] \in 18..19 \/ (o[2] = 51 /\ o[3] = 100))
  \/ o[1] = 203 /\ o[2] = 0 /\ o[3] = 113

\* The address two segments spell.
Carried(hi, lo) == <<hi \div 256, hi % 256, lo \div 256, lo % 256>>

\* Where an IPv6 address begins that carries one of IPv4: mapped, NAT64, 6to4.
MappedPrefix == <<0, 0, 0, 0, 0, 65535>>
Nat64Prefix == <<100, 65435, 0, 0, 0, 0>>
SixToFour == 8194

\* private_v6: mapped, NAT64 and 6to4 addresses are judged by what they carry.
PrivateV6(s) ==
  IF SubSeq(s, 1, 6) \in {MappedPrefix, Nat64Prefix}
    THEN PrivateV4(Carried(s[7], s[8]))
  ELSE IF s[1] = SixToFour THEN PrivateV4(Carried(s[2], s[3]))
  ELSE \/ \A n \in 1..7 : s[n] = 0 /\ s[8] \in {0, 1}
       \/ s[1] \in 64512..65023 \cup 65152..65215 \cup 65280..65535

AddressAllowed(a) == IF a.v = 4 THEN ~PrivateV4(a.octets) ELSE ~PrivateV6(a.segments)

-----------------------------------------------------------------------------
(* A request *)

\* check_url: the scheme, a literal address, a name that means this machine.
CheckUrl(u) ==
  /\ u.scheme \in {"http", "https"}
  /\ ~u.local
  /\ u.literal => \A a \in u.addresses : AddressAllowed(a)

\* The resolver: one address that is not allowed refuses the whole answer.
Resolves(u) == \A a \in u.addresses : AddressAllowed(a)

Redirects(u) == Web[u].status = 300

\* The client follows: visited are the urls of the attempts before this one.
\* It ends with the answer's url, or with the reason it stopped at.
Follow[visited \in Seq(Urls) \ {<<>>}] ==
  LET u == Last(visited)
      next == Web[u].location
  IN IF ~Resolves(u) THEN [end |-> "private", contacted |-> Front(visited)]
     ELSE IF ~Redirects(u) THEN [end |-> "answer", url |-> u, contacted |-> visited]
     ELSE IF Len(visited) > MaxRedirects THEN [end |-> "too many", contacted |-> visited]
     ELSE IF ~CheckUrl(next) THEN [end |-> "private", contacted |-> visited]
     ELSE Follow[Append(visited, next)]

\* Http::get and send.
Send(u) == IF CheckUrl(u) THEN Follow[<<u>>] ELSE [end |-> "private", contacted |-> <<>>]

\* read_capped: chunk by chunk, the announced length first.
ReadChunks(chunks) ==
  FoldLeft(LAMBDA read, chunk :
             IF read.ok /\ read.size + chunk <= MaxBytes THEN [ok |-> TRUE, size |-> read.size + chunk]
             ELSE [ok |-> FALSE, size |-> read.size],
           [ok |-> TRUE, size |-> 0], chunks)
ReadCapped(answer) ==
  IF answer.announced > MaxBytes THEN [ok |-> FALSE, size |-> 0] ELSE ReadChunks(answer.chunks)

\* get_text, and the fetch of a feed up to its parsing.
GetText(u) ==
  LET sent == Send(u) IN
  /\ sent.end = "answer"
  /\ Web[sent.url].status = 200
  /\ ReadCapped(Web[sent.url]).ok
Body(u) == Web[Send(u).url]

-----------------------------------------------------------------------------
(* Discovery *)

\* validate_feed: the body parses as a feed.
Validates(u) == GetText(u) /\ Body(u).feed

\* link_alternates: what a page advertises, in its order, each url once.
LinkAlternates(page) ==
  FoldLeft(LAMBDA found, link : IF Contains(found, link) THEN found ELSE Append(found, link),
           <<>>, page.links)

\* find_feeds: the links that may be asked for, then the probes that answer with a feed;
\* a page that does not answer is an error.
FindFeeds(u, probes) ==
  IF ~GetText(u) THEN <<>>
  ELSE FoldLeft(LAMBDA found, probe :
             IF ~Contains(found, probe) /\ Validates(probe) THEN Append(found, probe) ELSE found,
           SelectSeq(LinkAlternates(Body(u)), CheckUrl), probes)

-----------------------------------------------------------------------------
(* What they are for *)

(* An address that carries an IPv4 address is allowed exactly when that    *)
(* address is.                                                             *)
Forms(hi, lo) ==
  {MappedPrefix \o <<hi, lo>>, Nat64Prefix \o <<hi, lo>>, <<SixToFour, hi, lo, 0, 0, 0, 0, 1>>}
FormsAgree(octets) ==
  LET o == octets IN
  \A s \in Forms(256 * o[1] + o[2], 256 * o[3] + o[4]) :
    AddressAllowed(V6(s)) <=> AddressAllowed(V4(o[1], o[2], o[3], o[4]))

(* Whatever redirects say, only public addresses are contacted; and a url  *)
(* is answered exactly when it leads to an answer over at most MaxRedirects*)
(* hops, all of which may be asked.                                        *)
OnlyPublic(u) == \A n \in DOMAIN Send(u).contacted : Resolves(Send(u).contacted[n])
Leads(u) ==
  LET hop[n \in 0..MaxRedirects] == IF n = 0 THEN u ELSE Web[hop[n - 1]].location
  IN \E n \in 0..MaxRedirects :
       /\ \A m \in 0..n : CheckUrl(hop[m]) /\ Resolves(hop[m])
       /\ \A m \in 0..n - 1 : Redirects(hop[m])
       /\ ~Redirects(hop[n])
Followed(u) == Send(u).end = "answer" <=> Leads(u)

(* A body is read exactly when neither what it announces nor what it is    *)
(* exceeds the cap.                                                        *)
Total(chunks) == FoldLeft(LAMBDA n, chunk : n + chunk, 0, chunks)
WithinCap(answer) ==
  ReadCapped(answer).ok <=> answer.announced <= MaxBytes /\ Total(answer.chunks) <= MaxBytes

(* What discovery proposes may be asked for, is proposed once, and misses  *)
(* no probe that is a feed, if the page answers at all.                    *)
FoundWell(u, probes) ==
  LET found == FindFeeds(u, probes) IN
  /\ IsInjective(found)
  /\ \A n \in DOMAIN found : CheckUrl(found[n])
  /\ GetText(u) => \A n \in DOMAIN probes : Validates(probes[n]) => Contains(found, probes[n])
=============================================================================
