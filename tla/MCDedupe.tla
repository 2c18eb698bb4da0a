------------------------------ MODULE MCDedupe ------------------------------
(* Urls of two hosts with up to two slashes and three parameters, titles   *)
(* of up to four characters, pages of up to four lines.                    *)
EXTENDS Naturals, Sequences

KeyOrder == <<"a", "b", "utm_x">>
KeyAt(k) == CHOOSE n \in DOMAIN KeyOrder : KeyOrder[n] = k
KeyBefore(k, l) == KeyAt(k) < KeyAt(l)

Dup == INSTANCE Dedupe WITH Tracking <- {"utm_x"}, Before <- KeyBefore, MinWords <- 2

Pairs == {[key |-> "a", value |-> 1], [key |-> "a", value |-> 2], [key |-> "b", value |-> 1],
          [key |-> "utm_x", value |-> 1]}
UpTo(n, s) == UNION {[1..m -> s] : m \in 0..n}
Queries == UpTo(3, Pairs)
Paths == {<<"">>, <<"", "">>, <<"p">>, <<"p", "">>, <<"p", "", "">>, <<"p", "", "q">>}
SomeUrls(queries) ==
  [host : [name : {"h", "g"}, upper : BOOLEAN], path : Paths, query : queries,
   fragment : {"none", "top"}]

ASSUME UrlsAgree ==
  /\ \A u, v \in SomeUrls({<<>>}) : Dup!CanonicalWell(u, v)
  /\ \A p, q \in Queries :
       LET url(query) == [host |-> [name |-> "h", upper |-> FALSE], path |-> <<"p">>,
                          query |-> query, fragment |-> "none"]
       IN Dup!CanonicalWell(url(p), url(q))

Texts == UpTo(4, {"a", "A", ".", " "})
ASSUME TitlesAgree == \A s \in Texts, t \in UpTo(3, {"a", "."}) : Dup!TitlesAgree(s, t)
ASSUME NearestIsMax == \A cosines \in UpTo(4, 0..3), threshold \in 0..3 : Dup!NearestIsMax(cosines, threshold)

Lines == {<<>>, <<"w">>, <<"w", "w">>}
ASSUME PagesAreNormal == \A lines \in UpTo(5, Lines) : Dup!NormalizesWell(lines)
ASSUME PagesAreExtracted == \A p, q \in UpTo(3, Lines) : Dup!ExtractsWell(p, q)
=============================================================================
