------------------------------- MODULE Dedupe -------------------------------
(***************************************************************************)
(* What makes two articles one (src/core/dedupe.rs), and which page is an  *)
(* article at all (src/core/extract.rs).  Ingest takes the answers as      *)
(* given: UrlOf and TitleOf of an entry, and what is Near it.              *)
(*                                                                         *)
(* A url is what its parser makes of it, a text is a sequence of           *)
(* characters of three kinds, and a page is a sequence of lines of words.  *)
(* A hash is what is hashed.                                               *)
(***************************************************************************)
EXTENDS Naturals, Sequences, SequencesExt, FiniteSets

CONSTANTS
  Tracking,   \* the query keys that only track the click
  Before(_, _),   \* the order of query keys
  MinWords    \* MIN_WORDS

-----------------------------------------------------------------------------
(* Urls: [host, path, query, fragment], a host being its letters' cases    *)

LowerHost(h) == [h EXCEPT !.upper = FALSE]

\* trim_end_matches: every slash at the end goes, and a path of slashes is the root.
TrimSlashes(path) ==
  LET kept == {n \in DOMAIN path : path[n] # ""}
  IN IF kept = {} THEN <<"">> ELSE SubSeq(path, 1, CHOOSE n \in kept : \A m \in kept : m <= n)

\* sort_by on the key is stable: pairs of one key stay in their order.
Insert(sorted, pair) ==
  LET after == SelectSeq(sorted, LAMBDA p : Before(pair.key, p.key))
      before == SelectSeq(sorted, LAMBDA p : ~Before(pair.key, p.key))
  IN Append(before, pair) \o after

IsTrackingParam(pair) == pair.key \in Tracking

CanonicalUrl(u) ==
  [host |-> LowerHost(u.host),
   path |-> TrimSlashes(u.path),
   query |-> FoldLeft(Insert, <<>>, SelectSeq(u.query, LAMBDA p : ~IsTrackingParam(p))),
   fragment |-> "none"]

\* The first half of the hash names the item.
ItemId(u) == CanonicalUrl(u)

-----------------------------------------------------------------------------
(* Texts: "a" and "A" are a letter, "." anything else, " " white space     *)

Lower(c) == IF c = "A" THEN "a" ELSE c
Alphanumeric(c) == c \in {"a", "A"}

\* What is hashed of a title: a gap becomes one space, none at either end.
TitleHash(title) ==
  FoldLeft(LAMBDA acc, c :
             IF ~Alphanumeric(c) THEN [gap |-> TRUE, out |-> acc.out]
             ELSE [gap |-> FALSE,
                   out |-> acc.out \o (IF acc.gap /\ acc.out # <<>> THEN <<" ">> ELSE <<>>) \o <<Lower(c)>>],
           [gap |-> FALSE, out |-> <<>>], title).out

\* split_whitespace
Worded(text) ==
  FoldLeft(LAMBDA acc, c :
             IF c = " " THEN [fresh |-> TRUE, words |-> acc.words]
             ELSE [fresh |-> FALSE,
                   words |-> IF acc.fresh THEN Append(acc.words, <<c>>)
                             ELSE [acc.words EXCEPT ![Len(acc.words)] = Append(@, c)]],
           [fresh |-> TRUE, words |-> <<>>], text)
Words(text) == Worded(text).words

-----------------------------------------------------------------------------
(* Duplicates *)

\* The nearest vector over the threshold, the first of equals; a cosine with nothing or
\* with zeros is 0.
Nearest(cosines, threshold) ==
  FoldLeft(LAMBDA best, n :
             IF cosines[n] > threshold /\ (best = 0 \/ cosines[n] > cosines[best]) THEN n ELSE best,
           0, [n \in DOMAIN cosines |-> n])

\* find_duplicate_against: the url for ever, the title within the window, the vector last.
FindDuplicate(known, cosines, threshold) ==
  CASE known.url -> "url"
    [] ~known.url /\ known.title -> "title"
    [] OTHER -> IF Nearest(cosines, threshold) = 0 THEN "new" ELSE "near"

-----------------------------------------------------------------------------
(* Pages: a line is a sequence of words; a blank one has none *)

\* normalize_text: blank lines around the text go, and several become one.
NormalizeText(lines) ==
  FoldLeft(LAMBDA acc, line :
             IF line = <<>> THEN [blank |-> TRUE, out |-> acc.out]
             ELSE [blank |-> FALSE,
                   out |-> acc.out \o (IF acc.blank /\ acc.out # <<>> THEN << <<>> >> ELSE <<>>) \o <<line>>],
           [blank |-> FALSE, out |-> <<>>], lines).out

CountWords(lines) == FoldLeft(LAMBDA n, line : n + Len(line), 0, lines)

Nothing == <<>>
Parser(found, name) == [text |-> NormalizeText(found), extractor |-> name]

\* extract: the second parser is asked when the first finds too little.
Extract(primary, fallback) ==
  LET long(e) == CountWords(e.text) >= MinWords
      first == Parser(primary, "dom_smoothie")
      second == Parser(fallback, "readability")
  IN IF long(first) THEN first ELSE IF long(second) THEN second ELSE Nothing

-----------------------------------------------------------------------------
(* What they are for *)

\* The values a query gives one key, in order.
ValuesOf(query, key) == SelectSeq(query, LAMBDA p : p.key = key)

(* Two urls have one canonical form exactly when they differ in nothing    *)
(* but the case of the host, slashes at the end, the fragment, tracking,   *)
(* and the order of parameters with different keys; and that form is its   *)
(* own, so an item found again under it keeps its id.                      *)
SameArticle(u, v) ==
  /\ u.host.name = v.host.name
  /\ TrimSlashes(u.path) = TrimSlashes(v.path)
  /\ \A k \in {p.key : p \in ToSet(u.query \o v.query)} \ Tracking :
       ValuesOf(u.query, k) = ValuesOf(v.query, k)
CanonicalWell(u, v) ==
  /\ CanonicalUrl(u) = CanonicalUrl(v) <=> SameArticle(u, v)
  /\ ItemId(CanonicalUrl(u)) = ItemId(u)

(* A title is its words: whatever stands between, before and after them    *)
(* and whatever their case.  (A title without any letter has no words, and *)
(* so every such title is every other.)                                    *)
TitleWords(title) == Words([n \in DOMAIN title |-> IF Alphanumeric(title[n]) THEN Lower(title[n]) ELSE " "])
TitlesAgree(s, t) == TitleHash(s) = TitleHash(t) <=> TitleWords(s) = TitleWords(t)

(* The nearest is over the threshold, nothing is nearer, and it is the     *)
(* first such; there is none only when all are within the threshold, and   *)
(* what is stored then has no match of any kind.                           *)
NearestIsMax(cosines, threshold) ==
  LET n == Nearest(cosines, threshold) IN
  /\ \A known \in [url : BOOLEAN, title : BOOLEAN] :
       FindDuplicate(known, cosines, threshold) = "new"
         <=> ~known.url /\ ~known.title /\ \A m \in DOMAIN cosines : cosines[m] <= threshold
  /\ IF n = 0 THEN \A m \in DOMAIN cosines : cosines[m] <= threshold
     ELSE /\ cosines[n] > threshold
          /\ \A m \in DOMAIN cosines : cosines[m] <= cosines[n] /\ (m < n => cosines[m] < cosines[n])

\* The lines that are not blank.
Full(lines) == FoldLeft(LAMBDA kept, line : IF line = <<>> THEN kept ELSE Append(kept, line), <<>>, lines)

(* Normalising keeps the words and the paragraphs, and what is normal is   *)
(* left as it is.                                                          *)
NormalizesWell(lines) ==
  LET out == NormalizeText(lines)
  IN /\ NormalizeText(out) = out
     /\ CountWords(out) = CountWords(lines)
     /\ Full(out) = Full(lines)
     /\ \A n \in 1..Len(out) - 1 : out[n] # <<>> \/ out[n + 1] # <<>>
     /\ out # <<>> => out[1] # <<>> /\ Last(out) # <<>>

(* What is extracted is long enough, an article that either parser finds   *)
(* is found, and the first is preferred.                                   *)
ExtractsWell(primary, fallback) ==
  LET e == Extract(primary, fallback) IN
  IF e = Nothing THEN CountWords(primary) < MinWords /\ CountWords(fallback) < MinWords
  ELSE CountWords(e.text) >= MinWords
       /\ (CountWords(primary) >= MinWords => e.extractor = "dom_smoothie")
=============================================================================
