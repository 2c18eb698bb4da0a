------------------------- MODULE Algorithms_proofs --------------------------
(***************************************************************************)
(* What the folds of the code compute, on inputs of any length: over the   *)
(* lines of a transcript, the cosines of the stored vectors, the lines of  *)
(* a page, the characters of a title, of a path and of a name, the hops of *)
(* a request; and the bounds of a day.                                     *)
(* FoldLeft is a CHOOSE of a function on the subsets of the positions:     *)
(* there is one for any number of steps (FoldExists), so a fold is a walk  *)
(* through the positions (ScanWalks, TurnedWalks, NearestWalks ...), and   *)
(* what holds along it is shown by induction over a set of numbers         *)
(* (Induction, WalkKeeps).                                                 *)
(***************************************************************************)
EXTENDS Trajectory, Integers, FiniteSetsExt, FiniteSetTheorems, SequenceTheorems,
        WellFoundedInduction, TLAPS

CONSTANTS
  Tracking, Before(_, _), MinWords,     \* those of Dedupe; no theorem needs the first two
  Urls, Web, MaxRedirects, MaxBytes,    \* those of Download
  MaxId                                 \* that of Naming

Dup == INSTANCE Dedupe
Net == INSTANCE Download
Nam == INSTANCE Naming

Below == {p \in Nat \X Nat : p[1] < p[2]}

\* Induction over the numbers, for a set of them.
LEMMA Induction ==
  ASSUME NEW G, 0 \in G, \A n \in Nat : n \in G => n + 1 \in G
  PROVE  Nat \subseteq G
<1>1. IsWellFoundedOn(Below, Nat)
  BY NatLessThanWellFounded DEF Below, OpToRel
<1>2. SUFFICES ASSUME Nat \ G # {} PROVE FALSE
  OBVIOUS
<1>3. PICK n \in Nat \ G : \A m \in Nat \ G : ~(<<m, n>> \in Below)
  BY <1>1, <1>2, WFMin
<1>4. n # 0 /\ n - 1 \in Nat /\ <<n - 1, n>> \in Below
  BY DEF Below
<1> QED
  BY <1>3, <1>4

\* The largest of the numbers up to n.
LEMMA MaxUpTo ==
  ASSUME NEW n \in Nat, NEW S \in SUBSET (1..n), n \in S
  PROVE  Max(S) = n
<1>1. \A y \in S : n >= y
  OBVIOUS
<1>2. \A x \in S : (\A y \in S : x >= y) => x = n
  OBVIOUS
<1>3. \E x \in S : \A y \in S : x >= y
  BY <1>1
<1> QED
  BY <1>2, <1>3 DEF Max

\* The largest of some numbers up to n is one of them.
LEMMA MaxIsIn ==
  ASSUME NEW n \in Nat, NEW S \in SUBSET (1..n), S # {}
  PROVE  Max(S) \in S
<1> DEFINE P(m) == \A T \in SUBSET (1..m) : T # {} => Max(T) \in T
           G == {m \in Nat : P(m)}
<1>1. P(0)
  <2>1. \A T \in SUBSET (1..0) : T = {}
    OBVIOUS
  <2> QED
    BY <2>1
<1>2. ASSUME NEW m \in Nat, P(m) PROVE P(m + 1)
  <2>1. SUFFICES ASSUME NEW T \in SUBSET (1..(m + 1)), T # {} PROVE Max(T) \in T
    OBVIOUS
  <2>2. CASE m + 1 \in T
    BY <2>2, MaxUpTo
  <2>3. CASE m + 1 \notin T
    <3>1. T \in SUBSET (1..m)
      BY <2>3
    <3> QED
      BY <1>2, <2>1, <3>1
  <2> QED
    BY <2>2, <2>3
<1>3. Nat \subseteq G
  <2> HIDE DEF P
  <2>1. 0 \in G
    BY <1>1
  <2>2. ASSUME NEW m \in Nat, m \in G PROVE m + 1 \in G
    BY <1>2, <2>2
  <2> HIDE DEF G
  <2> QED
    BY <2>1, <2>2, Induction
<1> QED
  BY <1>3

\* What FoldLeft recurs on: from the largest position down.
FoldsBy(it, N, b, step) ==
  it = [S \in SUBSET (1..N) |-> IF S = {} THEN b ELSE step[Max(S)][it[S \ {Max(S)}]]]

Foldable(U, N, b, step) == \E it \in [SUBSET (1..N) -> U] : FoldsBy(it, N, b, step)

\* There is such a function, for any number of steps.
LEMMA FoldExists ==
  ASSUME NEW U, NEW b \in U, NEW N \in Nat, NEW step \in [1..N -> [U -> U]]
  PROVE  Foldable(U, N, b, step)
<1>1. Foldable(U, 0, b, step)
  <2>1. SUBSET (1..0) = {{}}
    OBVIOUS
  <2>2. PICK it : it = [S \in SUBSET (1..0) |-> b]
    OBVIOUS
  <2>3. it \in [SUBSET (1..0) -> U] /\ FoldsBy(it, 0, b, step)
    BY <2>1, <2>2 DEF FoldsBy
  <2> QED
    BY <2>3 DEF Foldable
<1>2. ASSUME NEW n \in Nat, n + 1 <= N, Foldable(U, n, b, step)
      PROVE  Foldable(U, n + 1, b, step)
  <2>1. PICK f \in [SUBSET (1..n) -> U] : FoldsBy(f, n, b, step)
    BY <1>2 DEF Foldable
  <2>2. PICK g : g = [S \in SUBSET (1..(n + 1)) |->
                 IF n + 1 \in S THEN step[n + 1][f[S \ {n + 1}]] ELSE f[S]]
    OBVIOUS
  <2>3. \A S \in SUBSET (1..(n + 1)) : S \ {n + 1} \in SUBSET (1..n)
    OBVIOUS
  <2>4. g \in [SUBSET (1..(n + 1)) -> U]
    BY <1>2, <2>2, <2>3
  <2>5. ASSUME NEW S \in SUBSET (1..(n + 1))
        PROVE  g[S] = IF S = {} THEN b ELSE step[Max(S)][g[S \ {Max(S)}]]
    <3>1. CASE n + 1 \in S
      <4>1. Max(S) = n + 1 /\ g[S \ {n + 1}] = f[S \ {n + 1}]
        BY <2>2, <2>3, <2>5, <3>1, MaxUpTo
      <4> QED
        BY <2>2, <3>1, <4>1
    <3>2. CASE n + 1 \notin S
      <4>1. S \in SUBSET (1..n) /\ g[S] = f[S]
        BY <2>2, <2>3, <3>2
      <4>2. CASE S = {}
        BY <2>1, <4>1, <4>2 DEF FoldsBy
      <4>3. CASE S # {}
        <5>0. PICK T : T = S \ {Max(S)}
          OBVIOUS
        <5>1. T \in SUBSET (1..n) /\ n + 1 \notin T
          BY <3>2, <4>1, <5>0
        <5>2. g[T] = f[T]
          BY <2>2, <5>1
        <5>3. f[S] = step[Max(S)][f[T]]
          BY <2>1, <4>1, <4>3, <5>0 DEF FoldsBy
        <5> QED
          BY <4>1, <4>3, <5>0, <5>2, <5>3
      <4> QED
        BY <4>2, <4>3
    <3> QED
      BY <3>1, <3>2
  <2>6. FoldsBy(g, n + 1, b, step)
    BY <2>2, <2>5 DEF FoldsBy
  <2> QED
    BY <2>4, <2>6 DEF Foldable
<1> DEFINE G == {n \in Nat : n <= N => Foldable(U, n, b, step)}
<1>3. 0 \in G
  BY <1>1
<1>4. ASSUME NEW n \in Nat, n \in G PROVE n + 1 \in G
  BY <1>2, <1>4
<1>5. Nat \subseteq G
  <2> HIDE DEF G
  <2> QED
    BY <1>3, <1>4, Induction
<1> QED
  BY <1>5

\* Its values are of the kind the steps keep to, and it recurs on a position.
LEMMA FoldSteps ==
  ASSUME NEW U, NEW b \in U, NEW N \in Nat, NEW step \in [1..N -> [U -> U]]
  PROVE  \E it : /\ FoldsBy(it, N, b, step)
                 /\ \A S \in SUBSET (1..N) : S # {} => Max(S) \in 1..N /\ it[S \ {Max(S)}] \in U
<1>1. PICK it \in [SUBSET (1..N) -> U] : FoldsBy(it, N, b, step)
  BY FoldExists DEF Foldable
<1>2. ASSUME NEW S \in SUBSET (1..N), S # {} PROVE Max(S) \in 1..N /\ it[S \ {Max(S)}] \in U
  <2>1. Max(S) \in S
    BY <1>2, MaxIsIn
  <2> QED
    BY <1>1, <2>1
<1> QED
  BY <1>1, <1>2

\* The positions it passes on its way.
LEMMA Prefix ==
  ASSUME NEW N \in Nat, NEW n \in 1..N
  PROVE  /\ 1..n \in SUBSET (1..N) /\ 1..n # {}
         /\ Max(1..n) = n /\ (1..n) \ {Max(1..n)} = 1..(n - 1)
<1>1. 1..n \in SUBSET (1..N) /\ 1..n # {} /\ n \in 1..n /\ n \in Nat
  OBVIOUS
<1>2. Max(1..n) = n
  BY <1>1, MaxUpTo
<1> QED
  BY <1>1, <1>2

\* Two such walks that agree at first agree.
LEMMA WalksAgree ==
  ASSUME NEW N \in Nat, NEW v, NEW w, v[0] = w[0],
         \A n \in 1..N : v[n - 1] = w[n - 1] => v[n] = w[n]
  PROVE  v[N] = w[N]
<1> DEFINE G == {n \in Nat : n <= N => v[n] = w[n]}
<1>1. 0 \in G
  OBVIOUS
<1>2. ASSUME NEW n \in Nat, n \in G PROVE n + 1 \in G
  BY <1>2
<1>3. Nat \subseteq G
  <2> HIDE DEF G
  <2> QED
    BY <1>1, <1>2, Induction
<1> QED
  BY <1>3

-----------------------------------------------------------------------------
(* The scan of a transcript *)

\* The provers do not know of a literal that it is a string.
Names == STRING \cup {"assistant", "user", "result", "unparseable", "success", "error", None}

Lines == [kind : Names, id : Nat, use : Nat, tool : Names, sub : Names, err : BOOLEAN]
Scans == [line : Lines, leak : BOOLEAN, text : STRING]

Partial(D, R) == UNION {[A -> R] : A \in SUBSET D}

\* A map stays one when a key is written.
LEMMA InsertType ==
  ASSUME NEW D, NEW R, NEW f \in Partial(D, R), NEW k \in D, NEW v \in R
  PROVE  Insert(f, k, v) \in Partial(D, R)
<1>1. PICK A \in SUBSET D : f \in [A -> R]
  BY DEF Partial
<1>2. Insert(f, k, v) \in [A \cup {k} -> R]
  BY <1>1 DEF Insert
<1> QED
  BY <1>2 DEF Partial

\* The empty map is one.
LEMMA EmptyType == ASSUME NEW D, NEW R PROVE <<>> \in Partial(D, R)
<1>1. <<>> \in [{} -> R]
  OBVIOUS
<1>2. {} \in SUBSET D
  OBVIOUS
<1> QED
  BY <1>1, <1>2 DEF Partial

Reports == {"forbidden", "read_item", "WebSearch"}
Found == [uses : Partial(Nat, Names), searches : Nat, found : Seq(Reports)]
NothingYet == [uses |-> <<>>, searches |-> 0, found |-> <<>>]

\* The scan keeps to its types.
LEMMA FindsType ==
  ASSUME NEW acc \in Found, NEW s \in Scans
  PROVE  Finds(acc, s) \in Found
<1>1. s.line.use \in Nat /\ s.line.tool \in Names
  BY DEF Scans, Lines
<1>2. Finds(acc, s).uses \in Partial(Nat, Names)
  BY <1>1, InsertType DEF Finds, Found
<1>3. Finds(acc, s).searches \in Nat
  BY DEF Finds, Found
<1>4. Finds(acc, s).found \in Seq(Reports)
  <2>1. acc.found \in Seq(Reports)
    BY DEF Found
  <2>2. <<"forbidden">> \in Seq(Reports) /\ <<"read_item">> \in Seq(Reports) /\ <<>> \in Seq(Reports)
    BY DEF Reports
  <2> QED
    BY <2>1, <2>2 DEF Finds
<1> QED
  BY <1>2, <1>3, <1>4 DEF Finds, Found

Walks(v, seen) ==
  /\ v[0] = NothingYet
  /\ \A n \in 1..Len(seen) : v[n] = Finds(v[n - 1], seen[n])

\* The scan goes through the lines in order.
LEMMA ScanWalks ==
  ASSUME NEW seen \in Seq(Scans)
  PROVE  \E v : Walks(v, seen) /\ Scan(seen) = v[Len(seen)]
<1> DEFINE N == Len(seen)
           step == [n \in 1..N |-> [acc \in Found |-> Finds(acc, seen[n])]]
           Is(it) == it = [S \in SUBSET DOMAIN seen |->
                             IF S = {} THEN NothingYet ELSE Finds(it[S \ {Max(S)}], seen[Max(S)])]
<1>1. N \in Nat /\ DOMAIN seen = 1..N /\ \A n \in 1..N : seen[n] \in Scans
  OBVIOUS
<1>2. NothingYet \in Found
  <2>1. <<>> \in Partial(Nat, Names) /\ <<>> \in Seq(Reports)
    BY EmptyType
  <2> QED
    BY <2>1 DEF NothingYet, Found
<1>3. step \in [1..N -> [Found -> Found]]
  BY <1>1, FindsType
<1>4. \E it : Is(it)
  <2> HIDE DEF step
  <2>1. PICK it : /\ FoldsBy(it, N, NothingYet, step)
                  /\ \A S \in SUBSET (1..N) : S # {} => Max(S) \in 1..N /\ it[S \ {Max(S)}] \in Found
    BY <1>1, <1>2, <1>3, FoldSteps
  <2>2. \A n \in 1..N, acc \in Found : step[n][acc] = Finds(acc, seen[n])
    BY DEF step
  <2>3. \A S \in SUBSET (1..N) :
          it[S] = IF S = {} THEN NothingYet ELSE Finds(it[S \ {Max(S)}], seen[Max(S)])
    BY <2>1, <2>2 DEF FoldsBy
  <2> QED
    BY <1>1, <2>1, <2>3 DEF FoldsBy
<1>5. PICK it : it = CHOOSE f : Is(f)
  OBVIOUS
<1>6. Is(it)
  BY <1>4, <1>5
<1>7. Scan(seen) = it[DOMAIN seen]
  BY <1>5 DEF Scan, FoldLeft, MapThenFoldSet, NothingYet
<1> DEFINE v == [n \in 0..N |-> it[1..n]]
<1>8. v[0] = NothingYet
  BY <1>1, <1>6
<1>9. ASSUME NEW n \in 1..N PROVE v[n] = Finds(v[n - 1], seen[n])
  <2>1. PICK S : S = 1..n
    OBVIOUS
  <2>2. S \in SUBSET (1..N) /\ S # {} /\ Max(S) = n /\ S \ {Max(S)} = 1..(n - 1)
    BY <1>1, <2>1, Prefix
  <2>3. it[S] = Finds(it[S \ {Max(S)}], seen[Max(S)])
    BY <1>1, <1>6, <2>2
  <2> QED
    BY <1>1, <2>1, <2>2, <2>3
<1>10. Scan(seen) = v[N]
  BY <1>1, <1>7
<1> QED
  BY <1>8, <1>9, <1>10 DEF Walks

AsksFor(seen, m, u) == IsCall(seen[m].line) /\ seen[m].line.use = u

\* Of the first n lines, m is the last that asked under this id.
IsLast(seen, m, n, u) ==
  m \in 1..n /\ AsksFor(seen, m, u) /\ \A k \in 1..n : AsksFor(seen, k, u) => k <= m

\* It answers a read_item with something else.
Fakes(seen, n) ==
  /\ seen[n].line.kind = "user" /\ ~seen[n].line.err /\ seen[n].text # "stored"
  /\ \E m \in 1..(n - 1) : IsLast(seen, m, n - 1, seen[n].line.use) /\ seen[m].line.tool = "read_item"

Offends(seen, n) == seen[n].leak \/ Fakes(seen, n)

SearchesUpTo(seen, n) == {m \in 1..n : IsSearch(seen[m].line)}

\* What is known after n lines.
KnowsUses(acc, seen, n) ==
  /\ \A u \in DOMAIN acc.uses :
       \E m \in 1..n : IsLast(seen, m, n, u) /\ acc.uses[u] = seen[m].line.tool
  /\ \A m \in 1..n : IsCall(seen[m].line) => seen[m].line.use \in DOMAIN acc.uses
Knows(acc, seen, n) ==
  /\ acc \in Found
  /\ KnowsUses(acc, seen, n)
  /\ acc.found = <<>> <=> \A m \in 1..n : ~Offends(seen, m)
  /\ acc.searches = Cardinality(SearchesUpTo(seen, n))

\* A line more: the last call under each id is known.
LEMMA StepUses ==
  ASSUME NEW seen \in Seq(Scans), NEW n \in 1..Len(seen), NEW acc, KnowsUses(acc, seen, n - 1)
  PROVE  KnowsUses(Finds(acc, seen[n]), seen, n)
<1> DEFINE new == Finds(acc, seen[n])
           use == seen[n].line.use
<1>1. CASE IsCall(seen[n].line)
  <2>1. new.uses = [k \in DOMAIN acc.uses \cup {use} |-> IF k = use THEN seen[n].line.tool ELSE acc.uses[k]]
    BY <1>1 DEF Finds, Insert
  <2>2. IsLast(seen, n, n, use)
    BY <1>1 DEF IsLast, AsksFor
  <2>3. ASSUME NEW u \in DOMAIN acc.uses, u # use
        PROVE  \E m \in 1..n : IsLast(seen, m, n, u) /\ acc.uses[u] = seen[m].line.tool
    <3>1. PICK m \in 1..(n - 1) : IsLast(seen, m, n - 1, u) /\ acc.uses[u] = seen[m].line.tool
      BY DEF KnowsUses
    <3>2. IsLast(seen, m, n, u)
      BY <2>3, <3>1 DEF IsLast, AsksFor
    <3> QED
      BY <3>1, <3>2
  <2>4. ASSUME NEW u \in DOMAIN new.uses
        PROVE  \E m \in 1..n : IsLast(seen, m, n, u) /\ new.uses[u] = seen[m].line.tool
    <3>1. CASE u = use
      BY <2>1, <2>2, <3>1
    <3>2. CASE u # use
      <4>1. u \in DOMAIN acc.uses /\ new.uses[u] = acc.uses[u]
        BY <2>1, <3>2
      <4> QED
        BY <2>3, <3>2, <4>1
    <3> QED
      BY <3>1, <3>2
  <2>5. ASSUME NEW m \in 1..n, IsCall(seen[m].line) PROVE seen[m].line.use \in DOMAIN new.uses
    BY <2>1, <2>5 DEF KnowsUses
  <2> QED
    BY <2>4, <2>5 DEF KnowsUses
<1>2. CASE ~IsCall(seen[n].line)
  <2>1. new.uses = acc.uses
    BY <1>2 DEF Finds
  <2>2. ASSUME NEW u, NEW m, IsLast(seen, m, n - 1, u) PROVE IsLast(seen, m, n, u) /\ m \in 1..n
    BY <1>2, <2>2 DEF IsLast, AsksFor
  <2>3. \A u \in DOMAIN acc.uses :
          \E m \in 1..n : IsLast(seen, m, n, u) /\ acc.uses[u] = seen[m].line.tool
    BY <2>2 DEF KnowsUses
  <2>4. \A m \in 1..n : IsCall(seen[m].line) => seen[m].line.use \in DOMAIN acc.uses
    BY <1>2 DEF KnowsUses
  <2> QED
    BY <2>1, <2>3, <2>4 DEF KnowsUses
<1> QED
  BY <1>1, <1>2

\* There is one last call.
LEMMA LastIsOne ==
  ASSUME NEW seen, NEW n \in Int, NEW u, NEW m, NEW k, IsLast(seen, m, n, u), IsLast(seen, k, n, u)
  PROVE  m = k
BY DEF IsLast

\* check_read_item judges by the last call under the id.
LEMMA ForeignFakes ==
  ASSUME NEW seen \in Seq(Scans), NEW n \in 1..Len(seen), NEW acc, KnowsUses(acc, seen, n - 1)
  PROVE  Foreign(acc.uses, seen[n]) <=> Fakes(seen, n)
<1> DEFINE use == seen[n].line.use
           early == use \in DOMAIN acc.uses /\ acc.uses[use] = "read_item"
<1>1. early <=> \E m \in 1..(n - 1) : IsLast(seen, m, n - 1, use) /\ seen[m].line.tool = "read_item"
  <2>1. ASSUME early
        PROVE  \E m \in 1..(n - 1) : IsLast(seen, m, n - 1, use) /\ seen[m].line.tool = "read_item"
    BY <2>1 DEF KnowsUses
  <2>2. ASSUME NEW m \in 1..(n - 1), IsLast(seen, m, n - 1, use), seen[m].line.tool = "read_item"
        PROVE  early
    <3>1. use \in DOMAIN acc.uses
      BY <2>2 DEF KnowsUses, IsLast, AsksFor
    <3>2. PICK k \in 1..(n - 1) : IsLast(seen, k, n - 1, use) /\ acc.uses[use] = seen[k].line.tool
      BY <3>1 DEF KnowsUses
    <3>3. k = m
      BY <2>2, <3>2, LastIsOne
    <3> QED
      BY <2>2, <3>1, <3>2, <3>3
  <2> QED
    BY <2>1, <2>2
<1> QED
  BY <1>1 DEF Foreign, Fakes

\* A line more: what is known stays true.
LEMMA StepKnows ==
  ASSUME NEW seen \in Seq(Scans), NEW n \in 1..Len(seen), NEW acc, Knows(acc, seen, n - 1)
  PROVE  Knows(Finds(acc, seen[n]), seen, n)
<1>1. acc \in Found /\ seen[n] \in Scans /\ KnowsUses(acc, seen, n - 1)
  BY DEF Knows
<1>2. Finds(acc, seen[n]) \in Found /\ KnowsUses(Finds(acc, seen[n]), seen, n)
  BY <1>1, FindsType, StepUses
<1>3. Finds(acc, seen[n]).found = <<>> <=> acc.found = <<>> /\ ~Offends(seen, n)
  <2>1. PICK x \in Seq(Reports) : x = acc.found
    BY <1>1 DEF Found
  <2>2. PICK y \in Seq(Reports) : /\ y = IF seen[n].leak THEN <<"forbidden">> ELSE <<>>
                                  /\ y = <<>> <=> ~seen[n].leak
    <3>1. <<"forbidden">> \in Seq(Reports) /\ <<>> \in Seq(Reports) /\ <<"forbidden">> # <<>>
      BY DEF Reports
    <3> QED
      BY <3>1
  <2>3. PICK z \in Seq(Reports) : /\ z = IF Foreign(acc.uses, seen[n]) THEN <<"read_item">> ELSE <<>>
                                  /\ z = <<>> <=> ~Foreign(acc.uses, seen[n])
    <3>1. <<"read_item">> \in Seq(Reports) /\ <<>> \in Seq(Reports) /\ <<"read_item">> # <<>>
      BY DEF Reports
    <3> QED
      BY <3>1
  <2>4. Finds(acc, seen[n]).found = (x \o y) \o z
    BY <2>1, <2>2, <2>3 DEF Finds
  <2>5. (x \o y) \o z = <<>> <=> x = <<>> /\ y = <<>> /\ z = <<>>
    OBVIOUS
  <2> QED
    BY <1>1, <2>1, <2>2, <2>3, <2>4, <2>5, ForeignFakes DEF Offends
<1>4. (\A m \in 1..n : ~Offends(seen, m)) <=> (\A m \in 1..(n - 1) : ~Offends(seen, m)) /\ ~Offends(seen, n)
  OBVIOUS
<1>5. Finds(acc, seen[n]).searches = Cardinality(SearchesUpTo(seen, n))
  <2>1. IsFiniteSet(SearchesUpTo(seen, n - 1))
    <3>1. IsFiniteSet(1..(n - 1)) /\ SearchesUpTo(seen, n - 1) \subseteq 1..(n - 1)
      BY FS_Interval DEF SearchesUpTo
    <3> QED
      BY <3>1, FS_Subset
  <2>2. CASE IsSearch(seen[n].line)
    <3>1. SearchesUpTo(seen, n) = SearchesUpTo(seen, n - 1) \cup {n} /\ n \notin SearchesUpTo(seen, n - 1)
      BY <2>2 DEF SearchesUpTo
    <3>2. Cardinality(SearchesUpTo(seen, n)) = Cardinality(SearchesUpTo(seen, n - 1)) + 1
      BY <2>1, <3>1, FS_AddElement
    <3> QED
      BY <2>2, <3>2 DEF Finds, Knows
  <2>3. CASE ~IsSearch(seen[n].line)
    <3>1. SearchesUpTo(seen, n) = SearchesUpTo(seen, n - 1)
      BY <2>3 DEF SearchesUpTo
    <3> QED
      BY <2>3, <3>1 DEF Finds, Knows
  <2> QED
    BY <2>2, <2>3
<1> QED
  BY <1>2, <1>3, <1>4, <1>5 DEF Knows

\* Before the first line.
LEMMA KnowsNothing == ASSUME NEW seen PROVE Knows(NothingYet, seen, 0)
<1>1. NothingYet \in Found
  <2>1. <<>> \in Partial(Nat, Names) /\ <<>> \in Seq(Reports)
    BY EmptyType
  <2> QED
    BY <2>1 DEF NothingYet, Found
<1>2. 1..0 = {} /\ DOMAIN NothingYet.uses = {} /\ NothingYet.found = <<>> /\ NothingYet.searches = 0
  BY DEF NothingYet
<1>3. SearchesUpTo(seen, 0) = {}
  BY <1>2 DEF SearchesUpTo
<1>4. Cardinality(SearchesUpTo(seen, 0)) = 0
  BY <1>3, FS_EmptySet
<1> QED
  BY <1>1, <1>2, <1>4 DEF Knows, KnowsUses

\* After each line, and after all.
LEMMA ScanKnows ==
  ASSUME NEW seen \in Seq(Scans)
  PROVE  /\ Knows(Scan(seen), seen, Len(seen))
         /\ \A n \in 0..Len(seen) : \E acc : Knows(acc, seen, n)
<1>1. PICK v : Walks(v, seen) /\ Scan(seen) = v[Len(seen)]
  BY ScanWalks
<1> DEFINE G == {n \in Nat : n <= Len(seen) => Knows(v[n], seen, n)}
<1>2. 0 \in G
  BY <1>1, KnowsNothing DEF Walks
<1>3. ASSUME NEW n \in Nat, n \in G PROVE n + 1 \in G
  <2>1. SUFFICES ASSUME n + 1 <= Len(seen) PROVE Knows(v[n + 1], seen, n + 1)
    OBVIOUS
  <2>2. PICK m : m = n + 1 /\ m \in 1..Len(seen) /\ m - 1 = n
    BY <2>1
  <2>3. Knows(v[m - 1], seen, m - 1)
    BY <1>3, <2>2
  <2>4. v[m] = Finds(v[m - 1], seen[m])
    BY <1>1, <2>2 DEF Walks
  <2>5. Knows(v[m], seen, m)
    BY <2>2, <2>3, <2>4, StepKnows
  <2> QED
    BY <2>2, <2>5
<1>4. Nat \subseteq G
  <2> HIDE DEF G
  <2> QED
    BY <1>2, <1>3, Induction
<1>5. Len(seen) \in Nat
  BY LenProperties, SMTT(20)
<1> QED
  BY <1>1, <1>4, <1>5

\* What Clean says of the last call before line n.
LEMMA CleanLine ==
  ASSUME NEW seen \in Seq(Scans), NEW n \in 1..Len(seen),
         NEW asked, asked = {m \in 1..n - 1 : IsCall(seen[m].line) /\ seen[m].line.use = seen[n].line.use},
         NEW acc, KnowsUses(acc, seen, n - 1)
  PROVE  Fakes(seen, n) <=>
           ~(seen[n].line.kind = "user" /\ ~seen[n].line.err /\ asked # {}
             /\ seen[CHOOSE m \in asked : \A k \in asked : k <= m].line.tool = "read_item"
             => seen[n].text = "stored")
<1> DEFINE use == seen[n].line.use
           Greatest(m) == m \in asked /\ \A k \in asked : k <= m
<1>1. \A m : Greatest(m) <=> IsLast(seen, m, n - 1, use)
  BY DEF IsLast, AsksFor
<1>2. CASE asked = {}
  <2>1. \A m : ~IsLast(seen, m, n - 1, use)
    BY <1>1, <1>2
  <2> QED
    BY <1>2, <2>1 DEF Fakes
<1>3. CASE asked # {}
  <2>1. PICK j \in 1..(n - 1) : IsCall(seen[j].line) /\ seen[j].line.use = use
    BY <1>3
  <2>2. use \in DOMAIN acc.uses
    BY <2>1 DEF KnowsUses
  <2>3. PICK m \in 1..(n - 1) : IsLast(seen, m, n - 1, use)
    BY <2>2 DEF KnowsUses
  <2>4. Greatest(m) /\ \A k : Greatest(k) => k = m
    BY <1>1, <2>3, LastIsOne
  <2>5. (CHOOSE k \in asked : \A i \in asked : i <= k) = m
    BY <2>4
  <2>6. \A k : IsLast(seen, k, n - 1, use) <=> k = m
    BY <1>1, <2>3, <2>4
  <2> QED
    BY <1>3, <2>3, <2>5, <2>6 DEF Fakes
<1> QED
  BY <1>2, <1>3

\* Whatever a transcript holds, in whatever order its calls and results stand and however
\* often a use id is given again, the exit code of scan-transcript is 0 exactly when no
\* line and no stored error carries what is forbidden, no read_item was answered with
\* anything but the stored text, and the searches are within the cap.
THEOREM ScanIsExact ==
  ASSUME NEW seen \in Seq(Scans), NEW cap \in Nat, NEW leaks \in BOOLEAN
  PROVE  ScanTranscript(seen, cap, leaks) = 0 <=> Clean(seen, cap) /\ ~leaks
<1> DEFINE Asked(n) == {m \in 1..n - 1 : IsCall(seen[m].line) /\ seen[m].line.use = seen[n].line.use}
           Answered(n) == seen[n].line.kind = "user" /\ ~seen[n].line.err /\ Asked(n) # {}
             /\ seen[CHOOSE m \in Asked(n) : \A k \in Asked(n) : k <= m].line.tool = "read_item"
             => seen[n].text = "stored"
<1>1. Knows(Scan(seen), seen, Len(seen)) /\ Len(seen) \in Nat /\ DOMAIN seen = 1..Len(seen)
  BY ScanKnows
<1>2. ASSUME NEW n \in 1..Len(seen) PROVE Fakes(seen, n) <=> ~Answered(n)
  <2>1. PICK acc : KnowsUses(acc, seen, n - 1)
    BY ScanKnows, SMTT(20) DEF Knows
  <2>2. PICK asked : asked = Asked(n)
    OBVIOUS
  <2> QED
    BY <2>1, <2>2, CleanLine
<1>3. Clean(seen, cap) <=> /\ \A n \in 1..Len(seen) : ~seen[n].leak
                           /\ \A n \in 1..Len(seen) : Answered(n)
                           /\ Cardinality(SearchesUpTo(seen, Len(seen))) <= cap
  BY <1>1 DEF Clean, SearchesUpTo
<1> HIDE DEF Answered
<1>4. Clean(seen, cap) <=> /\ \A n \in 1..Len(seen) : ~Offends(seen, n)
                           /\ Cardinality(SearchesUpTo(seen, Len(seen))) <= cap
  BY <1>2, <1>3 DEF Offends
<1>5. Findings(seen, cap) = <<>> <=> Scan(seen).found = <<>> /\ ~(Scan(seen).searches > cap)
  <2>1. Scan(seen).found \in Seq(Reports)
    BY <1>1 DEF Knows, Found
  <2>2. PICK x \in Seq(Reports) : x = Scan(seen).found
    BY <2>1
  <2>3. PICK y \in Seq(Reports) : /\ y = IF Scan(seen).searches > cap THEN <<"WebSearch">> ELSE <<>>
                                  /\ y = <<>> <=> ~(Scan(seen).searches > cap)
    <3>1. <<"WebSearch">> \in Seq(Reports) /\ <<>> \in Seq(Reports) /\ <<"WebSearch">> # <<>>
      BY DEF Reports
    <3> QED
      BY <3>1
  <2>4. Findings(seen, cap) = x \o y
    BY <2>2, <2>3 DEF Findings
  <2>5. x \o y = <<>> <=> x = <<>> /\ y = <<>>
    OBVIOUS
  <2> QED
    BY <2>2, <2>3, <2>4, <2>5
<1>6. Scan(seen).searches \in Nat /\ Scan(seen).searches = Cardinality(SearchesUpTo(seen, Len(seen)))
  BY <1>1 DEF Knows, Found
<1>7. Scan(seen).found = <<>> <=> \A n \in 1..Len(seen) : ~Offends(seen, n)
  BY <1>1 DEF Knows
<1> QED
  BY <1>4, <1>5, <1>6, <1>7 DEF ScanTranscript

-----------------------------------------------------------------------------
(* fold_turns and caps_used *)

Turn == [id : Nat, tools : Seq(Names), failed : Seq(Names)]
Asker == [turn : Nat, tool : Names]
Folded == [turns : Seq(Turn), by : Partial(Nat, Asker), open : Nat]

\* A turn stays one with a tool more.
LEMMA TurnGrows ==
  ASSUME NEW t \in Turn, NEW x \in Names
  PROVE  Calling(t, x) \in Turn /\ Failing(t, x) \in Turn
<1>1. t.id \in Nat /\ t.tools \in Seq(Names) /\ t.failed \in Seq(Names)
  BY DEF Turn
<1>2. Append(t.tools, x) \in Seq(Names) /\ Append(t.failed, x) \in Seq(Names)
  BY <1>1
<1> QED
  BY <1>1, <1>2 DEF Turn, Calling, Failing

\* The nth turn is replaced, if there is one.
LEMMA TurnReplaced ==
  ASSUME NEW turns \in Seq(Turn), NEW n, NEW t, n \in DOMAIN turns => t \in Turn
  PROVE  [turns EXCEPT ![n] = t] \in Seq(Turn)
<1>1. CASE n \in DOMAIN turns
  BY <1>1
<1>2. CASE n \notin DOMAIN turns
  <2>1. [turns EXCEPT ![n] = t] = turns
    BY <1>2
  <2> QED
    BY <2>1
<1> QED
  BY <1>1, <1>2

\* A turn begins with none.
LEMMA OpenedType ==
  ASSUME NEW id \in Nat
  PROVE  Opened(id) \in Turn
<1>1. <<>> \in Seq(Names)
  OBVIOUS
<1> QED
  BY <1>1 DEF Turn, Opened

\* An assistant line keeps to the types.
LEMMA SpokenType ==
  ASSUME NEW acc \in Folded, NEW l \in Lines
  PROVE  Spoken(acc, l) \in Folded
<1>1. acc.turns \in Seq(Turn) /\ acc.by \in Partial(Nat, Asker) /\ acc.open \in Nat
  BY DEF Folded
<1>2. l.id \in Nat /\ l.use \in Nat /\ l.tool \in Names
  BY DEF Lines
<1>3. PICK turns \in Seq(Turn) :
        turns = IF acc.open # 0 /\ acc.open = l.id THEN acc.turns ELSE Append(acc.turns, Opened(l.id))
  <2>1. Append(acc.turns, Opened(l.id)) \in Seq(Turn)
    BY <1>1, <1>2, OpenedType
  <2> QED
    BY <1>1, <2>1
<1>4. PICK n \in Nat : n = Len(turns)
  BY <1>3
<1>5. Spoken(acc, l).turns = IF l.tool = None THEN turns ELSE [turns EXCEPT ![n] = Calling(@, l.tool)]
  BY <1>3, <1>4 DEF Spoken
<1>6. Spoken(acc, l).by = IF l.tool = None THEN acc.by ELSE Insert(acc.by, l.use, [turn |-> n, tool |-> l.tool])
  BY <1>3, <1>4 DEF Spoken
<1>7. Spoken(acc, l).turns \in Seq(Turn)
  <2>1. n \in DOMAIN turns => Calling(turns[n], l.tool) \in Turn
    <3>1. n \in DOMAIN turns => turns[n] \in Turn
      BY <1>3
    <3> QED
      BY <1>2, <3>1, TurnGrows
  <2>2. [turns EXCEPT ![n] = Calling(@, l.tool)] \in Seq(Turn)
    BY <1>3, <2>1, TurnReplaced
  <2> QED
    BY <1>3, <1>5, <2>2
<1>8. Spoken(acc, l).by \in Partial(Nat, Asker)
  <2>1. PICK e \in Asker : e = [turn |-> n, tool |-> l.tool]
    BY <1>2, <1>4 DEF Asker
  <2>2. Insert(acc.by, l.use, e) \in Partial(Nat, Asker)
    BY <1>1, <1>2, <2>1, InsertType
  <2> QED
    BY <1>1, <1>6, <2>1, <2>2
<1>9. Spoken(acc, l).open \in Nat
  BY <1>1, <1>2 DEF Spoken, OpenAfter
<1> QED
  <2>1. Spoken(acc, l) = [turns |-> Spoken(acc, l).turns, by |-> Spoken(acc, l).by, open |-> Spoken(acc, l).open]
    BY DEF Spoken
  <2> QED
    BY <1>7, <1>8, <1>9, <2>1 DEF Folded

\* So does a result.
LEMMA CreditedType ==
  ASSUME NEW acc \in Folded, NEW l \in Lines
  PROVE  Credited(acc, l) \in Folded
<1>1. acc.turns \in Seq(Turn) /\ acc.by \in Partial(Nat, Asker) /\ acc.open \in Nat
  BY DEF Folded
<1>2. l.id \in Nat
  BY DEF Lines
<1>3. Credited(acc, l).turns \in Seq(Turn)
  <2>1. ASSUME l.use \in DOMAIN acc.by
        PROVE  [acc.turns EXCEPT ![acc.by[l.use].turn] = Failing(@, acc.by[l.use].tool)] \in Seq(Turn)
    <3>1. PICK A \in SUBSET Nat : acc.by \in [A -> Asker]
      BY <1>1 DEF Partial
    <3>2. acc.by[l.use] \in Asker
      BY <2>1, <3>1
    <3>3. acc.by[l.use].tool \in Names
      BY <3>2 DEF Asker
    <3>4. PICK n, x : n = acc.by[l.use].turn /\ x = acc.by[l.use].tool
      OBVIOUS
    <3>5. n \in DOMAIN acc.turns => Failing(acc.turns[n], x) \in Turn
      <4>1. n \in DOMAIN acc.turns => acc.turns[n] \in Turn
        BY <1>1
      <4>2. x \in Names
        BY <3>3, <3>4
      <4> QED
        BY <4>1, <4>2, TurnGrows
    <3>6. [acc.turns EXCEPT ![n] = Failing(@, x)] \in Seq(Turn)
      BY <1>1, <3>5, TurnReplaced
    <3> QED
      BY <3>4, <3>6
  <2> QED
    BY <1>1, <2>1 DEF Credited
<1>4. Credited(acc, l).open \in Nat /\ Credited(acc, l).by = acc.by
  BY <1>1, <1>2 DEF Credited, OpenAfter
<1> QED
  <2>1. Credited(acc, l) = [turns |-> Credited(acc, l).turns, by |-> acc.by, open |-> Credited(acc, l).open]
    BY DEF Credited
  <2> QED
    BY <1>1, <1>3, <1>4, <2>1 DEF Folded

\* So does every line.
LEMMA FoldType ==
  ASSUME NEW acc \in Folded, NEW l \in Lines
  PROVE  Fold(acc, l) \in Folded
BY SpokenType, CreditedType DEF Fold

\* The fold begins with no turns.
LEMMA NoTurnsType == NoTurns \in Folded
<1>1. <<>> \in Partial(Nat, Asker) /\ <<>> \in Seq(Turn)
  BY EmptyType
<1> QED
  BY <1>1 DEF NoTurns, Folded

Folds(v, lines) ==
  /\ v[0] = NoTurns
  /\ \A n \in 1..Len(lines) : v[n] = Fold(v[n - 1], lines[n])

\* The fold goes through the lines in order.
LEMMA TurnedWalks ==
  ASSUME NEW lines \in Seq(Lines)
  PROVE  \E v : Folds(v, lines) /\ Turned(lines) = v[Len(lines)]
<1> DEFINE N == Len(lines)
           step == [n \in 1..N |-> [acc \in Folded |-> Fold(acc, lines[n])]]
           Is(it) == it = [S \in SUBSET DOMAIN lines |->
                             IF S = {} THEN NoTurns ELSE Fold(it[S \ {Max(S)}], lines[Max(S)])]
<1>1. N \in Nat /\ DOMAIN lines = 1..N /\ \A n \in 1..N : lines[n] \in Lines
  OBVIOUS
<1>2. NoTurns \in Folded
  BY NoTurnsType
<1>3. step \in [1..N -> [Folded -> Folded]]
  BY <1>1, FoldType
<1>4. \E it : Is(it)
  <2> HIDE DEF step
  <2>1. PICK it : /\ FoldsBy(it, N, NoTurns, step)
                  /\ \A S \in SUBSET (1..N) : S # {} => Max(S) \in 1..N /\ it[S \ {Max(S)}] \in Folded
    BY <1>1, <1>2, <1>3, FoldSteps
  <2>2. \A n \in 1..N, acc \in Folded : step[n][acc] = Fold(acc, lines[n])
    BY DEF step
  <2>3. \A S \in SUBSET (1..N) :
          it[S] = IF S = {} THEN NoTurns ELSE Fold(it[S \ {Max(S)}], lines[Max(S)])
    BY <2>1, <2>2 DEF FoldsBy
  <2> QED
    BY <1>1, <2>1, <2>3 DEF FoldsBy
<1>5. PICK it : it = CHOOSE f : Is(f)
  OBVIOUS
<1>6. Is(it)
  BY <1>4, <1>5
<1>7. Turned(lines) = it[DOMAIN lines]
  BY <1>5 DEF Turned, FoldLeft, MapThenFoldSet
<1> DEFINE v == [n \in 0..N |-> it[1..n]]
<1>8. v[0] = NoTurns
  BY <1>1, <1>6
<1>9. ASSUME NEW n \in 1..N PROVE v[n] = Fold(v[n - 1], lines[n])
  <2>1. PICK S : S = 1..n
    OBVIOUS
  <2>2. S \in SUBSET (1..N) /\ S # {} /\ Max(S) = n /\ S \ {Max(S)} = 1..(n - 1)
    BY <1>1, <2>1, Prefix
  <2>3. it[S] = Fold(it[S \ {Max(S)}], lines[Max(S)])
    BY <1>1, <1>6, <2>2
  <2>4. v[n] = it[1..n] /\ v[n - 1] = it[1..(n - 1)]
    BY <1>1
  <2> HIDE DEF v
  <2> QED
    BY <2>1, <2>2, <2>3, <2>4
<1>10. Turned(lines) = v[N]
  BY <1>1, <1>7
<1> QED
  BY <1>8, <1>9, <1>10 DEF Folds

\* Of no lines it makes nothing.
LEMMA TurnedEmpty == Turned(<<>>) = NoTurns
<1>1. <<>> \in Seq(Lines) /\ Len(<<>>) = 0
  OBVIOUS
<1> QED
  BY <1>1, TurnedWalks DEF Folds

\* One line more is one step more.
LEMMA TurnedAppend ==
  ASSUME NEW lines \in Seq(Lines), NEW l \in Lines
  PROVE  Turned(Append(lines, l)) = Fold(Turned(lines), l)
<1> DEFINE N == Len(lines)
           more == Append(lines, l)
<1>1. more \in Seq(Lines) /\ Len(more) = N + 1 /\ N \in Nat /\ more[N + 1] = l
      /\ \A n \in 1..N : more[n] = lines[n]
  OBVIOUS
<1>2. PICK v : Folds(v, lines) /\ Turned(lines) = v[N]
  BY TurnedWalks
<1>3. PICK w : Folds(w, more) /\ Turned(more) = w[N + 1]
  BY <1>1, TurnedWalks
<1> HIDE DEF more
<1>4. v[0] = w[0]
  BY <1>2, <1>3 DEF Folds
<1>5. \A n \in 1..N : v[n - 1] = w[n - 1] => v[n] = w[n]
  BY <1>1, <1>2, <1>3 DEF Folds
<1>6. v[N] = w[N]
  BY <1>1, <1>4, <1>5, WalksAgree
<1>7. w[N + 1] = Fold(w[N], l)
  <2>1. N + 1 \in 1..Len(more) /\ (N + 1) - 1 = N
    BY <1>1
  <2> QED
    BY <1>1, <1>3, <2>1 DEF Folds
<1> QED
  BY <1>2, <1>3, <1>6, <1>7 DEF more

\* What was made of any transcript is a list of turns.
LEMMA TurnedType ==
  ASSUME NEW lines \in Seq(Lines)
  PROVE  Turned(lines) \in Folded
<1>1. PICK v : Folds(v, lines) /\ Turned(lines) = v[Len(lines)]
  BY TurnedWalks
<1> DEFINE G == {n \in Nat : n <= Len(lines) => v[n] \in Folded}
<1>2. 0 \in G
  BY <1>1, NoTurnsType DEF Folds
<1>3. ASSUME NEW n \in Nat, n \in G PROVE n + 1 \in G
  <2>1. SUFFICES ASSUME n + 1 <= Len(lines) PROVE v[n + 1] \in Folded
    OBVIOUS
  <2>2. PICK m : m = n + 1 /\ m \in 1..Len(lines) /\ m - 1 = n
    BY <2>1
  <2>3. v[m] = Fold(v[m - 1], lines[m]) /\ lines[m] \in Lines /\ v[m - 1] \in Folded
    BY <1>1, <1>3, <2>1, <2>2 DEF Folds
  <2> QED
    BY <2>2, <2>3, FoldType
<1>4. Nat \subseteq G
  <2> HIDE DEF G
  <2> QED
    BY <1>2, <1>3, Induction
<1>5. Len(lines) \in Nat
  OBVIOUS
<1> QED
  BY <1>1, <1>4, <1>5

ListsOf(turns) == [n \in DOMAIN turns |-> turns[n].tools]
FailsOf(turns) == [n \in DOMAIN turns |-> turns[n].failed]

\* A tool stands k times in the lists.
Stands(lists, t, k) == IsFiniteSet(Places(lists, t)) /\ Listed(lists, t) = k

\* A place is a list and a position in it.
LEMMA PlacesAre ==
  ASSUME NEW lists, NEW t, NEW p
  PROVE  p \in Places(lists, t) <=>
           \E n \in DOMAIN lists : \E i \in DOMAIN lists[n] : p = <<n, i>> /\ lists[n][i] = t
BY DEF Places

\* In no lists nothing stands.
LEMMA NothingStands == ASSUME NEW t PROVE Stands(<<>>, t, 0)
<1>1. \A p : p \notin Places(<<>>, t)
  BY PlacesAre
<1>2. Places(<<>>, t) = {}
  BY <1>1
<1> QED
  BY <1>2, FS_EmptySet DEF Stands, Listed

\* An empty list more changes nothing.
LEMMA EmptyListMore ==
  ASSUME NEW S, NEW lists \in Seq(Seq(S)), NEW t, NEW k, Stands(lists, t, k),
         NEW more, DOMAIN more = 1..Len(lists) + 1, more[Len(lists) + 1] = <<>>,
         \A n \in DOMAIN lists : more[n] = lists[n]
  PROVE  Stands(more, t, k)
<1>0. DOMAIN lists = 1..Len(lists) /\ Len(lists) \in Nat
  OBVIOUS
<1>1. \A p : p \in Places(more, t) <=> p \in Places(lists, t)
  <2>1. DOMAIN more[Len(lists) + 1] = {}
    OBVIOUS
  <2>2. DOMAIN more = DOMAIN lists \cup {Len(lists) + 1}
    BY <1>0
  <2>3. SUFFICES ASSUME NEW p PROVE p \in Places(more, t) <=> p \in Places(lists, t)
    OBVIOUS
  <2> DEFINE At(l, n) == \E i \in DOMAIN l[n] : p = <<n, i>> /\ l[n][i] = t
  <2>4. \A n \in DOMAIN lists : At(more, n) <=> At(lists, n)
    OBVIOUS
  <2>5. ~At(more, Len(lists) + 1)
    BY <2>1
  <2>6. p \in Places(more, t) <=> \E n \in DOMAIN more : At(more, n)
    BY PlacesAre
  <2>7. p \in Places(lists, t) <=> \E n \in DOMAIN lists : At(lists, n)
    BY PlacesAre
  <2> HIDE DEF At
  <2> QED
    BY <2>2, <2>4, <2>5, <2>6, <2>7
<1>2. Places(more, t) = Places(lists, t)
  BY <1>1
<1> QED
  BY <1>2 DEF Stands, Listed

\* A list that gets one more.
LEMMA OneMore ==
  ASSUME NEW S, NEW lists \in Seq(Seq(S)), NEW t, NEW k, Stands(lists, t, k),
         NEW m \in DOMAIN lists, NEW x \in S,
         NEW more, DOMAIN more = DOMAIN lists, more[m] = Append(lists[m], x),
         \A n \in DOMAIN lists \ {m} : more[n] = lists[n]
  PROVE  Stands(more, t, IF x = t THEN k + 1 ELSE k)
<1>1. PICK len \in Nat : len = Len(lists[m]) /\ DOMAIN lists[m] = 1..len
  OBVIOUS
<1>2. /\ DOMAIN more[m] = 1..len + 1 /\ more[m][len + 1] = x
      /\ \A i \in 1..len : more[m][i] = lists[m][i]
  BY <1>1
<1>3. ASSUME NEW p
      PROVE  p \in Places(more, t) <=> p \in Places(lists, t) \/ (x = t /\ p = <<m, len + 1>>)
  <2>1. ASSUME NEW n \in DOMAIN lists \ {m}
        PROVE  more[n] = lists[n]
    OBVIOUS
  <2>2. (\E i \in DOMAIN more[m] : p = <<m, i>> /\ more[m][i] = t) <=>
          (\E i \in DOMAIN lists[m] : p = <<m, i>> /\ lists[m][i] = t) \/ (x = t /\ p = <<m, len + 1>>)
    BY <1>1, <1>2
  <2> QED
    BY <2>1, <2>2, PlacesAre
<1>4. <<m, len + 1>> \notin Places(lists, t)
  BY <1>1, PlacesAre
<1>5. CASE x = t
  <2>1. Places(more, t) = Places(lists, t) \cup {<<m, len + 1>>}
    BY <1>3, <1>5
  <2> QED
    BY <1>4, <1>5, <2>1, FS_AddElement DEF Stands, Listed
<1>6. CASE x # t
  <2>1. Places(more, t) = Places(lists, t)
    BY <1>3, <1>6
  <2> QED
    BY <1>6, <2>1 DEF Stands, Listed
<1> QED
  BY <1>5, <1>6

\* Both lists of the turns.
Tallies(turns, t, called, failed) ==
  Stands(ListsOf(turns), t, called) /\ Stands(FailsOf(turns), t, failed)

\* The lists of the turns.
LEMMA ListsType ==
  ASSUME NEW turns \in Seq(Turn)
  PROVE  /\ ListsOf(turns) \in Seq(Seq(Names)) /\ FailsOf(turns) \in Seq(Seq(Names))
         /\ Len(ListsOf(turns)) = Len(turns) /\ Len(FailsOf(turns)) = Len(turns)
         /\ DOMAIN ListsOf(turns) = DOMAIN turns /\ DOMAIN FailsOf(turns) = DOMAIN turns
<1>1. DOMAIN turns = 1..Len(turns) /\ Len(turns) \in Nat
  OBVIOUS
<1>2. \A n \in DOMAIN turns : turns[n].tools \in Seq(Names) /\ turns[n].failed \in Seq(Names)
  <2>1. \A n \in DOMAIN turns : turns[n] \in Turn
    OBVIOUS
  <2> QED
    BY <2>1 DEF Turn
<1>3. ListsOf(turns) \in [1..Len(turns) -> Seq(Names)] /\ FailsOf(turns) \in [1..Len(turns) -> Seq(Names)]
  BY <1>1, <1>2 DEF ListsOf, FailsOf
<1>4. ASSUME NEW n \in Nat, NEW f \in [1..n -> Seq(Names)]
      PROVE  f \in Seq(Seq(Names)) /\ Len(f) = n /\ DOMAIN f = 1..n
  OBVIOUS
<1> QED
  BY <1>1, <1>3, <1>4, Zenon

\* A new turn lists nothing.
LEMMA TurnMore ==
  ASSUME NEW turns \in Seq(Turn), NEW id \in Nat, NEW t, NEW c, NEW f, Tallies(turns, t, c, f)
  PROVE  Tallies(Append(turns, Opened(id)), t, c, f)
<1>1. PICK more \in Seq(Turn) : more = Append(turns, Opened(id))
  <2>1. PICK new \in Turn : new = Opened(id)
    BY OpenedType
  <2>2. Append(turns, new) \in Seq(Turn)
    OBVIOUS
  <2> QED
    BY <2>1, <2>2
<1>2. /\ DOMAIN more = 1..Len(turns) + 1 /\ more[Len(turns) + 1] = Opened(id)
      /\ \A n \in DOMAIN turns : more[n] = turns[n] /\ n \in DOMAIN more
  BY <1>1
<1>3. /\ DOMAIN ListsOf(more) = 1..Len(turns) + 1 /\ ListsOf(more)[Len(turns) + 1] = <<>>
      /\ \A n \in DOMAIN turns : ListsOf(more)[n] = ListsOf(turns)[n]
  BY <1>2 DEF ListsOf, Opened
<1>4. /\ DOMAIN FailsOf(more) = 1..Len(turns) + 1 /\ FailsOf(more)[Len(turns) + 1] = <<>>
      /\ \A n \in DOMAIN turns : FailsOf(more)[n] = FailsOf(turns)[n]
  BY <1>2 DEF FailsOf, Opened
<1>5. Stands(ListsOf(more), t, c)
  BY <1>3, ListsType, EmptyListMore DEF Tallies
<1>6. Stands(FailsOf(more), t, f)
  BY <1>4, ListsType, EmptyListMore DEF Tallies
<1> QED
  BY <1>1, <1>5, <1>6 DEF Tallies

\* A call is listed once.
LEMMA CallMore ==
  ASSUME NEW turns \in Seq(Turn), NEW n \in DOMAIN turns, NEW x \in Names,
         NEW t, NEW c, NEW f, Tallies(turns, t, c, f)
  PROVE  Tallies([turns EXCEPT ![n] = Calling(@, x)], t, IF x = t THEN c + 1 ELSE c, f)
<1>1. PICK more : more = [turns EXCEPT ![n] = Calling(@, x)]
  OBVIOUS
<1>2. /\ DOMAIN more = DOMAIN turns /\ more[n] = Calling(turns[n], x)
      /\ \A i \in DOMAIN turns \ {n} : more[i] = turns[i]
  BY <1>1
<1>3. more[n].tools = Append(turns[n].tools, x) /\ more[n].failed = turns[n].failed
  BY <1>2 DEF Calling
<1>4. /\ DOMAIN ListsOf(more) = DOMAIN ListsOf(turns) /\ ListsOf(more)[n] = Append(ListsOf(turns)[n], x)
      /\ \A i \in DOMAIN ListsOf(turns) \ {n} : ListsOf(more)[i] = ListsOf(turns)[i]
  BY <1>2, <1>3 DEF ListsOf
<1>5. FailsOf(more) = FailsOf(turns)
  BY <1>2, <1>3 DEF FailsOf
<1>6. Stands(ListsOf(more), t, IF x = t THEN c + 1 ELSE c)
  <2>1. PICK lists \in Seq(Seq(Names)) : lists = ListsOf(turns) /\ n \in DOMAIN lists /\ Stands(lists, t, c)
    BY ListsType DEF Tallies
  <2>2. PICK grown : grown = ListsOf(more)
    OBVIOUS
  <2> QED
    BY <1>4, <2>1, <2>2, OneMore
<1> QED
  BY <1>1, <1>5, <1>6 DEF Tallies

\* A failure is listed once.
LEMMA FailMore ==
  ASSUME NEW turns \in Seq(Turn), NEW n \in DOMAIN turns, NEW x \in Names,
         NEW t, NEW c, NEW f, Tallies(turns, t, c, f)
  PROVE  Tallies([turns EXCEPT ![n] = Failing(@, x)], t, c, IF x = t THEN f + 1 ELSE f)
<1>1. PICK more : more = [turns EXCEPT ![n] = Failing(@, x)]
  OBVIOUS
<1>2. /\ DOMAIN more = DOMAIN turns /\ more[n] = Failing(turns[n], x)
      /\ \A i \in DOMAIN turns \ {n} : more[i] = turns[i]
  BY <1>1
<1>3. more[n].failed = Append(turns[n].failed, x) /\ more[n].tools = turns[n].tools
  BY <1>2 DEF Failing
<1>4. /\ DOMAIN FailsOf(more) = DOMAIN FailsOf(turns) /\ FailsOf(more)[n] = Append(FailsOf(turns)[n], x)
      /\ \A i \in DOMAIN FailsOf(turns) \ {n} : FailsOf(more)[i] = FailsOf(turns)[i]
  BY <1>2, <1>3 DEF FailsOf
<1>5. ListsOf(more) = ListsOf(turns)
  BY <1>2, <1>3 DEF ListsOf
<1>6. Stands(FailsOf(more), t, IF x = t THEN f + 1 ELSE f)
  <2>1. PICK lists \in Seq(Seq(Names)) : lists = FailsOf(turns) /\ n \in DOMAIN lists /\ Stands(lists, t, f)
    BY ListsType DEF Tallies
  <2>2. PICK grown : grown = FailsOf(more)
    OBVIOUS
  <2> QED
    BY <1>4, <2>1, <2>2, OneMore
<1> QED
  BY <1>1, <1>5, <1>6 DEF Tallies

\* What is tallied is what the page counts.
LEMMA TalliesCount ==
  ASSUME NEW turns, NEW t, NEW c, NEW f, Tallies(turns, t, c, f)
  PROVE  Called(turns, t) = c /\ Failed(turns, t) = f
BY DEF Tallies, Stands, ListsOf, FailsOf, Called, Failed

\* A line of the open message or of the next one.
LEMMA SpokenCounts ==
  ASSUME NEW acc \in Folded, NEW l \in Lines, l.kind = "assistant", l.id # 0,
         acc.open = Len(acc.turns), l.id \in {acc.open, acc.open + 1},
         NEW t, t # None, NEW c, NEW f, Tallies(acc.turns, t, c, f)
  PROVE  /\ Len(Fold(acc, l).turns) = l.id /\ Fold(acc, l).open = l.id
         /\ Fold(acc, l).by = IF l.tool = None THEN acc.by
                              ELSE Insert(acc.by, l.use, [turn |-> l.id, tool |-> l.tool])
         /\ Tallies(Fold(acc, l).turns, t, IF l.tool = t THEN c + 1 ELSE c, f)
<1>1. acc.turns \in Seq(Turn) /\ acc.open \in Nat /\ l.id \in Nat /\ l.tool \in Names
  BY DEF Folded, Lines
<1>2. PICK turns \in Seq(Turn) :
        /\ turns = IF acc.open # 0 /\ acc.open = l.id THEN acc.turns ELSE Append(acc.turns, Opened(l.id))
        /\ Len(turns) = l.id /\ Tallies(turns, t, c, f)
  <2>1. CASE acc.open # 0 /\ acc.open = l.id
    BY <1>1, <2>1
  <2>2. CASE ~(acc.open # 0 /\ acc.open = l.id)
    <3>1. PICK new \in Turn : new = Opened(l.id)
      BY <1>1, OpenedType
    <3>2. Append(acc.turns, new) \in Seq(Turn) /\ Len(Append(acc.turns, new)) = Len(acc.turns) + 1
      BY <1>1
    <3>3. l.id = acc.open + 1
      BY <2>2
    <3>4. Tallies(Append(acc.turns, Opened(l.id)), t, c, f)
      BY <1>1, TurnMore
    <3> QED
      BY <2>2, <3>1, <3>2, <3>3, <3>4
  <2> QED
    BY <2>1, <2>2
<1>3. l.id \in DOMAIN turns
  BY <1>1, <1>2
<1>4. Fold(acc, l) = Spoken(acc, l)
  BY DEF Fold
<1>5. Fold(acc, l).turns = IF l.tool = None THEN turns ELSE [turns EXCEPT ![l.id] = Calling(@, l.tool)]
  BY <1>2, <1>4 DEF Spoken
<1>6. Fold(acc, l).by = IF l.tool = None THEN acc.by
                        ELSE Insert(acc.by, l.use, [turn |-> l.id, tool |-> l.tool])
  BY <1>2, <1>4 DEF Spoken
<1>7. Fold(acc, l).open = l.id
  BY <1>4 DEF Spoken, OpenAfter
<1>8. Tallies([turns EXCEPT ![l.id] = Calling(@, l.tool)], t, IF l.tool = t THEN c + 1 ELSE c, f)
  BY <1>1, <1>2, <1>3, CallMore
<1>9. Len([turns EXCEPT ![l.id] = Calling(@, l.tool)]) = Len(turns)
  OBVIOUS
<1>10. CASE l.tool = None
  BY <1>2, <1>5, <1>6, <1>7, <1>10
<1>11. CASE l.tool # None
  <2>1. Len(Fold(acc, l).turns) = Len(turns)
    BY <1>5, <1>9, <1>11, Zenon
  <2>2. Tallies(Fold(acc, l).turns, t, IF l.tool = t THEN c + 1 ELSE c, f)
    BY <1>5, <1>8, <1>11, Zenon
  <2> QED
    BY <1>2, <1>6, <1>7, <2>1, <2>2
<1> QED
  BY <1>10, <1>11

\* A result of a call that was heard.
LEMMA CreditedCounts ==
  ASSUME NEW acc \in Folded, NEW l \in Lines, l.kind = "user",
         l.use \in DOMAIN acc.by => acc.by[l.use].turn \in DOMAIN acc.turns,
         NEW t, NEW c, NEW f, Tallies(acc.turns, t, c, f)
  PROVE  /\ Len(Fold(acc, l).turns) = Len(acc.turns)
         /\ Fold(acc, l).open = acc.open /\ Fold(acc, l).by = acc.by
         /\ Tallies(Fold(acc, l).turns, t, c,
                    IF l.use \in DOMAIN acc.by /\ l.err /\ acc.by[l.use].tool = t THEN f + 1 ELSE f)
<1>1. acc.turns \in Seq(Turn) /\ acc.by \in Partial(Nat, Asker)
  BY DEF Folded
<1>2. Fold(acc, l) = Credited(acc, l)
  BY DEF Fold
<1>3. Fold(acc, l).open = acc.open /\ Fold(acc, l).by = acc.by
  BY <1>2 DEF Credited, OpenAfter
<1>4. CASE l.use \in DOMAIN acc.by /\ l.err
  <2>1. PICK n \in DOMAIN acc.turns : n = acc.by[l.use].turn
    BY <1>4
  <2>2. PICK x \in Names : x = acc.by[l.use].tool
    <3>1. PICK A \in SUBSET Nat : acc.by \in [A -> Asker]
      BY <1>1 DEF Partial
    <3>2. acc.by[l.use] \in Asker
      BY <1>4, <3>1
    <3> QED
      BY <3>2 DEF Asker
  <2>3. Fold(acc, l).turns = [acc.turns EXCEPT ![n] = Failing(@, x)]
    BY <1>2, <1>4, <2>1, <2>2 DEF Credited
  <2>4. Tallies([acc.turns EXCEPT ![n] = Failing(@, x)], t, c, IF x = t THEN f + 1 ELSE f)
    BY <1>1, <2>1, <2>2, FailMore
  <2>5. \A i, new : Len([acc.turns EXCEPT ![i] = new]) = Len(acc.turns)
    BY <1>1
  <2> QED
    BY <1>3, <1>4, <2>2, <2>3, <2>4, <2>5
<1>5. CASE ~(l.use \in DOMAIN acc.by /\ l.err)
  <2>1. Fold(acc, l).turns = acc.turns
    BY <1>2, <1>5 DEF Credited
  <2> QED
    BY <1>3, <1>5, <2>1
<1> QED
  BY <1>4, <1>5

\* Every other line changes nothing.
LEMMA OtherCounts ==
  ASSUME NEW acc, NEW l, l.kind \notin {"assistant", "user"}
  PROVE  Fold(acc, l) = acc
BY DEF Fold

\* What holds at first and is kept holds at the end.
LEMMA WalkKeeps ==
  ASSUME NEW N \in Nat, NEW v, NEW K, v[0] \in K[0],
         \A n \in 1..N : v[n - 1] \in K[n - 1] => v[n] \in K[n]
  PROVE  v[N] \in K[N]
<1> DEFINE G == {n \in Nat : n <= N => v[n] \in K[n]}
<1>1. 0 \in G
  OBVIOUS
<1>2. ASSUME NEW n \in Nat, n \in G PROVE n + 1 \in G
  BY <1>2
<1>3. Nat \subseteq G
  <2> HIDE DEF G
  <2> QED
    BY <1>1, <1>2, Induction
<1> QED
  BY <1>3

-----------------------------------------------------------------------------
(* Dedupe *)

Nearer(cosines, threshold, best, n) ==
  IF cosines[n] > threshold /\ (best = 0 \/ cosines[n] > cosines[best]) THEN n ELSE best

\* The nearest is found in one pass.
LEMMA NearestWalks ==
  ASSUME NEW N \in Nat, NEW cosines \in [1..N -> Int], NEW threshold \in Int
  PROVE  \E v : /\ v[0] = 0 /\ \A n \in 1..N : v[n] = Nearer(cosines, threshold, v[n - 1], n)
                /\ Dup!Nearest(cosines, threshold) = v[N]
<1> DEFINE step == [n \in 1..N |-> [best \in 0..N |-> Nearer(cosines, threshold, best, n)]]
           c == [n \in DOMAIN cosines |-> n]
           Is(it) == it = [S \in SUBSET DOMAIN c |->
                             IF S = {} THEN 0 ELSE Nearer(cosines, threshold, it[S \ {Max(S)}], c[Max(S)])]
<1>1. \E it : Is(it)
  <2>1. step \in [1..N -> [0..N -> 0..N]]
    BY DEF Nearer
  <2>2. 0 \in 0..N
    OBVIOUS
  <2> HIDE DEF step
  <2>3. PICK it : /\ FoldsBy(it, N, 0, step)
                  /\ \A S \in SUBSET (1..N) : S # {} => Max(S) \in 1..N /\ it[S \ {Max(S)}] \in 0..N
    BY <2>1, <2>2, FoldSteps
  <2>4. \A n \in 1..N, best \in 0..N : step[n][best] = Nearer(cosines, threshold, best, c[n])
    BY DEF step
  <2>5. \A S \in SUBSET (1..N) :
          it[S] = IF S = {} THEN 0 ELSE Nearer(cosines, threshold, it[S \ {Max(S)}], c[Max(S)])
    BY <2>3, <2>4 DEF FoldsBy
  <2>6. DOMAIN c = 1..N
    OBVIOUS
  <2> HIDE DEF c
  <2> QED
    BY <2>3, <2>5, <2>6 DEF FoldsBy
<1>2. PICK it : it = CHOOSE f : Is(f)
  OBVIOUS
<1>3. Is(it)
  BY <1>1, <1>2
<1>4. Dup!Nearest(cosines, threshold) = it[DOMAIN c]
  BY <1>2 DEF Dup!Nearest, Dup!FoldLeft, Dup!MapThenFoldSet, Dup!Max, Max, Nearer
<1> DEFINE v == [n \in 0..N |-> it[1..n]]
<1>5. DOMAIN c = 1..N /\ \A n \in 1..N : c[n] = n
  OBVIOUS
<1> HIDE DEF c
<1>6. v[0] = 0
  BY <1>3, <1>5
<1>7. ASSUME NEW n \in 1..N PROVE v[n] = Nearer(cosines, threshold, v[n - 1], n)
  <2>1. PICK S : S = 1..n
    OBVIOUS
  <2>2. S \in SUBSET (1..N) /\ S # {} /\ Max(S) = n /\ S \ {Max(S)} = 1..(n - 1)
    BY <2>1, Prefix
  <2>3. it[S] = Nearer(cosines, threshold, it[S \ {Max(S)}], c[Max(S)])
    BY <1>3, <1>5, <2>2
  <2>4. v[n] = it[1..n] /\ v[n - 1] = it[1..(n - 1)]
    <3>1. n \in 0..N /\ n - 1 \in 0..N
      OBVIOUS
    <3> QED
      BY <3>1
  <2>5. c[Max(S)] = n
    BY <1>5, <2>2
  <2> HIDE DEF v
  <2> QED
    BY <2>1, <2>2, <2>3, <2>4, <2>5
<1>8. Dup!Nearest(cosines, threshold) = v[N]
  BY <1>4, <1>5
<1> QED
  BY <1>6, <1>7, <1>8

\* Of any number of cosines, find_duplicate_against takes the first of the largest, if that
\* is over the threshold, and an article is new only if no match of any kind is found.
THEOREM NearestIsNearest ==
  ASSUME NEW N \in Nat, NEW cosines \in [1..N -> Int], NEW threshold \in Int
  PROVE  Dup!NearestIsMax(cosines, threshold)
<1> DEFINE Right(best, n) ==
      /\ best \in 0..n
      /\ best = 0 => \A m \in 1..n : cosines[m] <= threshold
      /\ best # 0 => /\ cosines[best] > threshold
                     /\ \A m \in 1..n : cosines[m] <= cosines[best] /\ (m < best => cosines[m] < cosines[best])
           K == [n \in 0..N |-> {best \in 0..n : Right(best, n)}]
<1>1. PICK v : /\ v[0] = 0 /\ \A n \in 1..N : v[n] = Nearer(cosines, threshold, v[n - 1], n)
               /\ Dup!Nearest(cosines, threshold) = v[N]
  BY NearestWalks
<1>2. v[0] \in K[0]
  BY <1>1
<1>3. ASSUME NEW n \in 1..N, v[n - 1] \in K[n - 1] PROVE v[n] \in K[n]
  <2>1. PICK b : b = v[n - 1]
    OBVIOUS
  <2>2. b \in 0..(n - 1) /\ Right(b, n - 1)
    BY <1>3, <2>1
  <2>3. v[n] = IF cosines[n] > threshold /\ (b = 0 \/ cosines[n] > cosines[b]) THEN n ELSE b
    BY <1>1, <2>1 DEF Nearer
  <2>4. Right(v[n], n)
    BY <2>2, <2>3
  <2> QED
    BY <2>4
<1>4. v[N] \in K[N]
  <2> HIDE DEF K
  <2> QED
    BY <1>2, <1>3, WalkKeeps
<1>5. PICK n : n = Dup!Nearest(cosines, threshold)
  OBVIOUS
<1>6. n \in 0..N /\ Right(n, N)
  BY <1>1, <1>4, <1>5
<1>7. n = 0 <=> \A m \in DOMAIN cosines : cosines[m] <= threshold
  BY <1>6
<1>8. IF n = 0 THEN \A m \in DOMAIN cosines : cosines[m] <= threshold
      ELSE /\ cosines[n] > threshold
           /\ \A m \in DOMAIN cosines : cosines[m] <= cosines[n] /\ (m < n => cosines[m] < cosines[n])
  BY <1>6
<1>9. ASSUME NEW known \in [url : BOOLEAN, title : BOOLEAN]
      PROVE  Dup!FindDuplicate(known, cosines, threshold) = "new" <=> ~known.url /\ ~known.title /\ n = 0
  BY <1>5 DEF Dup!FindDuplicate
<1> QED
  BY <1>5, <1>7, <1>8, <1>9 DEF Dup!NearestIsMax

\* A function on the sets of positions, as a walk over the positions.
IsWalk(v, it, N) ==
  /\ v[0] = it[{}] /\ v[N] = it[1..N]
  /\ \A n \in 1..N : v[n] = it[1..n] /\ v[n - 1] = it[(1..n) \ {Max(1..n)}]

LEMMA Walked ==
  ASSUME NEW N \in Nat, NEW it
  PROVE  \E v : IsWalk(v, it, N)
<1> DEFINE v == [n \in 0..N |-> it[1..n]]
<1>1. v[0] = it[{}] /\ v[N] = it[1..N]
  OBVIOUS
<1>2. ASSUME NEW n \in 1..N PROVE v[n] = it[1..n] /\ v[n - 1] = it[(1..n) \ {Max(1..n)}]
  <2>1. n \in 0..N /\ n - 1 \in 0..N
    OBVIOUS
  <2>2. v[n] = it[1..n] /\ v[n - 1] = it[1..(n - 1)]
    BY <2>1
  <2>3. (1..n) \ {Max(1..n)} = 1..(n - 1)
    BY Prefix
  <2> HIDE DEF v
  <2> QED
    BY <2>2, <2>3
<1> HIDE DEF v
<1>3. IsWalk(v, it, N)
  BY <1>1, <1>2 DEF IsWalk
<1> QED
  BY <1>3

Texts(W) == Seq(Seq(W))

\* The words are counted line by line.
LEMMA CountWalks ==
  ASSUME NEW W, NEW lines \in Texts(W)
  PROVE  \E v : /\ v[0] = 0 /\ \A n \in 1..Len(lines) : v[n] = v[n - 1] + Len(lines[n])
                /\ Dup!CountWords(lines) = v[Len(lines)]
<1> DEFINE N == Len(lines)
           step == [n \in 1..N |-> [k \in Nat |-> k + Len(lines[n])]]
           Is(it) == it = [S \in SUBSET DOMAIN lines |->
                             IF S = {} THEN 0 ELSE it[S \ {Max(S)}] + Len(lines[Max(S)])]
<1>1. N \in Nat /\ DOMAIN lines = 1..N /\ \A n \in 1..N : lines[n] \in Seq(W)
  BY DEF Texts
<1>2. \E it : Is(it)
  <2>1. step \in [1..N -> [Nat -> Nat]]
    BY <1>1
  <2>2. \A n \in 1..N, k \in Nat : step[n][k] = k + Len(lines[n])
    OBVIOUS
  <2> HIDE DEF step, N
  <2>3. PICK it : /\ FoldsBy(it, N, 0, step)
                  /\ \A S \in SUBSET (1..N) : S # {} => Max(S) \in 1..N /\ it[S \ {Max(S)}] \in Nat
    BY <1>1, <2>1, FoldSteps
  <2>4. \A S \in SUBSET (1..N) : it[S] = IF S = {} THEN 0 ELSE it[S \ {Max(S)}] + Len(lines[Max(S)])
    BY <2>2, <2>3 DEF FoldsBy
  <2> QED
    BY <1>1, <2>3, <2>4 DEF FoldsBy
<1>3. PICK it : it = CHOOSE f : Is(f)
  OBVIOUS
<1>4. Is(it)
  BY <1>2, <1>3
<1>5. Dup!CountWords(lines) = it[DOMAIN lines]
  BY <1>3 DEF Dup!CountWords, Dup!FoldLeft, Dup!MapThenFoldSet, Dup!Max, Max
<1> HIDE DEF N
<1>6. PICK v : IsWalk(v, it, N)
  BY <1>1, Walked
<1>7. v[0] = 0
  BY <1>1, <1>4, <1>6 DEF IsWalk
<1>8. ASSUME NEW n \in 1..N PROVE v[n] = v[n - 1] + Len(lines[n])
  <2>1. PICK S : S = 1..n
    OBVIOUS
  <2>2. S \in SUBSET (1..N) /\ S # {} /\ Max(S) = n
    BY <1>1, <2>1, Prefix
  <2>3. it[S] = it[S \ {Max(S)}] + Len(lines[Max(S)])
    BY <1>1, <1>4, <2>2
  <2>4. v[n] = it[S] /\ v[n - 1] = it[S \ {Max(S)}]
    BY <1>6, <2>1 DEF IsWalk
  <2> QED
    BY <2>2, <2>3, <2>4
<1>9. Dup!CountWords(lines) = v[N]
  BY <1>1, <1>5, <1>6 DEF IsWalk
<1> QED
  BY <1>7, <1>8, <1>9 DEF N

\* A line more.
LEMMA CountMore ==
  ASSUME NEW W, NEW lines \in Texts(W), NEW line \in Seq(W)
  PROVE  /\ Append(lines, line) \in Texts(W) /\ Dup!CountWords(lines) \in Nat
         /\ Dup!CountWords(Append(lines, line)) = Dup!CountWords(lines) + Len(line)
<1> DEFINE more == Append(lines, line)
           N == Len(lines)
<1>1. /\ more \in Texts(W) /\ N \in Nat /\ Len(more) = N + 1 /\ more[N + 1] = line
      /\ \A n \in 1..N : more[n] = lines[n] /\ Len(lines[n]) \in Nat
  BY DEF Texts
<1> HIDE DEF more, N
<1>2. PICK v : /\ v[0] = 0 /\ \A n \in 1..N : v[n] = v[n - 1] + Len(lines[n])
               /\ Dup!CountWords(lines) = v[N]
  BY CountWalks DEF N
<1>3. PICK w : /\ w[0] = 0 /\ \A n \in 1..(N + 1) : w[n] = w[n - 1] + Len(more[n])
               /\ Dup!CountWords(more) = w[N + 1]
  BY <1>1, CountWalks
<1>4. v[N] = w[N]
  <2>1. \A n \in 1..N : w[n] = w[n - 1] + Len(lines[n])
    BY <1>1, <1>3
  <2>2. \A n \in 1..N : v[n - 1] = w[n - 1] => v[n] = w[n]
    BY <1>2, <2>1
  <2> QED
    BY <1>1, <1>2, <1>3, <2>2, WalksAgree
<1>5. v[N] \in Nat
  <2> DEFINE K == [n \in 0..N |-> Nat]
  <2>1. v[0] \in K[0]
    BY <1>1, <1>2
  <2>2. \A n \in 1..N : v[n - 1] \in K[n - 1] => v[n] \in K[n]
    BY <1>1, <1>2
  <2>3. K[N] = Nat
    BY <1>1
  <2> HIDE DEF K
  <2> QED
    BY <1>1, <2>1, <2>2, <2>3, WalkKeeps
<1>6. w[N + 1] = w[N] + Len(line)
  <2>1. N + 1 \in 1..(N + 1) /\ N + 1 - 1 = N
    BY <1>1
  <2> QED
    BY <1>1, <1>3, <2>1
<1> QED
  BY <1>1, <1>2, <1>3, <1>4, <1>5, <1>6 DEF more

LEMMA CountType ==
  ASSUME NEW W, NEW lines \in Texts(W)
  PROVE  Dup!CountWords(lines) \in Nat
<1>1. PICK line \in Seq(W) : line = <<>>
  <2>1. <<>> \in Seq(W)
    OBVIOUS
  <2> QED
    BY <2>1
<1> QED
  BY CountMore

LEMMA CountNone == Dup!CountWords(<<>>) = 0
<1>1. <<>> \in Texts({}) /\ Len(<<>>) = 0
  BY DEF Texts
<1> QED
  BY <1>1, CountWalks

\* What normalize_text has read of the lines.
Normed(acc, line) ==
  IF line = <<>> THEN [blank |-> TRUE, out |-> acc.out]
  ELSE [blank |-> FALSE,
        out |-> acc.out \o (IF acc.blank /\ acc.out # <<>> THEN << <<>> >> ELSE <<>>) \o <<line>>]
Start == [blank |-> FALSE, out |-> <<>>]
Norms(W) == [blank : BOOLEAN, out : Texts(W)]

\* It puts out nothing, the line, or a blank one and the line.
LEMMA NormedOut ==
  ASSUME NEW W, NEW acc \in Norms(W), NEW line \in Seq(W)
  PROVE  /\ Normed(acc, line) \in Norms(W)
         /\ line = <<>> => Normed(acc, line).blank /\ Normed(acc, line).out = acc.out
         /\ line # <<>> => /\ ~Normed(acc, line).blank
                           /\ Normed(acc, line).out =
                                IF acc.blank /\ acc.out # <<>> THEN Append(Append(acc.out, <<>>), line)
                                ELSE Append(acc.out, line)
<1>1. PICK o \in Texts(W), b \in BOOLEAN : acc.out = o /\ acc.blank = b
  BY DEF Norms
<1>2. o \o <<>> \o <<line>> = Append(o, line) /\ o \o << <<>> >> \o <<line>> = Append(Append(o, <<>>), line)
  <2>1. o \in Seq(Seq(W)) /\ <<>> \in Seq(W)
    BY <1>1 DEF Texts
  <2> QED
    BY <2>1
<1>3. Append(o, line) \in Texts(W) /\ Append(Append(o, <<>>), line) \in Texts(W)
  BY <1>1 DEF Texts
<1>4. CASE line = <<>>
  BY <1>1, <1>4 DEF Normed, Norms
<1>5. CASE line # <<>>
  BY <1>1, <1>2, <1>3, <1>5 DEF Normed, Norms
<1> QED
  BY <1>4, <1>5

\* The lines are normalised one by one.
LEMMA NormWalks ==
  ASSUME NEW W, NEW lines \in Texts(W)
  PROVE  \E v : /\ v[0] = Start /\ \A n \in 1..Len(lines) : v[n] = Normed(v[n - 1], lines[n])
                /\ Dup!NormalizeText(lines) = v[Len(lines)].out
<1> DEFINE N == Len(lines)
           step == [n \in 1..N |-> [acc \in Norms(W) |-> Normed(acc, lines[n])]]
           Is(it) == it = [S \in SUBSET DOMAIN lines |->
                             IF S = {} THEN Start ELSE Normed(it[S \ {Max(S)}], lines[Max(S)])]
<1>1. N \in Nat /\ DOMAIN lines = 1..N /\ \A n \in 1..N : lines[n] \in Seq(W)
  BY DEF Texts
<1>2. \E it : Is(it)
  <2>1. step \in [1..N -> [Norms(W) -> Norms(W)]]
    BY <1>1, NormedOut
  <2>2. \A n \in 1..N, acc \in Norms(W) : step[n][acc] = Normed(acc, lines[n])
    OBVIOUS
  <2>3. Start \in Norms(W)
    BY DEF Start, Norms, Texts
  <2> HIDE DEF step, N
  <2>4. PICK it : /\ FoldsBy(it, N, Start, step)
                  /\ \A S \in SUBSET (1..N) : S # {} => Max(S) \in 1..N /\ it[S \ {Max(S)}] \in Norms(W)
    BY <1>1, <2>1, <2>3, FoldSteps
  <2>5. \A S \in SUBSET (1..N) : it[S] = IF S = {} THEN Start ELSE Normed(it[S \ {Max(S)}], lines[Max(S)])
    BY <2>2, <2>4 DEF FoldsBy
  <2> QED
    BY <1>1, <2>4, <2>5 DEF FoldsBy
<1>3. PICK it : it = CHOOSE f : Is(f)
  OBVIOUS
<1>4. Is(it)
  BY <1>2, <1>3
<1>5. Dup!NormalizeText(lines) = it[DOMAIN lines].out
  BY <1>3 DEF Dup!NormalizeText, Dup!FoldLeft, Dup!MapThenFoldSet, Dup!Max, Max, Normed, Start
<1> HIDE DEF N
<1>6. PICK v : IsWalk(v, it, N)
  BY <1>1, Walked
<1>7. v[0] = Start
  BY <1>1, <1>4, <1>6 DEF IsWalk
<1>8. ASSUME NEW n \in 1..N PROVE v[n] = Normed(v[n - 1], lines[n])
  <2>1. PICK S : S = 1..n
    OBVIOUS
  <2>2. S \in SUBSET (1..N) /\ S # {} /\ Max(S) = n
    BY <1>1, <2>1, Prefix
  <2>3. it[S] = Normed(it[S \ {Max(S)}], lines[Max(S)])
    BY <1>1, <1>4, <2>2
  <2>4. v[n] = it[S] /\ v[n - 1] = it[S \ {Max(S)}]
    BY <1>6, <2>1 DEF IsWalk
  <2> QED
    BY <2>2, <2>3, <2>4
<1>9. Dup!NormalizeText(lines) = v[N].out
  BY <1>1, <1>5, <1>6 DEF IsWalk
<1> QED
  BY <1>7, <1>8, <1>9 DEF N

\* The lines that are not blank, line by line.
Fuller(kept, line) == IF line = <<>> THEN kept ELSE Append(kept, line)

\* So do the lines that are not blank.
LEMMA FullWalks ==
  ASSUME NEW W, NEW lines \in Texts(W)
  PROVE  \E v : /\ v[0] = <<>> /\ \A n \in 1..Len(lines) : v[n] = Fuller(v[n - 1], lines[n])
                /\ Dup!Full(lines) = v[Len(lines)]
<1> DEFINE N == Len(lines)
           step == [n \in 1..N |-> [kept \in Texts(W) |-> Fuller(kept, lines[n])]]
           Is(it) == it = [S \in SUBSET DOMAIN lines |->
                             IF S = {} THEN <<>> ELSE Fuller(it[S \ {Max(S)}], lines[Max(S)])]
<1>1. N \in Nat /\ DOMAIN lines = 1..N /\ \A n \in 1..N : lines[n] \in Seq(W)
  BY DEF Texts
<1>2. \E it : Is(it)
  <2>1. step \in [1..N -> [Texts(W) -> Texts(W)]]
    <3>1. \A n \in 1..N, kept \in Texts(W) : Fuller(kept, lines[n]) \in Texts(W)
      BY <1>1 DEF Fuller, Texts
    <3> QED
      BY <3>1
  <2>2. \A n \in 1..N, kept \in Texts(W) : step[n][kept] = Fuller(kept, lines[n])
    OBVIOUS
  <2>3. PICK none \in Texts(W) : none = <<>>
    <3>1. <<>> \in Texts(W)
      BY DEF Texts
    <3> QED
      BY <3>1
  <2> HIDE DEF step, N
  <2>4. PICK it : /\ FoldsBy(it, N, none, step)
                  /\ \A S \in SUBSET (1..N) : S # {} => Max(S) \in 1..N /\ it[S \ {Max(S)}] \in Texts(W)
    BY <1>1, <2>1, FoldSteps
  <2>5. \A S \in SUBSET (1..N) : it[S] = IF S = {} THEN <<>> ELSE Fuller(it[S \ {Max(S)}], lines[Max(S)])
    BY <2>2, <2>3, <2>4 DEF FoldsBy
  <2> QED
    BY <1>1, <2>4, <2>5 DEF FoldsBy
<1>3. PICK it : it = CHOOSE f : Is(f)
  OBVIOUS
<1>4. Is(it)
  BY <1>2, <1>3
<1>5. Dup!Full(lines) = it[DOMAIN lines]
  BY <1>3 DEF Dup!Full, Dup!FoldLeft, Dup!MapThenFoldSet, Dup!Max, Max, Fuller
<1> HIDE DEF N
<1>6. PICK v : IsWalk(v, it, N)
  BY <1>1, Walked
<1>7. v[0] = <<>>
  BY <1>1, <1>4, <1>6 DEF IsWalk
<1>8. ASSUME NEW n \in 1..N PROVE v[n] = Fuller(v[n - 1], lines[n])
  <2>1. PICK S : S = 1..n
    OBVIOUS
  <2>2. S \in SUBSET (1..N) /\ S # {} /\ Max(S) = n
    BY <1>1, <2>1, Prefix
  <2>3. it[S] = Fuller(it[S \ {Max(S)}], lines[Max(S)])
    BY <1>1, <1>4, <2>2
  <2>4. v[n] = it[S] /\ v[n - 1] = it[S \ {Max(S)}]
    BY <1>6, <2>1 DEF IsWalk
  <2> QED
    BY <2>2, <2>3, <2>4
<1>9. Dup!Full(lines) = v[N]
  BY <1>1, <1>5, <1>6 DEF IsWalk
<1> QED
  BY <1>7, <1>8, <1>9 DEF N

LEMMA FullMore ==
  ASSUME NEW W, NEW lines \in Texts(W), NEW line \in Seq(W)
  PROVE  Dup!Full(Append(lines, line)) = Fuller(Dup!Full(lines), line)
<1> DEFINE more == Append(lines, line)
           N == Len(lines)
<1>1. /\ more \in Texts(W) /\ N \in Nat /\ Len(more) = N + 1 /\ more[N + 1] = line
      /\ \A n \in 1..N : more[n] = lines[n]
  BY DEF Texts
<1> HIDE DEF more, N
<1>2. PICK v : /\ v[0] = <<>> /\ \A n \in 1..N : v[n] = Fuller(v[n - 1], lines[n])
               /\ Dup!Full(lines) = v[N]
  BY FullWalks DEF N
<1>3. PICK w : /\ w[0] = <<>> /\ \A n \in 1..(N + 1) : w[n] = Fuller(w[n - 1], more[n])
               /\ Dup!Full(more) = w[N + 1]
  BY <1>1, FullWalks
<1>4. v[N] = w[N]
  <2>1. \A n \in 1..N : w[n] = Fuller(w[n - 1], lines[n])
    BY <1>1, <1>3
  <2>2. \A n \in 1..N : v[n - 1] = w[n - 1] => v[n] = w[n]
    BY <1>2, <2>1
  <2> QED
    BY <1>1, <1>2, <1>3, <2>2, WalksAgree
<1>5. w[N + 1] = Fuller(w[N], line)
  <2>1. N + 1 \in 1..(N + 1) /\ N + 1 - 1 = N
    BY <1>1
  <2> QED
    BY <1>1, <1>3, <2>1
<1> QED
  BY <1>2, <1>3, <1>4, <1>5 DEF more

LEMMA FullNone == Dup!Full(<<>>) = <<>>
<1>1. <<>> \in Texts({}) /\ Len(<<>>) = 0
  BY DEF Texts
<1> QED
  BY <1>1, FullWalks

\* No blank line at an end, and no two together.
IsNormal(out) ==
  /\ out # <<>> => out[1] # <<>> /\ out[Len(out)] # <<>>
  /\ \A n \in 1..(Len(out) - 1) : out[n] # <<>> \/ out[n + 1] # <<>>

\* A line that is not blank may always follow, after a blank one too.
LEMMA NormalMore ==
  ASSUME NEW W, NEW out \in Texts(W), IsNormal(out), NEW line \in Seq(W), line # <<>>
  PROVE  /\ IsNormal(Append(out, line))
         /\ out # <<>> => IsNormal(Append(Append(out, <<>>), line))
<1>1. out \in Seq(Seq(W)) /\ Len(out) \in Nat /\ (out = <<>> <=> Len(out) = 0) /\ <<>> \in Seq(W)
  BY DEF Texts
<1>2. IsNormal(Append(out, line))
  BY <1>1 DEF IsNormal
<1>3. ASSUME out # <<>> PROVE IsNormal(Append(Append(out, <<>>), line))
  <2>1. PICK m \in Nat : m = Len(out) /\ m # 0
    BY <1>1, <1>3
  <2>2. PICK more : more = Append(Append(out, <<>>), line)
    OBVIOUS
  <2>3. /\ more \in Seq(Seq(W)) /\ Len(more) = m + 2 /\ more[m + 1] = <<>> /\ more[m + 2] = line
        /\ \A n \in 1..m : more[n] = out[n]
    BY <1>1, <2>1, <2>2
  <2>4. ASSUME NEW n \in 1..(m - 1) PROVE more[n] # <<>> \/ more[n + 1] # <<>>
    <3>1. out[n] # <<>> \/ out[n + 1] # <<>>
      BY <2>1 DEF IsNormal
    <3>2. n \in 1..m /\ n + 1 \in 1..m
      BY <2>1
    <3> QED
      BY <2>3, <3>1, <3>2
  <2>5. more[1] # <<>> /\ more[m] # <<>>
    BY <1>3, <2>1, <2>3 DEF IsNormal
  <2>6. ASSUME NEW n \in 1..(m + 1) PROVE more[n] # <<>> \/ more[n + 1] # <<>>
    <3>1. n \in 1..(m - 1) \/ n = m \/ n = m + 1
      BY <2>1
    <3>2. m + 1 + 1 = m + 2
      BY <2>1
    <3> QED
      BY <2>3, <2>4, <2>5, <3>1, <3>2
  <2> QED
    BY <2>1, <2>2, <2>3, <2>5, <2>6 DEF IsNormal
<1> QED
  BY <1>2, <1>3

\* Of the first n lines, a blank one at the end is held back.
HeldBack(lines, n) == n > 0 /\ lines[n] = <<>>
Shown(lines, n) == SubSeq(lines, 1, IF HeldBack(lines, n) THEN n - 1 ELSE n)

LEMMA ShownMore ==
  ASSUME NEW W, NEW lines \in Texts(W), IsNormal(lines), NEW n \in 1..Len(lines)
  PROVE  /\ lines[n] = <<>> => ~HeldBack(lines, n - 1) /\ Shown(lines, n) = Shown(lines, n - 1)
         /\ lines[n] # <<>> /\ HeldBack(lines, n - 1) =>
              /\ Shown(lines, n - 1) # <<>>
              /\ Shown(lines, n) = Append(Append(Shown(lines, n - 1), <<>>), lines[n])
         /\ lines[n] # <<>> /\ ~HeldBack(lines, n - 1) =>
              Shown(lines, n) = Append(Shown(lines, n - 1), lines[n])
<1>1. /\ lines \in Seq(Seq(W)) /\ Len(lines) \in Nat /\ lines # <<>>
      /\ n - 1 \in Nat /\ n \in Nat /\ n > 0 /\ n <= Len(lines)
  BY DEF Texts
<1>2. lines[1] # <<>>
  BY <1>1 DEF IsNormal
<1>3. n > 1 => lines[n - 1] # <<>> \/ lines[n] # <<>>
  <2>1. SUFFICES ASSUME n > 1 PROVE lines[n - 1] # <<>> \/ lines[n] # <<>>
    OBVIOUS
  <2>2. n - 1 \in 1..(Len(lines) - 1) /\ n - 1 + 1 = n
    BY <1>1, <2>1
  <2>3. \A m \in 1..(Len(lines) - 1) : lines[m] # <<>> \/ lines[m + 1] # <<>>
    BY DEF IsNormal
  <2> QED
    BY <2>2, <2>3
<1>4. CASE lines[n] = <<>>
  <2>1. ~HeldBack(lines, n - 1) /\ HeldBack(lines, n)
    BY <1>1, <1>2, <1>3, <1>4 DEF HeldBack
  <2> QED
    BY <1>4, <2>1 DEF Shown
<1>5. CASE lines[n] # <<>> /\ ~HeldBack(lines, n - 1)
  <2>1. ~HeldBack(lines, n)
    BY <1>5 DEF HeldBack
  <2>2. SubSeq(lines, 1, n) = Append(SubSeq(lines, 1, n - 1), lines[n])
    BY <1>1
  <2> QED
    BY <1>5, <2>1, <2>2 DEF Shown
<1>6. CASE lines[n] # <<>> /\ HeldBack(lines, n - 1)
  <2>1. n - 1 > 1 /\ lines[n - 1] = <<>>
    BY <1>1, <1>2, <1>6 DEF HeldBack
  <2>2. ~HeldBack(lines, n)
    BY <1>6 DEF HeldBack
  <2>3. PICK m \in Nat : m = n - 2 /\ m > 0 /\ n = m + 2 /\ n - 1 = m + 1
    BY <1>1, <2>1
  <2>4. Shown(lines, n) = SubSeq(lines, 1, m + 2) /\ Shown(lines, n - 1) = SubSeq(lines, 1, m)
    <3>1. n - 1 - 1 = m
      BY <1>1, <2>3
    <3> QED
      BY <1>6, <2>2, <2>3, <3>1 DEF Shown
  <2>5. SubSeq(lines, 1, m + 2) = Append(SubSeq(lines, 1, m + 1), lines[m + 2])
    BY <1>1, <2>3
  <2>6. SubSeq(lines, 1, m + 1) = Append(SubSeq(lines, 1, m), lines[m + 1])
    BY <1>1, <2>3
  <2>7. Len(SubSeq(lines, 1, m)) = m
    BY <1>1, <2>3
  <2>8. SubSeq(lines, 1, m) # <<>>
    BY <2>3, <2>7
  <2> QED
    BY <1>6, <2>1, <2>3, <2>4, <2>5, <2>6, <2>8
<1> QED
  BY <1>4, <1>5, <1>6

\* What is normal is left as it is.
LEMMA NormalStays ==
  ASSUME NEW W, NEW lines \in Texts(W), IsNormal(lines)
  PROVE  Dup!NormalizeText(lines) = lines
<1> DEFINE N == Len(lines)
           K == [n \in 0..N |-> {acc \in Norms(W) : (acc.blank <=> HeldBack(lines, n)) /\ acc.out = Shown(lines, n)}]
<1>1. N \in Nat /\ lines \in Seq(Seq(W)) /\ \A n \in 1..N : lines[n] \in Seq(W)
  BY DEF Texts
<1>2. PICK v : /\ v[0] = Start /\ \A n \in 1..N : v[n] = Normed(v[n - 1], lines[n])
               /\ Dup!NormalizeText(lines) = v[N].out
  BY NormWalks
<1>0. \A n \in 0..N : \A acc : acc \in K[n] <=>
        acc \in Norms(W) /\ (acc.blank <=> HeldBack(lines, n)) /\ acc.out = Shown(lines, n)
  OBVIOUS
<1> HIDE DEF K
<1>3. v[0] \in K[0]
  <2>1. SubSeq(lines, 1, 0) = <<>>
    BY <1>1
  <2>2. ~HeldBack(lines, 0)
    BY DEF HeldBack
  <2>3. Shown(lines, 0) = <<>>
    BY <2>1, <2>2 DEF Shown
  <2>4. Start \in Norms(W) /\ ~Start.blank /\ Start.out = <<>>
    BY DEF Start, Norms, Texts
  <2> QED
    BY <1>0, <1>1, <1>2, <2>2, <2>3, <2>4
<1>4. ASSUME NEW n \in 1..N, v[n - 1] \in K[n - 1] PROVE v[n] \in K[n]
  <2>0. n - 1 \in 0..N /\ n \in 0..N /\ n \in 1..Len(lines) /\ n > 0
    BY <1>1
  <2>1. PICK acc \in Norms(W) : acc = v[n - 1] /\ (acc.blank <=> HeldBack(lines, n - 1)) /\ acc.out = Shown(lines, n - 1)
    BY <1>0, <1>4, <2>0
  <2>2. PICK line \in Seq(W) : line = lines[n]
    BY <1>1
  <2>3. PICK new : new = Normed(acc, line)
    OBVIOUS
  <2>4. v[n] = new
    BY <1>2, <2>1, <2>2, <2>3
  <2>5. new \in Norms(W)
    BY <2>3, NormedOut
  <2>6. HeldBack(lines, n) <=> line = <<>>
    BY <2>0, <2>2 DEF HeldBack
  <2>7. CASE line = <<>>
    <3>1. new.blank /\ new.out = acc.out
      BY <2>3, <2>7, NormedOut
    <3>2. Shown(lines, n) = Shown(lines, n - 1)
      BY <2>0, <2>2, <2>7, ShownMore
    <3> QED
      BY <1>0, <2>0, <2>1, <2>4, <2>5, <2>6, <2>7, <3>1, <3>2
  <2>8. CASE line # <<>>
    <3>1. ~new.blank
      BY <2>3, <2>8, NormedOut
    <3>2. new.out = IF acc.blank /\ acc.out # <<>> THEN Append(Append(acc.out, <<>>), line) ELSE Append(acc.out, line)
      BY <2>3, <2>8, NormedOut
    <3>3. Shown(lines, n) = IF acc.blank /\ acc.out # <<>> THEN Append(Append(acc.out, <<>>), line) ELSE Append(acc.out, line)
      BY <2>0, <2>1, <2>2, <2>8, ShownMore
    <3> QED
      BY <1>0, <2>0, <2>4, <2>5, <2>6, <2>8, <3>1, <3>2, <3>3
  <2> QED
    BY <2>7, <2>8
<1>5. v[N] \in K[N]
  <2> HIDE DEF N
  <2> QED
    BY <1>1, <1>3, <1>4, WalkKeeps
<1>6. v[N].out = Shown(lines, N)
  BY <1>0, <1>1, <1>5
<1>7. ~HeldBack(lines, N)
  BY <1>1 DEF HeldBack, IsNormal
<1>8. SubSeq(lines, 1, N) = lines
  BY <1>1
<1> QED
  BY <1>2, <1>6, <1>7, <1>8 DEF Shown

\* A line is read: its words and its paragraphs are put out, and what is out is normal.
LEMMA NormedKeeps ==
  ASSUME NEW W, NEW acc \in Norms(W), NEW line \in Seq(W), IsNormal(acc.out)
  PROVE  /\ IsNormal(Normed(acc, line).out)
         /\ Dup!CountWords(Normed(acc, line).out) = Dup!CountWords(acc.out) + Len(line)
         /\ Dup!Full(Normed(acc, line).out) = Fuller(Dup!Full(acc.out), line)
<1>1. PICK o \in Texts(W) : o = acc.out
  BY DEF Norms
<1>2. Dup!CountWords(o) \in Nat
  BY <1>1, CountType
<1>3. CASE line = <<>>
  <2>1. Normed(acc, line).out = o
    BY <1>1, <1>3, NormedOut
  <2> QED
    BY <1>1, <1>2, <1>3, <2>1 DEF Fuller
<1>4. CASE line # <<>>
  <2>1. PICK blank \in Seq(W) : blank = <<>>
    <3>1. <<>> \in Seq(W)
      OBVIOUS
    <3> QED
      BY <3>1
  <2>2. PICK p \in Texts(W) : p = Append(o, blank)
    BY <1>1, <2>1, CountMore
  <2>3. Dup!CountWords(p) = Dup!CountWords(o)
    <3>1. Len(blank) = 0
      BY <2>1
    <3>2. Dup!CountWords(p) = Dup!CountWords(o) + Len(blank)
      BY <2>2, CountMore
    <3> QED
      BY <1>2, <3>1, <3>2
  <2>4. Dup!Full(p) = Dup!Full(o)
    BY <2>1, <2>2, FullMore DEF Fuller
  <2>5. CASE Normed(acc, line).out = Append(o, line)
    BY <1>1, <1>4, <2>5, CountMore, FullMore, NormalMore
  <2>6. CASE Normed(acc, line).out = Append(p, line) /\ o # <<>>
    BY <1>1, <1>4, <2>1, <2>2, <2>3, <2>4, <2>6, CountMore, FullMore, NormalMore
  <2>7. \/ Normed(acc, line).out = Append(o, line)
        \/ Normed(acc, line).out = Append(p, line) /\ o # <<>>
    <3>1. Normed(acc, line).out =
            IF acc.blank /\ acc.out # <<>> THEN Append(Append(acc.out, <<>>), line) ELSE Append(acc.out, line)
      BY <1>4, NormedOut
    <3> QED
      BY <1>1, <2>1, <2>2, <3>1
  <2> QED
    BY <2>5, <2>6, <2>7
<1> QED
  BY <1>3, <1>4

\* normalize_text puts out the words and the paragraphs it was given, in normal form.
LEMMA NormalizeKeeps ==
  ASSUME NEW W, NEW lines \in Texts(W)
  PROVE  LET out == Dup!NormalizeText(lines) IN
         /\ out \in Texts(W) /\ IsNormal(out)
         /\ Dup!CountWords(out) = Dup!CountWords(lines)
         /\ Dup!Full(out) = Dup!Full(lines)
<1> DEFINE N == Len(lines)
<1>1. N \in Nat /\ \A n \in 1..N : lines[n] \in Seq(W)
  BY DEF Texts
<1>2. PICK v : /\ v[0] = Start /\ \A n \in 1..N : v[n] = Normed(v[n - 1], lines[n])
               /\ Dup!NormalizeText(lines) = v[N].out
  BY NormWalks
<1>3. PICK c : /\ c[0] = 0 /\ \A n \in 1..N : c[n] = c[n - 1] + Len(lines[n])
               /\ Dup!CountWords(lines) = c[N]
  BY CountWalks
<1>4. PICK f : /\ f[0] = <<>> /\ \A n \in 1..N : f[n] = Fuller(f[n - 1], lines[n])
               /\ Dup!Full(lines) = f[N]
  BY FullWalks
<1> DEFINE K == [n \in 0..N |-> {acc \in Norms(W) : /\ IsNormal(acc.out)
                                                   /\ Dup!CountWords(acc.out) = c[n]
                                                   /\ Dup!Full(acc.out) = f[n]}]
<1>5. \A n \in 0..N : \A acc : acc \in K[n] <=>
        acc \in Norms(W) /\ IsNormal(acc.out) /\ Dup!CountWords(acc.out) = c[n] /\ Dup!Full(acc.out) = f[n]
  OBVIOUS
<1> HIDE DEF K, N
<1>6. v[0] \in K[0]
  <2>1. Start \in Norms(W) /\ Start.out = <<>>
    BY DEF Start, Norms, Texts
  <2>2. IsNormal(<<>>)
    BY DEF IsNormal
  <2>3. IsNormal(Start.out) /\ Dup!CountWords(Start.out) = 0 /\ Dup!Full(Start.out) = <<>>
    BY <2>1, <2>2, CountNone, FullNone
  <2>4. 0 \in 0..N
    BY <1>1
  <2> QED
    BY <1>2, <1>3, <1>4, <1>5, <2>1, <2>3, <2>4
<1>7. ASSUME NEW n \in 1..N, v[n - 1] \in K[n - 1] PROVE v[n] \in K[n]
  <2>0. n - 1 \in 0..N /\ n \in 0..N
    BY <1>1
  <2>1. PICK acc \in Norms(W) : /\ acc = v[n - 1] /\ IsNormal(acc.out)
                                /\ Dup!CountWords(acc.out) = c[n - 1] /\ Dup!Full(acc.out) = f[n - 1]
    BY <1>5, <1>7, <2>0
  <2>2. PICK line \in Seq(W) : line = lines[n]
    BY <1>1
  <2>3. /\ IsNormal(Normed(acc, line).out)
        /\ Dup!CountWords(Normed(acc, line).out) = Dup!CountWords(acc.out) + Len(line)
        /\ Dup!Full(Normed(acc, line).out) = Fuller(Dup!Full(acc.out), line)
    BY <2>1, NormedKeeps
  <2>4. Normed(acc, line) \in Norms(W)
    BY NormedOut
  <2>5. v[n] = Normed(acc, line)
    BY <1>2, <2>1, <2>2
  <2>6. c[n] = c[n - 1] + Len(line) /\ f[n] = Fuller(f[n - 1], line)
    BY <1>3, <1>4, <2>2
  <2> QED
    BY <1>5, <2>0, <2>1, <2>3, <2>4, <2>5, <2>6
<1>8. v[N] \in K[N]
  BY <1>1, <1>6, <1>7, WalkKeeps
<1>9. v[N].out \in Texts(W)
  BY <1>1, <1>5, <1>8 DEF Norms
<1> QED
  BY <1>1, <1>2, <1>3, <1>4, <1>5, <1>8, <1>9

\* normalize_text, on a text of any length and any words: the words and the paragraphs stay,
\* no blank lines meet or stand at an end, and what is normal is left as it is.
THEOREM TextIsNormalized ==
  ASSUME NEW W, NEW lines \in Texts(W)
  PROVE  Dup!NormalizesWell(lines)
<1>1. PICK out \in Texts(W) : /\ out = Dup!NormalizeText(lines) /\ IsNormal(out)
                              /\ Dup!CountWords(out) = Dup!CountWords(lines)
                              /\ Dup!Full(out) = Dup!Full(lines)
  BY NormalizeKeeps
<1>2. Dup!NormalizeText(out) = out
  BY <1>1, NormalStays
<1>3. out # <<>> => out[1] # <<>> /\ Dup!Last(out) # <<>>
  BY <1>1 DEF IsNormal, Dup!Last
<1> QED
  BY <1>1, <1>2, <1>3 DEF Dup!NormalizesWell, IsNormal

\* extract, on any two texts: what it returns is long enough, an article that either parser
\* finds is found, and the first parser's is preferred.
THEOREM ExtractIsRight ==
  ASSUME NEW W, NEW primary \in Texts(W), NEW fallback \in Texts(W), MinWords \in Nat
  PROVE  Dup!ExtractsWell(primary, fallback)
<1> DEFINE first == Dup!Parser(primary, "dom_smoothie")
           second == Dup!Parser(fallback, "readability")
           p == Dup!CountWords(primary)
           f == Dup!CountWords(fallback)
<1>1. p \in Nat /\ f \in Nat
  BY CountType
<1>2. /\ first.extractor = "dom_smoothie" /\ first # <<>> /\ second # <<>>
      /\ first.text = Dup!NormalizeText(primary) /\ second.text = Dup!NormalizeText(fallback)
  BY DEF Dup!Parser
<1>3. Dup!CountWords(first.text) = p /\ Dup!CountWords(second.text) = f
  BY <1>2, NormalizeKeeps
<1>4. Dup!Extract(primary, fallback) =
        IF p >= MinWords THEN first ELSE IF f >= MinWords THEN second ELSE <<>>
  BY <1>3 DEF Dup!Extract, Dup!Nothing
<1> HIDE DEF first, second, p, f
<1>5. PICK e : e = Dup!Extract(primary, fallback)
  OBVIOUS
<1>6. IF e = <<>> THEN p < MinWords /\ f < MinWords
      ELSE Dup!CountWords(e.text) >= MinWords /\ (p >= MinWords => e.extractor = "dom_smoothie")
  BY <1>1, <1>2, <1>3, <1>4, <1>5
<1> QED
  BY <1>5, <1>6 DEF Dup!ExtractsWell, Dup!Nothing, p, f

-----------------------------------------------------------------------------
(* Titles *)

Hashed(acc, c) ==
  IF ~Dup!Alphanumeric(c) THEN [gap |-> TRUE, out |-> acc.out]
  ELSE [gap |-> FALSE,
        out |-> acc.out \o (IF acc.gap /\ acc.out # <<>> THEN <<" ">> ELSE <<>>) \o <<Dup!Lower(c)>>]
NoHash == [gap |-> FALSE, out |-> <<>>]
Letters == {"a", " "}
Hashes == [gap : BOOLEAN, out : Seq(Letters)]

LEMMA HashedType ==
  ASSUME NEW acc \in Hashes, NEW c
  PROVE  Hashed(acc, c) \in Hashes
<1>1. PICK o \in Seq(Letters) : o = acc.out
  BY DEF Hashes
<1>2. CASE Dup!Alphanumeric(c)
  <2>1. PICK a \in Letters, s \in Letters : a = "a" /\ s = " "
    BY DEF Letters
  <2>2. Dup!Lower(c) = a
    BY <1>2, <2>1 DEF Dup!Alphanumeric, Dup!Lower
  <2>3. o \o <<>> \o <<a>> \in Seq(Letters) /\ o \o <<s>> \o <<a>> \in Seq(Letters)
    BY <1>1
  <2> QED
    BY <1>1, <1>2, <2>1, <2>2, <2>3 DEF Hashed, Hashes
<1>3. CASE ~Dup!Alphanumeric(c)
  BY <1>1, <1>3 DEF Hashed, Hashes
<1> QED
  BY <1>2, <1>3

\* A title is hashed character by character.
LEMMA HashWalks ==
  ASSUME NEW C, NEW title \in Seq(C)
  PROVE  \E v : /\ v[0] = NoHash /\ \A n \in 1..Len(title) : v[n] = Hashed(v[n - 1], title[n])
                /\ Dup!TitleHash(title) = v[Len(title)].out
<1> DEFINE N == Len(title)
           step == [n \in 1..N |-> [acc \in Hashes |-> Hashed(acc, title[n])]]
           Is(it) == it = [S \in SUBSET DOMAIN title |->
                             IF S = {} THEN NoHash ELSE Hashed(it[S \ {Max(S)}], title[Max(S)])]
<1>1. N \in Nat /\ DOMAIN title = 1..N
  OBVIOUS
<1>2. \E it : Is(it)
  <2>1. step \in [1..N -> [Hashes -> Hashes]]
    BY HashedType
  <2>2. \A n \in 1..N, acc \in Hashes : step[n][acc] = Hashed(acc, title[n])
    OBVIOUS
  <2>3. PICK none \in Hashes : none = NoHash
    <3>1. NoHash \in Hashes
      BY DEF NoHash, Hashes
    <3> QED
      BY <3>1
  <2> HIDE DEF step, N
  <2>4. PICK it : /\ FoldsBy(it, N, none, step)
                  /\ \A S \in SUBSET (1..N) : S # {} => Max(S) \in 1..N /\ it[S \ {Max(S)}] \in Hashes
    BY <1>1, <2>1, FoldSteps
  <2>5. \A S \in SUBSET (1..N) : it[S] = IF S = {} THEN NoHash ELSE Hashed(it[S \ {Max(S)}], title[Max(S)])
    BY <2>2, <2>3, <2>4 DEF FoldsBy
  <2> QED
    BY <1>1, <2>4, <2>5 DEF FoldsBy
<1>3. PICK it : it = CHOOSE f : Is(f)
  OBVIOUS
<1>4. Is(it)
  BY <1>2, <1>3
<1>5. Dup!TitleHash(title) = it[DOMAIN title].out
  BY <1>3 DEF Dup!TitleHash, Dup!FoldLeft, Dup!MapThenFoldSet, Dup!Max, Max, Hashed, NoHash
<1> HIDE DEF N
<1>6. PICK v : IsWalk(v, it, N)
  BY <1>1, Walked
<1>7. v[0] = NoHash
  BY <1>1, <1>4, <1>6 DEF IsWalk
<1>8. ASSUME NEW n \in 1..N PROVE v[n] = Hashed(v[n - 1], title[n])
  <2>1. PICK S : S = 1..n
    OBVIOUS
  <2>2. S \in SUBSET (1..N) /\ S # {} /\ Max(S) = n
    BY <1>1, <2>1, Prefix
  <2>3. it[S] = Hashed(it[S \ {Max(S)}], title[Max(S)])
    BY <1>1, <1>4, <2>2
  <2>4. v[n] = it[S] /\ v[n - 1] = it[S \ {Max(S)}]
    BY <1>6, <2>1 DEF IsWalk
  <2> QED
    BY <2>2, <2>3, <2>4
<1>9. Dup!TitleHash(title) = v[N].out
  BY <1>1, <1>5, <1>6 DEF IsWalk
<1> QED
  BY <1>7, <1>8, <1>9 DEF N

Longer(words, c) == [words EXCEPT ![Len(words)] = Append(@, c)]
WordedBy(acc, c) ==
  IF c = " " THEN [fresh |-> TRUE, words |-> acc.words]
  ELSE [fresh |-> FALSE,
        words |-> IF acc.fresh THEN Append(acc.words, <<c>>)
                  ELSE Longer(acc.words, c)]
NoWords == [fresh |-> TRUE, words |-> <<>>]
Wordings(A) == [fresh : BOOLEAN, words : Texts(A)]

LEMMA WordedByType ==
  ASSUME NEW A, NEW acc \in Wordings(A), NEW c \in A
  PROVE  WordedBy(acc, c) \in Wordings(A)
<1>1. PICK ws \in Seq(Seq(A)) : ws = acc.words
  BY DEF Wordings, Texts
<1>2. Append(ws, <<c>>) \in Seq(Seq(A))
  BY <1>1
<1>3. [ws EXCEPT ![Len(ws)] = Append(@, c)] \in Seq(Seq(A))
  <2>1. CASE ws = <<>>
    <3>1. Len(ws) \notin DOMAIN ws /\ ws \in [1..0 -> Seq(A)]
      BY <2>1
    <3>2. PICK x : x = Append(ws[Len(ws)], c)
      OBVIOUS
    <3>3. [ws EXCEPT ![Len(ws)] = x] = ws
      BY <3>1
    <3> QED
      BY <3>2, <3>3
  <2>2. CASE ws # <<>>
    <3>1. Len(ws) \in DOMAIN ws /\ ws[Len(ws)] \in Seq(A)
      BY <1>1, <2>2
    <3>2. Append(ws[Len(ws)], c) \in Seq(A)
      BY <3>1
    <3> QED
      BY <1>1, <3>1, <3>2
  <2> QED
    BY <2>1, <2>2
<1> QED
  BY <1>1, <1>2, <1>3 DEF WordedBy, Wordings, Texts, Longer

\* A text is taken apart character by character.
LEMMA WordWalks ==
  ASSUME NEW A, NEW text \in Seq(A)
  PROVE  \E v : /\ v[0] = NoWords /\ \A n \in 1..Len(text) : v[n] = WordedBy(v[n - 1], text[n])
                /\ Dup!Worded(text) = v[Len(text)]
<1> DEFINE N == Len(text)
           step == [n \in 1..N |-> [acc \in Wordings(A) |-> WordedBy(acc, text[n])]]
           Is(it) == it = [S \in SUBSET DOMAIN text |->
                             IF S = {} THEN NoWords ELSE WordedBy(it[S \ {Max(S)}], text[Max(S)])]
<1>1. N \in Nat /\ DOMAIN text = 1..N /\ \A n \in 1..N : text[n] \in A
  OBVIOUS
<1>2. \E it : Is(it)
  <2>1. step \in [1..N -> [Wordings(A) -> Wordings(A)]]
    BY <1>1, WordedByType
  <2>2. \A n \in 1..N, acc \in Wordings(A) : step[n][acc] = WordedBy(acc, text[n])
    OBVIOUS
  <2>3. PICK none \in Wordings(A) : none = NoWords
    <3>1. NoWords \in Wordings(A)
      BY DEF NoWords, Wordings, Texts
    <3> QED
      BY <3>1
  <2> HIDE DEF step, N
  <2>4. PICK it : /\ FoldsBy(it, N, none, step)
                  /\ \A S \in SUBSET (1..N) : S # {} => Max(S) \in 1..N /\ it[S \ {Max(S)}] \in Wordings(A)
    BY <1>1, <2>1, FoldSteps
  <2>5. \A S \in SUBSET (1..N) : it[S] = IF S = {} THEN NoWords ELSE WordedBy(it[S \ {Max(S)}], text[Max(S)])
    BY <2>2, <2>3, <2>4 DEF FoldsBy
  <2> QED
    BY <1>1, <2>4, <2>5 DEF FoldsBy
<1>3. PICK it : it = CHOOSE f : Is(f)
  OBVIOUS
<1>4. Is(it)
  BY <1>2, <1>3
<1>5. Dup!Worded(text) = it[DOMAIN text]
  BY <1>3 DEF Dup!Worded, Dup!FoldLeft, Dup!MapThenFoldSet, Dup!Max, Max, WordedBy, Longer, NoWords
<1> HIDE DEF N
<1>6. PICK v : IsWalk(v, it, N)
  BY <1>1, Walked
<1>7. v[0] = NoWords
  BY <1>1, <1>4, <1>6 DEF IsWalk
<1>8. ASSUME NEW n \in 1..N PROVE v[n] = WordedBy(v[n - 1], text[n])
  <2>1. PICK S : S = 1..n
    OBVIOUS
  <2>2. S \in SUBSET (1..N) /\ S # {} /\ Max(S) = n
    BY <1>1, <2>1, Prefix
  <2>3. it[S] = WordedBy(it[S \ {Max(S)}], text[Max(S)])
    BY <1>1, <1>4, <2>2
  <2>4. v[n] = it[S] /\ v[n - 1] = it[S \ {Max(S)}]
    BY <1>6, <2>1 DEF IsWalk
  <2> QED
    BY <2>2, <2>3, <2>4
<1>9. Dup!Worded(text) = v[N]
  BY <1>1, <1>5, <1>6 DEF IsWalk
<1> QED
  BY <1>7, <1>8, <1>9 DEF N

\* A character more.
LEMMA WordMore ==
  ASSUME NEW A, NEW text \in Seq(A), NEW c \in A
  PROVE  Dup!Worded(Append(text, c)) = WordedBy(Dup!Worded(text), c)
<1> DEFINE more == Append(text, c)
           N == Len(text)
<1>1. /\ more \in Seq(A) /\ N \in Nat /\ Len(more) = N + 1 /\ more[N + 1] = c
      /\ \A n \in 1..N : more[n] = text[n]
  OBVIOUS
<1> HIDE DEF more, N
<1>2. PICK v : /\ v[0] = NoWords /\ \A n \in 1..N : v[n] = WordedBy(v[n - 1], text[n])
               /\ Dup!Worded(text) = v[N]
  BY WordWalks DEF N
<1>3. PICK w : /\ w[0] = NoWords /\ \A n \in 1..(N + 1) : w[n] = WordedBy(w[n - 1], more[n])
               /\ Dup!Worded(more) = w[N + 1]
  BY <1>1, WordWalks
<1>4. v[N] = w[N]
  <2>1. \A n \in 1..N : w[n] = WordedBy(w[n - 1], text[n])
    BY <1>1, <1>3
  <2>2. \A n \in 1..N : v[n - 1] = w[n - 1] => v[n] = w[n]
    BY <1>2, <2>1
  <2> QED
    BY <1>1, <1>2, <1>3, <2>2, WalksAgree
<1>5. w[N + 1] = WordedBy(w[N], c)
  <2>1. N + 1 \in 1..(N + 1) /\ N + 1 - 1 = N
    BY <1>1
  <2> QED
    BY <1>1, <1>3, <2>1
<1> QED
  BY <1>2, <1>3, <1>4, <1>5 DEF more

\* Words with a space between each two.
Joined(acc, w) == acc \o (IF acc # <<>> THEN <<" ">> ELSE <<>>) \o w
Join(words) == FoldLeft(Joined, <<>>, words)

LEMMA JoinedType ==
  ASSUME NEW acc \in Seq(Letters), NEW w \in Seq(Letters)
  PROVE  /\ Joined(acc, w) \in Seq(Letters)
         /\ \A c \in Letters : Joined(acc, Append(w, c)) = Append(Joined(acc, w), c)
<1>1. PICK s \in Letters : s = " "
  BY DEF Letters
<1>2. PICK sep \in Seq(Letters) : sep = IF acc # <<>> THEN <<s>> ELSE <<>>
  <2>1. <<s>> \in Seq(Letters) /\ <<>> \in Seq(Letters)
    OBVIOUS
  <2> QED
    BY <2>1
<1>3. acc \o sep \in Seq(Letters)
  OBVIOUS
<1>4. PICK b \in Seq(Letters) : b = acc \o sep
  BY <1>3
<1>5. \A c \in Letters : b \o Append(w, c) = Append(b \o w, c)
  OBVIOUS
<1>6. b \o w \in Seq(Letters)
  OBVIOUS
<1>7. \A u : Joined(acc, u) = b \o u
  BY <1>1, <1>2, <1>4 DEF Joined
<1> QED
  BY <1>5, <1>6, <1>7

\* They are joined word by word.
LEMMA JoinWalks ==
  ASSUME NEW words \in Texts(Letters)
  PROVE  \E v : /\ v[0] = <<>> /\ \A n \in 1..Len(words) : v[n] = Joined(v[n - 1], words[n])
                /\ Join(words) = v[Len(words)]
<1> DEFINE N == Len(words)
           step == [n \in 1..N |-> [acc \in Seq(Letters) |-> Joined(acc, words[n])]]
           Is(it) == it = [S \in SUBSET DOMAIN words |->
                             IF S = {} THEN <<>> ELSE Joined(it[S \ {Max(S)}], words[Max(S)])]
<1>1. N \in Nat /\ DOMAIN words = 1..N /\ \A n \in 1..N : words[n] \in Seq(Letters)
  BY DEF Texts
<1>2. \E it : Is(it)
  <2>1. step \in [1..N -> [Seq(Letters) -> Seq(Letters)]]
    BY <1>1, JoinedType
  <2>2. \A n \in 1..N, acc \in Seq(Letters) : step[n][acc] = Joined(acc, words[n])
    OBVIOUS
  <2>3. PICK none \in Seq(Letters) : none = <<>>
    <3>1. <<>> \in Seq(Letters)
    OBVIOUS
    <3> QED
      BY <3>1
  <2> HIDE DEF step, N
  <2>4. PICK it : /\ FoldsBy(it, N, none, step)
                  /\ \A S \in SUBSET (1..N) : S # {} => Max(S) \in 1..N /\ it[S \ {Max(S)}] \in Seq(Letters)
    BY <1>1, <2>1, FoldSteps
  <2>5. \A S \in SUBSET (1..N) : it[S] = IF S = {} THEN <<>> ELSE Joined(it[S \ {Max(S)}], words[Max(S)])
    BY <2>2, <2>3, <2>4 DEF FoldsBy
  <2> QED
    BY <1>1, <2>4, <2>5 DEF FoldsBy
<1>3. PICK it : it = CHOOSE f : Is(f)
  OBVIOUS
<1>4. Is(it)
  BY <1>2, <1>3
<1>5. Join(words) = it[DOMAIN words]
  BY <1>3 DEF Join, FoldLeft, MapThenFoldSet
<1> HIDE DEF N
<1>6. PICK v : IsWalk(v, it, N)
  BY <1>1, Walked
<1>7. v[0] = <<>>
  BY <1>1, <1>4, <1>6 DEF IsWalk
<1>8. ASSUME NEW n \in 1..N PROVE v[n] = Joined(v[n - 1], words[n])
  <2>1. PICK S : S = 1..n
    OBVIOUS
  <2>2. S \in SUBSET (1..N) /\ S # {} /\ Max(S) = n
    BY <1>1, <2>1, Prefix
  <2>3. it[S] = Joined(it[S \ {Max(S)}], words[Max(S)])
    BY <1>1, <1>4, <2>2
  <2>4. v[n] = it[S] /\ v[n - 1] = it[S \ {Max(S)}]
    BY <1>6, <2>1 DEF IsWalk
  <2> QED
    BY <2>2, <2>3, <2>4
<1>9. Join(words) = v[N]
  BY <1>1, <1>5, <1>6 DEF IsWalk
<1> QED
  BY <1>7, <1>8, <1>9 DEF N

\* A word more.
LEMMA JoinMore ==
  ASSUME NEW words \in Texts(Letters), NEW word \in Seq(Letters)
  PROVE  Join(Append(words, word)) = Joined(Join(words), word)
<1> DEFINE more == Append(words, word)
           N == Len(words)
<1>1. /\ more \in Texts(Letters) /\ N \in Nat /\ Len(more) = N + 1 /\ more[N + 1] = word
      /\ \A n \in 1..N : more[n] = words[n]
  BY DEF Texts
<1> HIDE DEF more, N
<1>2. PICK v : /\ v[0] = <<>> /\ \A n \in 1..N : v[n] = Joined(v[n - 1], words[n])
               /\ Join(words) = v[N]
  BY JoinWalks DEF N
<1>3. PICK w : /\ w[0] = <<>> /\ \A n \in 1..(N + 1) : w[n] = Joined(w[n - 1], more[n])
               /\ Join(more) = w[N + 1]
  BY <1>1, JoinWalks
<1>4. v[N] = w[N]
  <2>1. \A n \in 1..N : w[n] = Joined(w[n - 1], words[n])
    BY <1>1, <1>3
  <2>2. \A n \in 1..N : v[n - 1] = w[n - 1] => v[n] = w[n]
    BY <1>2, <2>1
  <2> QED
    BY <1>1, <1>2, <1>3, <2>2, WalksAgree
<1>5. w[N + 1] = Joined(w[N], word)
  <2>1. N + 1 \in 1..(N + 1) /\ N + 1 - 1 = N
    BY <1>1
  <2> QED
    BY <1>1, <1>3, <2>1
<1> QED
  BY <1>2, <1>3, <1>4, <1>5 DEF more

LEMMA JoinNone == Join(<<>>) = <<>>
<1>1. <<>> \in Texts(Letters) /\ Len(<<>>) = 0
  BY DEF Texts
<1> QED
  BY <1>1, JoinWalks

LEMMA WordNone == Dup!Worded(<<>>) = NoWords
<1>1. <<>> \in Seq({}) /\ Len(<<>>) = 0
  OBVIOUS
<1> QED
  BY <1>1, WordWalks

LEMMA JoinType ==
  ASSUME NEW words \in Texts(Letters)
  PROVE  Join(words) \in Seq(Letters)
<1> DEFINE N == Len(words)
           K == [n \in 0..N |-> Seq(Letters)]
<1>1. N \in Nat /\ \A n \in 1..N : words[n] \in Seq(Letters)
  BY DEF Texts
<1>2. PICK v : /\ v[0] = <<>> /\ \A n \in 1..N : v[n] = Joined(v[n - 1], words[n])
               /\ Join(words) = v[N]
  BY JoinWalks
<1>3. v[0] \in K[0]
  BY <1>1, <1>2
<1>4. \A n \in 1..N : v[n - 1] \in K[n - 1] => v[n] \in K[n]
  BY <1>1, <1>2, JoinedType
<1>5. K[N] = Seq(Letters)
  BY <1>1
<1> HIDE DEF K, N
<1> QED
  BY <1>1, <1>2, <1>3, <1>4, <1>5, WalkKeeps

\* The last word grows: so does the text the words are joined to.
LEMMA LastGrows ==
  ASSUME NEW words \in Texts(Letters), words # <<>>, NEW c \in Letters
  PROVE  Join(Longer(words, c)) = Append(Join(words), c)
<1>1. words \in Seq(Seq(Letters)) /\ Len(words) \in Nat /\ Len(words) > 0
  BY SMTT(30) DEF Texts
<1>2. PICK m \in Nat : Len(words) = m + 1
  <2>1. Len(words) - 1 \in Nat /\ Len(words) = (Len(words) - 1) + 1
    BY <1>1
  <2> QED
    BY <2>1
<1>3. PICK ws \in Seq(Seq(Letters)) : ws = SubSeq(words, 1, m)
  <2>1. SubSeq(words, 1, m) \in Seq(Seq(Letters))
    BY <1>1, <1>2
  <2> QED
    BY <2>1
<1>4. PICK w \in Seq(Letters) : w = words[m + 1]
  BY <1>1, <1>2
<1>5. Len(ws) = m /\ \A i \in 1..m : ws[i] = words[i]
  BY <1>1, <1>2, <1>3
<1>6. PICK v \in Seq(Letters) : v = Append(w, c)
  <2>1. Append(w, c) \in Seq(Letters)
    OBVIOUS
  <2> QED
    BY <2>1
<1>7. PICK more \in Seq(Seq(Letters)) : more = [words EXCEPT ![m + 1] = v]
  <2>1. [words EXCEPT ![m + 1] = v] \in Seq(Seq(Letters))
    BY <1>1, <1>2
  <2> QED
    BY <2>1
<1>8. more \in Seq(Seq(Letters)) /\ Len(more) = m + 1 /\ more[m + 1] = v /\ \A i \in 1..m : more[i] = words[i]
  BY <1>1, <1>2, <1>7
<1>9. PICK a \in Seq(Seq(Letters)) : a = Append(ws, v)
  <2>1. Append(ws, v) \in Seq(Seq(Letters))
    OBVIOUS
  <2> QED
    BY <2>1
<1>10. Len(a) = m + 1 /\ a[m + 1] = v /\ \A i \in 1..m : a[i] = ws[i]
  BY <1>5, <1>9
<1>11. more = a
  <2>1. \A i \in 1..m : more[i] = a[i]
    <3>1. \A i \in 1..m : more[i] = words[i] /\ words[i] = ws[i] /\ ws[i] = a[i]
      BY <1>5, <1>8, <1>10
    <3> QED
      BY <3>1
  <2>2. \A i \in 1..(m + 1) : i \in 1..m \/ i = m + 1
    OBVIOUS
  <2>3. Len(more) = Len(a) /\ \A i \in 1..Len(more) : more[i] = a[i]
    BY <1>8, <1>10, <2>1, <2>2
  <2> QED
    BY <2>3, SeqEqual
<1>12. PICK b \in Seq(Seq(Letters)) : b = Append(ws, w)
  <2>1. Append(ws, w) \in Seq(Seq(Letters))
    OBVIOUS
  <2> QED
    BY <2>1
<1>13. Len(b) = m + 1 /\ b[m + 1] = w /\ \A i \in 1..m : b[i] = ws[i]
  <2>1. Len(ws) = m
    BY <1>5
  <2>2. Len(b) = m + 1 /\ b[m + 1] = w
    BY <1>12, <2>1
  <2>3. \A i \in 1..m : b[i] = ws[i]
    BY <1>12, <2>1
  <2> QED
    BY <2>2, <2>3
<1>14. words = b
  <2>1. \A i \in 1..m : words[i] = b[i]
    BY <1>5, <1>13
  <2>2. \A i \in 1..(m + 1) : i \in 1..m \/ i = m + 1
    OBVIOUS
  <2>3. Len(words) = Len(b) /\ \A i \in 1..Len(words) : words[i] = b[i]
    BY <1>2, <1>4, <1>13, <2>1, <2>2
  <2> QED
    BY <1>1, <2>3, SeqEqual
<1>15. Join(words) = Joined(Join(ws), w) /\ Join(more) = Joined(Join(ws), v)
  BY <1>9, <1>11, <1>12, <1>14, JoinMore DEF Texts
<1>16. Join(ws) \in Seq(Letters)
  <2>1. ws \in Texts(Letters)
    BY DEF Texts
  <2> QED
    BY <2>1, JoinType
<1>17. Join(more) = Append(Join(words), c)
  BY <1>6, <1>15, <1>16, JoinedType
<1> QED
  BY <1>2, <1>4, <1>6, <1>7, <1>17 DEF Longer

\* What a character does to the words.
LEMMA WordedFields ==
  ASSUME NEW A, NEW acc \in Wordings(A), NEW c
  PROVE  /\ c = " " => WordedBy(acc, c).fresh /\ WordedBy(acc, c).words = acc.words
         /\ c # " " => ~WordedBy(acc, c).fresh
         /\ c # " " /\ acc.fresh => WordedBy(acc, c).words = Append(acc.words, <<c>>)
         /\ c # " " /\ ~acc.fresh => WordedBy(acc, c).words = Longer(acc.words, c)
<1>1. acc.fresh \in BOOLEAN
  BY DEF Wordings
<1>2. CASE c = " "
  BY <1>2 DEF WordedBy
<1>3. CASE c # " " /\ acc.fresh
  BY <1>1, <1>3 DEF WordedBy
<1>4. CASE c # " " /\ ~acc.fresh
  BY <1>1, <1>4 DEF WordedBy
<1> QED
  BY <1>1, <1>2, <1>3, <1>4

LEMMA WordGoesOn ==
  ASSUME NEW A, NEW acc \in Wordings(A), NEW c, c # " ", NEW y, y = WordedBy(acc, c)
  PROVE  /\ ~y.fresh
         /\ ~acc.fresh => y.words = Longer(acc.words, c)
<1>1. acc.fresh \in BOOLEAN
  BY DEF Wordings
<1>2. CASE acc.fresh
  BY <1>1, <1>2 DEF WordedBy
<1>3. CASE ~acc.fresh
  BY <1>1, <1>3 DEF WordedBy
<1> QED
  BY <1>1, <1>2, <1>3

LEMMA WordedType ==
  ASSUME NEW A, NEW text \in Seq(A)
  PROVE  Dup!Worded(text) \in Wordings(A)
<1> DEFINE N == Len(text)
           K == [n \in 0..N |-> Wordings(A)]
<1>1. N \in Nat /\ \A n \in 1..N : text[n] \in A
  OBVIOUS
<1>2. PICK v : /\ v[0] = NoWords /\ \A n \in 1..N : v[n] = WordedBy(v[n - 1], text[n])
               /\ Dup!Worded(text) = v[N]
  BY WordWalks
<1>3. v[0] \in K[0]
  BY <1>1, <1>2 DEF NoWords, Wordings, Texts
<1>4. \A n \in 1..N : v[n - 1] \in K[n - 1] => v[n] \in K[n]
  BY <1>1, <1>2, WordedByType
<1>5. K[N] = Wordings(A)
  BY <1>1
<1> HIDE DEF K, N
<1> QED
  BY <1>1, <1>2, <1>3, <1>4, <1>5, WalkKeeps

\* What the hash of a title is after some of its characters, and what its words are.
Titled(h, w) ==
  /\ h \in Hashes /\ w \in Wordings(Letters)
  /\ Dup!Worded(h.out).fresh <=> h.out = <<>>
  /\ Dup!Worded(h.out).words = w.words
  /\ w.fresh <=> h.out = <<>> \/ h.gap
  /\ h.out = Join(w.words)

Read(c) == IF Dup!Alphanumeric(c) THEN Dup!Lower(c) ELSE " "

LEMMA TitledMore ==
  ASSUME NEW h, NEW w, Titled(h, w), NEW c
  PROVE  Titled(Hashed(h, c), WordedBy(w, Read(c)))
<1>1. PICK a \in Letters, s \in Letters : a = "a" /\ s = " " /\ a # s
  BY DEF Letters
<1>2. PICK o \in Seq(Letters), ws \in Texts(Letters) : o = h.out /\ ws = w.words
  BY DEF Titled, Hashes, Wordings
<1>3. /\ Dup!Worded(o).fresh <=> o = <<>>
      /\ Dup!Worded(o).words = ws
      /\ w.fresh <=> o = <<>> \/ h.gap
      /\ o = Join(ws)
  BY <1>2 DEF Titled
<1>4. PICK g \in Hashes : g = Hashed(h, c)
  BY HashedType DEF Titled
<1>5. PICK x : x = WordedBy(w, Read(c))
  OBVIOUS
<1>6. w \in Wordings(Letters) /\ w.fresh \in BOOLEAN
  BY DEF Titled, Wordings
<1>7. x \in Wordings(Letters)
  <2>1. Read(c) \in Letters
    BY DEF Read, Letters, Dup!Alphanumeric, Dup!Lower
  <2> QED
    BY <1>5, <2>1, WordedByType DEF Titled
<1>8. CASE ~Dup!Alphanumeric(c)
  <2>1. g.gap /\ g.out = o
    BY <1>2, <1>4, <1>8 DEF Hashed
  <2>2. x.fresh /\ x.words = ws
    BY <1>2, <1>5, <1>8, <1>6, WordedFields DEF Read
  <2>3. Titled(g, x)
    BY <1>3, <1>7, <2>1, <2>2 DEF Titled
  <2> QED
    BY <1>4, <1>5, <2>3
<1>9. CASE Dup!Alphanumeric(c)
  <2>1. Dup!Lower(c) = a /\ Read(c) = a
    BY <1>1, <1>9 DEF Dup!Alphanumeric, Dup!Lower, Read
  <2>2. ~g.gap /\ g.out = o \o (IF h.gap /\ o # <<>> THEN <<s>> ELSE <<>>) \o <<a>>
    BY <1>1, <1>2, <1>4, <1>9, <2>1 DEF Hashed
  <2>3. ~x.fresh
    BY <1>1, <1>5, <1>6, <2>1, WordedFields
  <2>4. ASSUME NEW t \in Seq(Letters)
        PROVE  /\ Dup!Worded(Append(t, s)).fresh /\ Dup!Worded(Append(t, s)).words = Dup!Worded(t).words
               /\ ~Dup!Worded(Append(t, a)).fresh
               /\ Dup!Worded(t).fresh =>
                    Dup!Worded(Append(t, a)).words = Append(Dup!Worded(t).words, <<a>>)
               /\ ~Dup!Worded(t).fresh =>
                    Dup!Worded(Append(t, a)).words = Longer(Dup!Worded(t).words, a)
    <3>1. Dup!Worded(Append(t, s)) = WordedBy(Dup!Worded(t), s) /\ Dup!Worded(Append(t, a)) = WordedBy(Dup!Worded(t), a)
      BY WordMore
    <3>2. PICK acc \in Wordings(Letters) : acc = Dup!Worded(t)
      BY WordedType
    <3>3. WordedBy(acc, s).fresh /\ WordedBy(acc, s).words = acc.words
      BY <1>1, WordedFields
    <3>4. PICK y : y = WordedBy(acc, a)
      OBVIOUS
    <3>5. a # " " /\ acc.fresh \in BOOLEAN
      BY <1>1, <3>2 DEF Wordings
    <3>6. ~y.fresh
      BY <3>4, <3>5, WordGoesOn
    <3>7. CASE acc.fresh
      <4>1. y.words = Append(acc.words, <<a>>)
        BY <3>4, <3>5, <3>7, WordedFields
      <4> QED
        BY <3>1, <3>2, <3>3, <3>4, <3>6, <3>7, <4>1
    <3>8. CASE ~acc.fresh
      <4>1. y.words = Longer(acc.words, a)
        BY <3>4, <3>5, <3>8, WordGoesOn
      <4> QED
        BY <3>1, <3>2, <3>3, <3>4, <3>6, <3>8, <4>1
    <3> QED
      BY <3>7, <3>8
  <2>5. /\ o \o <<>> \o <<a>> = Append(o, a) /\ o \o <<s>> \o <<a>> = Append(Append(o, s), a)
        /\ Append(o, s) \in Seq(Letters) /\ Append(o, a) \in Seq(Letters)
        /\ Append(o, a) # <<>> /\ Append(Append(o, s), a) # <<>>
    OBVIOUS
  <2>6. PICK one \in Seq(Letters) : one = <<a>>
    <3>1. <<a>> \in Seq(Letters)
      OBVIOUS
    <3> QED
      BY <3>1
  <2>7. CASE w.fresh
    <3>1. x.words = Append(ws, one)
      BY <1>1, <1>2, <1>5, <1>6, <2>1, <2>6, <2>7, WordedFields
    <3>2. g.out # <<>> /\ ~Dup!Worded(g.out).fresh /\ Dup!Worded(g.out).words = Append(ws, one)
      <4>1. CASE o = <<>>
        <5>1. g.out = Append(o, a)
          BY <2>2, <2>5, <4>1
        <5> QED
          BY <1>3, <2>4, <2>5, <2>6, <4>1, <5>1
      <4>2. CASE o # <<>>
        <5>1. g.out = Append(Append(o, s), a)
          BY <1>3, <2>2, <2>5, <2>7, <4>2
        <5> QED
          BY <1>3, <2>4, <2>5, <2>6, <5>1
      <4> QED
        BY <4>1, <4>2
    <3>3. Join(Append(ws, one)) = Joined(o, one)
      BY <1>3, JoinMore
    <3>4. g.out = Joined(o, one)
      BY <1>1, <1>3, <2>2, <2>6, <2>7 DEF Joined
    <3>5. Titled(g, x)
      BY <1>7, <2>2, <2>3, <3>1, <3>2, <3>3, <3>4 DEF Titled
    <3> QED
      BY <1>4, <1>5, <3>5
  <2>8. CASE ~w.fresh
    <3>1. o # <<>> /\ ~h.gap /\ g.out = Append(o, a)
      BY <1>3, <2>2, <2>5, <2>8
    <3>2. PICK more : more = Longer(ws, a)
      OBVIOUS
    <3>3. x.words = more
      BY <1>1, <1>2, <1>5, <1>6, <2>1, <2>8, <3>2, WordedFields
    <3>4. ~Dup!Worded(g.out).fresh /\ Dup!Worded(g.out).words = more /\ g.out # <<>>
      BY <1>3, <2>4, <2>5, <3>1, <3>2
    <3>5. Join(more) = Append(o, a)
      <4>1. ws # <<>>
        BY <1>3, <3>1, JoinNone
      <4> QED
        BY <1>3, <3>2, <4>1, LastGrows
    <3>6. Titled(g, x)
      BY <1>7, <2>2, <2>3, <3>1, <3>3, <3>4, <3>5 DEF Titled
    <3> QED
      BY <1>4, <1>5, <3>6
  <2> QED
    BY <2>7, <2>8
<1> QED
  BY <1>8, <1>9

\* The hash of a title is its words, joined, and the words of its hash are its words.
LEMMA HashIsWords ==
  ASSUME NEW C, NEW title \in Seq(C)
  PROVE  /\ Dup!TitleHash(title) = Join(Dup!TitleWords(title))
         /\ Dup!Words(Dup!TitleHash(title)) = Dup!TitleWords(title)
<1> DEFINE N == Len(title)
           text == [n \in DOMAIN title |-> Read(title[n])]
<1>1. N \in Nat /\ text \in Seq(Letters) /\ Len(text) = N /\ \A n \in 1..N : text[n] = Read(title[n])
  <2>1. \A c : Read(c) \in Letters
    BY DEF Read, Letters, Dup!Alphanumeric, Dup!Lower
  <2>2. N \in Nat /\ DOMAIN title = 1..N
    OBVIOUS
  <2>3. text \in [1..N -> Letters]
    BY <2>1, <2>2
  <2>4. text \in Seq(Letters)
    BY <2>2, <2>3
  <2> QED
    BY <2>2, <2>3, <2>4
<1>2. PICK v : /\ v[0] = NoHash /\ \A n \in 1..N : v[n] = Hashed(v[n - 1], title[n])
               /\ Dup!TitleHash(title) = v[N].out
  BY HashWalks
<1>3. PICK w : /\ w[0] = NoWords /\ \A n \in 1..N : w[n] = WordedBy(w[n - 1], text[n])
               /\ Dup!Worded(text) = w[N]
  <2> HIDE DEF text
  <2> QED
    BY <1>1, WordWalks
<1>4. Dup!TitleWords(title) = w[N].words
  BY <1>3 DEF Dup!TitleWords, Dup!Words, Read
<1> DEFINE G == {n \in Nat : n <= N => Titled(v[n], w[n])}
<1> HIDE DEF text, N
<1>5. 0 \in G
  <2>1. /\ NoHash \in Hashes /\ NoHash.out = <<>> /\ NoWords \in Wordings(Letters)
        /\ NoWords.fresh /\ NoWords.words = <<>>
    BY DEF NoHash, NoWords, Hashes, Wordings, Texts
  <2>2. Titled(NoHash, NoWords)
    BY <2>1, WordNone, JoinNone DEF Titled
  <2> QED
    BY <1>2, <1>3, <2>2
<1>6. ASSUME NEW n \in Nat, n \in G PROVE n + 1 \in G
  <2>1. SUFFICES ASSUME n + 1 <= N PROVE Titled(v[n + 1], w[n + 1])
    OBVIOUS
  <2>2. n + 1 \in 1..N /\ n + 1 - 1 = n /\ n <= N
    BY <1>1, <2>1
  <2>3. Titled(v[n], w[n])
    BY <1>6, <2>2
  <2>4. v[n + 1] = Hashed(v[n], title[n + 1]) /\ w[n + 1] = WordedBy(w[n], Read(title[n + 1]))
    BY <1>1, <1>2, <1>3, <2>2
  <2> QED
    BY <2>3, <2>4, TitledMore
<1>7. Nat \subseteq G
  <2> HIDE DEF G
  <2> QED
    BY <1>5, <1>6, Induction
<1>8. Titled(v[N], w[N])
  BY <1>1, <1>7
<1> QED
  BY <1>2, <1>4, <1>8 DEF Titled, Dup!Words

\* Two titles of any length have one hash exactly when they have the same words, whatever
\* stands between them and whatever their case.
THEOREM TitlesAreTheirWords ==
  ASSUME NEW C, NEW s \in Seq(C), NEW t \in Seq(C)
  PROVE  Dup!TitlesAgree(s, t)
<1>1. /\ Dup!TitleHash(s) = Join(Dup!TitleWords(s)) /\ Dup!TitleHash(t) = Join(Dup!TitleWords(t))
      /\ Dup!Words(Dup!TitleHash(s)) = Dup!TitleWords(s) /\ Dup!Words(Dup!TitleHash(t)) = Dup!TitleWords(t)
  BY HashIsWords
<1> QED
  BY <1>1 DEF Dup!TitlesAgree

-----------------------------------------------------------------------------
(* Calendar *)

\* A day has 86400 seconds on a local clock, and every second is an instant.
Cal == INSTANCE Calendar WITH DayLength <- 86400, Instants <- Int

\* A midnight that is shown once is shown at one instant.
LEMMA OneMidnight ==
  ASSUME NEW old \in Int, NEW new \in Int, NEW from \in Int, NEW day \in Int,
         Cal!Single(Cal!Zone(old, new, from), day)
  PROVE  LET z == Cal!Zone(old, new, from) IN
         /\ Cal!MidnightOf(z, day) \in Cal!Midnights(z, day)
         /\ \A t \in Cal!Midnights(z, day) : t = Cal!MidnightOf(z, day)
<1> DEFINE M == Cal!Midnights(Cal!Zone(old, new, from), day)
<1>1. PICK t \in Int : M = {t}
  BY DEF Cal!Single
<1>2. Cal!MidnightOf(Cal!Zone(old, new, from), day) \in M
  BY <1>1 DEF Cal!MidnightOf
<1> QED
  BY <1>1, <1>2

\* The bounds of any day that has them, in any zone that changes its clock once at any
\* second, hold the instants of that day and no other.
THEOREM BoundsAreRight ==
  ASSUME NEW old \in Int, NEW new \in Int, NEW from \in Int, NEW day \in Int
  PROVE  Cal!BoundsAreTheDay(Cal!Zone(old, new, from), day)
<1> DEFINE z == Cal!Zone(old, new, from)
<1>1. SUFFICES ASSUME Cal!HasBounds(z, day), NEW t \in Int
      PROVE  Cal!DateInZone(z, t) = day <=> Cal!DayBounds(z, day).from <= t /\ t < Cal!DayBounds(z, day).to
  BY DEF Cal!BoundsAreTheDay
<1> DEFINE a == Cal!MidnightOf(z, day)
           b == Cal!MidnightOf(z, day + 1)
<1>2. /\ a \in Int /\ z[a] + a = day * 86400
      /\ b \in Int /\ z[b] + b = (day + 1) * 86400
  <2>1. a \in Cal!Midnights(z, day) /\ b \in Cal!Midnights(z, day + 1)
    BY <1>1, OneMidnight DEF Cal!HasBounds
  <2> HIDE DEF a, b
  <2> QED
    BY <2>1 DEF Cal!Midnights, Cal!Local, Cal!Zone
<1>3. /\ \A s \in Int : s + z[s] = day * 86400 => s = a
      /\ \A s \in Int : s + z[s] = (day + 1) * 86400 => s = b
  BY <1>1, OneMidnight DEF Cal!HasBounds, Cal!Midnights, Cal!Local
<1>4. \A s \in Int : z[s] = IF s < from THEN old ELSE new
  BY DEF Cal!Zone
<1>5. Cal!DateInZone(z, t) = day <=> day * 86400 <= t + z[t] /\ t + z[t] < (day + 1) * 86400
  <2>1. PICK x \in Int : x = t + z[t]
    BY <1>4
  <2>2. x \div 86400 = day <=> day * 86400 <= x /\ x < (day + 1) * 86400
    OBVIOUS
  <2> QED
    BY <2>1, <2>2 DEF Cal!DateInZone, Cal!Local
<1>6. Cal!DayBounds(z, day).from = a /\ Cal!DayBounds(z, day).to = b
  BY DEF Cal!DayBounds
<1> HIDE DEF z, a, b
<1>7. day * 86400 <= t + z[t] /\ t + z[t] < (day + 1) * 86400 <=> a <= t /\ t < b
  <2>1. PICK m \in Int : m = day * 86400
    OBVIOUS
  <2>2. (day + 1) * 86400 = m + 86400
    BY <2>1
  <2>3. /\ \A s \in {a, b, t} : z[s] = IF s < from THEN old ELSE new
        /\ a + z[a] = m /\ b + z[b] = m + 86400
    BY <1>2, <1>4, <2>1, <2>2
  <2>4. \A s \in Int : s + z[s] = m => s = a
    BY <1>3, <2>1
  <2>5. \A s \in Int : s + z[s] = m + 86400 => s = b
    BY <1>3, <2>2
  <2>6. \A s \in Int : s + (IF s < from THEN old ELSE new) = m => s = a
    BY <1>4, <2>4
  <2>7. \A s \in Int : s + (IF s < from THEN old ELSE new) = m + 86400 => s = b
    BY <1>4, <2>5
  <2>8. m - old \in Int /\ m - new \in Int /\ m + 86400 - old \in Int /\ m + 86400 - new \in Int
    OBVIOUS
  <2>9. /\ m - old < from => m - old = a
        /\ m - new >= from => m - new = a
        /\ m + 86400 - old < from => m + 86400 - old = b
        /\ m + 86400 - new >= from => m + 86400 - new = b
    BY <2>6, <2>7, <2>8
  <2> QED
    BY <1>2, <2>2, <2>1, <2>3, <2>9
<1> QED
  BY <1>5, <1>6, <1>7

-----------------------------------------------------------------------------
(* Addresses *)

LEMMA SixOf ==
  ASSUME NEW s \in Seq(Nat), Len(s) = 8
  PROVE  \E f \in Seq(Nat) : f = SubSeq(s, 1, 6) /\ Len(f) = 6 /\ \A n \in 1..6 : f[n] = s[n]
<1>1. \A i \in 1..6 : s[i] \in Nat
  <2>1. \A i \in 1..6 : i \in 1..Len(s)
    OBVIOUS
  <2> QED
    BY <2>1, ElementOfSeq
<1>2. /\ SubSeq(s, 1, 6) \in Seq(Nat)
      /\ Len(SubSeq(s, 1, 6)) = IF 1 <= 6 THEN 6 - 1 + 1 ELSE 0
      /\ \A i \in 1..(6 - 1 + 1) : SubSeq(s, 1, 6)[i] = s[1 + i - 1]
  BY <1>1, SubSeqProperties
<1>3. \A i \in 1..6 : 1 + i - 1 = i
  OBVIOUS
<1>4. PICK f \in Seq(Nat) : f = SubSeq(s, 1, 6)
  BY <1>2, Zenon
<1>5. Len(f) = 6 /\ \A i \in 1..6 : f[i] = s[i]
  BY <1>2, <1>3, <1>4
<1> QED
  BY <1>4, <1>5

\* An address that begins with six segments, and the first six of any.
LEMMA FirstSix ==
  ASSUME NEW p \in Seq(Nat), Len(p) = 6, NEW two \in Seq(Nat), Len(two) = 2
  PROVE  \E s \in Seq(Nat) : s = p \o two /\ SubSeq(s, 1, 6) = p /\ s[7] = two[1] /\ s[8] = two[2]
<1>1. PICK s : s = p \o two
  OBVIOUS
<1>2. /\ s \in Seq(Nat) /\ Len(s) = Len(p) + Len(two)
      /\ \A i \in 1..(Len(p) + Len(two)) : s[i] = IF i <= Len(p) THEN p[i] ELSE two[i - Len(p)]
  BY <1>1, ConcatProperties, Zenon
<1>3. Len(s) = 8 /\ \A i \in 1..8 : s[i] = IF i <= 6 THEN p[i] ELSE two[i - 6]
  BY <1>2
<1>4. s[7] = two[7 - 6] /\ s[8] = two[8 - 6] /\ \A i \in 1..6 : s[i] = p[i]
  BY <1>3
<1>5. PICK f \in Seq(Nat) : f = SubSeq(s, 1, 6) /\ Len(f) = 6 /\ \A i \in 1..6 : f[i] = s[i]
  BY <1>2, <1>3, SixOf
<1>6. f = p
  BY <1>4, <1>5, SeqEqual, SMTT(30)
<1>7. 7 - 6 = 1 /\ 8 - 6 = 2
  OBVIOUS
<1> QED
  BY <1>1, <1>2, <1>4, <1>5, <1>6, <1>7

LEMMA TwoSegments ==
  ASSUME NEW hi \in Nat, NEW lo \in Nat
  PROVE  \E two \in Seq(Nat) : two = <<hi, lo>> /\ Len(two) = 2 /\ two[1] = hi /\ two[2] = lo
<1>1. <<hi, lo>> \in Seq(Nat)
  OBVIOUS
<1> QED
  BY <1>1

LEMMA SixSegments ==
  ASSUME NEW p \in {Net!MappedPrefix, Net!Nat64Prefix}
  PROVE  p \in Seq(Nat) /\ Len(p) = 6 /\ p[1] # 8194
<1>1. Net!MappedPrefix \in Seq(Nat) /\ Len(Net!MappedPrefix) = 6 /\ Net!MappedPrefix[1] = 0
  BY DEF Net!MappedPrefix
<1>2. Net!Nat64Prefix \in Seq(Nat) /\ Len(Net!Nat64Prefix) = 6 /\ Net!Nat64Prefix[1] = 100
  BY DEF Net!Nat64Prefix
<1>3. CASE p = Net!MappedPrefix
  BY <1>1, <1>3
<1>4. CASE p = Net!Nat64Prefix
  BY <1>2, <1>4
<1> QED
  BY <1>3, <1>4

\* The mapped form and the one behind NAT64 are judged by the last two segments.
LEMMA CarriedLast ==
  ASSUME NEW hi \in Nat, NEW lo \in Nat, NEW p \in {Net!MappedPrefix, Net!Nat64Prefix}
  PROVE  Net!PrivateV6(p \o <<hi, lo>>) <=> Net!PrivateV4(Net!Carried(hi, lo))
<1>1. p \in Seq(Nat) /\ Len(p) = 6
  BY SixSegments
<1>2. PICK two \in Seq(Nat) : two = <<hi, lo>> /\ Len(two) = 2 /\ two[1] = hi /\ two[2] = lo
  BY TwoSegments
<1>3. PICK s \in Seq(Nat) : s = p \o two /\ SubSeq(s, 1, 6) = p /\ s[7] = two[1] /\ s[8] = two[2]
  BY <1>1, <1>2, FirstSix
<1>4. SubSeq(s, 1, 6) \in {Net!MappedPrefix, Net!Nat64Prefix}
  BY <1>3, Zenon
<1>5. Net!PrivateV6(s) <=> Net!PrivateV4(Net!Carried(s[7], s[8]))
  BY <1>4 DEF Net!PrivateV6
<1>6. Net!Carried(s[7], s[8]) = Net!Carried(hi, lo) /\ s = p \o <<hi, lo>>
  BY <1>2, <1>3
<1> QED
  BY <1>5, <1>6

\* The three forms are judged by the segments that carry the address.
LEMMA CarriedDecides ==
  ASSUME NEW hi \in Nat, NEW lo \in Nat, NEW s \in Net!Forms(hi, lo)
  PROVE  Net!PrivateV6(s) <=> Net!PrivateV4(Net!Carried(hi, lo))
<1>1. ASSUME NEW p \in {Net!MappedPrefix, Net!Nat64Prefix}, s = p \o <<hi, lo>>
      PROVE  Net!PrivateV6(s) <=> Net!PrivateV4(Net!Carried(hi, lo))
  BY <1>1, CarriedLast
<1>2. CASE s = <<Net!SixToFour, hi, lo, 0, 0, 0, 0, 1>>
  <2>1. s \in Seq(Nat) /\ Len(s) = 8 /\ s[1] = 8194 /\ s[2] = hi /\ s[3] = lo
    BY <1>2 DEF Net!SixToFour
  <2>2. PICK f : f = SubSeq(s, 1, 6) /\ f[1] = 8194
    BY <2>1, SixOf
  <2>3. f \notin {Net!MappedPrefix, Net!Nat64Prefix}
    <3>1. \A p \in {Net!MappedPrefix, Net!Nat64Prefix} : p[1] # 8194
      BY SixSegments
    <3> QED
      BY <2>2, <3>1
  <2> QED
    BY <2>1, <2>2, <2>3 DEF Net!PrivateV6, Net!SixToFour
<1> QED
  BY <1>1, <1>2 DEF Net!Forms

\* An IPv4 address that is written as one of IPv6, in any of the three ways, is allowed
\* exactly when it is allowed itself, for every address there is.
THEOREM FormsDoNotMatter ==
  ASSUME NEW o \in [1..4 -> 0..255]
  PROVE  Net!FormsAgree(o)
<1>1. PICK a \in 0..255, b \in 0..255, c \in 0..255, d \in 0..255 :
        a = o[1] /\ b = o[2] /\ c = o[3] /\ d = o[4]
  <2>1. o[1] \in 0..255 /\ o[2] \in 0..255 /\ o[3] \in 0..255 /\ o[4] \in 0..255
    OBVIOUS
  <2> QED
    BY <2>1
<1>2. PICK hi \in Nat, lo \in Nat : hi = 256 * a + b /\ lo = 256 * c + d
  OBVIOUS
<1>3. Net!Carried(hi, lo) = <<a, b, c, d>>
  <2>1. \A x, y \in 0..255 : (256 * x + y) \div 256 = x /\ (256 * x + y) % 256 = y
    OBVIOUS
  <2>2. hi \div 256 = a /\ hi % 256 = b
    BY <1>2, <2>1
  <2>3. lo \div 256 = c /\ lo % 256 = d
    BY <1>2, <2>1
  <2> QED
    BY <2>2, <2>3 DEF Net!Carried
<1>4. \A s : Net!AddressAllowed(Net!V6(s)) <=> ~Net!PrivateV6(s)
  BY DEF Net!AddressAllowed, Net!V6
<1>5. Net!AddressAllowed(Net!V4(a, b, c, d)) <=> ~Net!PrivateV4(<<a, b, c, d>>)
  BY DEF Net!AddressAllowed, Net!V4
<1>6. \A s \in Net!Forms(hi, lo) :
        Net!AddressAllowed(Net!V6(s)) <=> Net!AddressAllowed(Net!V4(a, b, c, d))
  BY <1>3, <1>4, <1>5, CarriedDecides
<1> QED
  BY <1>1, <1>2, <1>6, SMTT(30) DEF Net!FormsAgree

-----------------------------------------------------------------------------
(* Bodies *)

Capped(read, chunk) ==
  IF read.ok /\ read.size + chunk <= MaxBytes THEN [ok |-> TRUE, size |-> read.size + chunk]
  ELSE [ok |-> FALSE, size |-> read.size]
NoneRead == [ok |-> TRUE, size |-> 0]
Reads == [ok : BOOLEAN, size : Nat]
Plus(n, chunk) == n + chunk

\* A body is read chunk by chunk.
LEMMA ReadWalks ==
  ASSUME NEW chunks \in Seq(Nat)
  PROVE  \E v : /\ v[0] = NoneRead /\ \A n \in 1..Len(chunks) : v[n] = Capped(v[n - 1], chunks[n])
                /\ Net!ReadChunks(chunks) = v[Len(chunks)]
<1> DEFINE N == Len(chunks)
           step == [n \in 1..N |-> [read \in Reads |-> Capped(read, chunks[n])]]
           Is(it) == it = [S \in SUBSET DOMAIN chunks |->
                             IF S = {} THEN NoneRead ELSE Capped(it[S \ {Max(S)}], chunks[Max(S)])]
<1>1. N \in Nat /\ DOMAIN chunks = 1..N /\ \A n \in 1..N : chunks[n] \in Nat
  OBVIOUS
<1>2. \E it : Is(it)
  <2>1. step \in [1..N -> [Reads -> Reads]]
    BY <1>1 DEF Capped, Reads
  <2>2. \A n \in 1..N, read \in Reads : step[n][read] = Capped(read, chunks[n])
    OBVIOUS
  <2>3. PICK none \in Reads : none = NoneRead
    <3>1. NoneRead \in Reads
      BY DEF NoneRead, Reads
    <3> QED
      BY <3>1
  <2> HIDE DEF step, N
  <2>4. PICK it : /\ FoldsBy(it, N, none, step)
                  /\ \A S \in SUBSET (1..N) : S # {} => Max(S) \in 1..N /\ it[S \ {Max(S)}] \in Reads
    BY <1>1, <2>1, FoldSteps
  <2>5. \A S \in SUBSET (1..N) : it[S] = IF S = {} THEN NoneRead ELSE Capped(it[S \ {Max(S)}], chunks[Max(S)])
    BY <2>2, <2>3, <2>4 DEF FoldsBy
  <2> QED
    BY <1>1, <2>4, <2>5 DEF FoldsBy
<1>3. PICK it : it = CHOOSE f : Is(f)
  OBVIOUS
<1>4. Is(it)
  BY <1>2, <1>3
<1>5. Net!ReadChunks(chunks) = it[DOMAIN chunks]
  BY <1>3 DEF Net!ReadChunks, Net!FoldLeft, Net!MapThenFoldSet, Net!Max, Max, Capped, NoneRead
<1> HIDE DEF N
<1>6. PICK v : IsWalk(v, it, N)
  BY <1>1, Walked
<1>7. v[0] = NoneRead
  BY <1>1, <1>4, <1>6 DEF IsWalk
<1>8. ASSUME NEW n \in 1..N PROVE v[n] = Capped(v[n - 1], chunks[n])
  <2>1. PICK S : S = 1..n
    OBVIOUS
  <2>2. S \in SUBSET (1..N) /\ S # {} /\ Max(S) = n
    BY <1>1, <2>1, Prefix
  <2>3. it[S] = Capped(it[S \ {Max(S)}], chunks[Max(S)])
    BY <1>1, <1>4, <2>2
  <2>4. v[n] = it[S] /\ v[n - 1] = it[S \ {Max(S)}]
    BY <1>6, <2>1 DEF IsWalk
  <2> QED
    BY <2>2, <2>3, <2>4
<1>9. Net!ReadChunks(chunks) = v[N]
  BY <1>1, <1>5, <1>6 DEF IsWalk
<1> QED
  BY <1>7, <1>8, <1>9 DEF N

\* Its size is counted in the same way.
LEMMA TotalWalks ==
  ASSUME NEW chunks \in Seq(Nat)
  PROVE  \E v : /\ v[0] = 0 /\ \A n \in 1..Len(chunks) : v[n] = Plus(v[n - 1], chunks[n])
                /\ Net!Total(chunks) = v[Len(chunks)]
<1> DEFINE N == Len(chunks)
           step == [n \in 1..N |-> [sum \in Nat |-> Plus(sum, chunks[n])]]
           Is(it) == it = [S \in SUBSET DOMAIN chunks |->
                             IF S = {} THEN 0 ELSE Plus(it[S \ {Max(S)}], chunks[Max(S)])]
<1>1. N \in Nat /\ DOMAIN chunks = 1..N /\ \A n \in 1..N : chunks[n] \in Nat
  OBVIOUS
<1>2. \E it : Is(it)
  <2>1. step \in [1..N -> [Nat -> Nat]]
    BY <1>1 DEF Plus
  <2>2. \A n \in 1..N, sum \in Nat : step[n][sum] = Plus(sum, chunks[n])
    OBVIOUS
  <2>3. PICK none \in Nat : none = 0
    <3>1. 0 \in Nat
    OBVIOUS
    <3> QED
      BY <3>1
  <2> HIDE DEF step, N
  <2>4. PICK it : /\ FoldsBy(it, N, none, step)
                  /\ \A S \in SUBSET (1..N) : S # {} => Max(S) \in 1..N /\ it[S \ {Max(S)}] \in Nat
    BY <1>1, <2>1, FoldSteps
  <2>5. \A S \in SUBSET (1..N) : it[S] = IF S = {} THEN 0 ELSE Plus(it[S \ {Max(S)}], chunks[Max(S)])
    BY <2>2, <2>3, <2>4 DEF FoldsBy
  <2> QED
    BY <1>1, <2>4, <2>5 DEF FoldsBy
<1>3. PICK it : it = CHOOSE f : Is(f)
  OBVIOUS
<1>4. Is(it)
  BY <1>2, <1>3
<1>5. Net!Total(chunks) = it[DOMAIN chunks]
  BY <1>3 DEF Net!Total, Net!FoldLeft, Net!MapThenFoldSet, Net!Max, Max, Plus
<1> HIDE DEF N
<1>6. PICK v : IsWalk(v, it, N)
  BY <1>1, Walked
<1>7. v[0] = 0
  BY <1>1, <1>4, <1>6 DEF IsWalk
<1>8. ASSUME NEW n \in 1..N PROVE v[n] = Plus(v[n - 1], chunks[n])
  <2>1. PICK S : S = 1..n
    OBVIOUS
  <2>2. S \in SUBSET (1..N) /\ S # {} /\ Max(S) = n
    BY <1>1, <2>1, Prefix
  <2>3. it[S] = Plus(it[S \ {Max(S)}], chunks[Max(S)])
    BY <1>1, <1>4, <2>2
  <2>4. v[n] = it[S] /\ v[n - 1] = it[S \ {Max(S)}]
    BY <1>6, <2>1 DEF IsWalk
  <2> QED
    BY <2>2, <2>3, <2>4
<1>9. Net!Total(chunks) = v[N]
  BY <1>1, <1>5, <1>6 DEF IsWalk
<1> QED
  BY <1>7, <1>8, <1>9 DEF N

\* read_capped, for a body in any chunks: it is read exactly when neither what is announced
\* nor what comes exceeds the cap.
THEOREM BodiesAreWithinTheCap ==
  ASSUME NEW chunks \in Seq(Nat), NEW announced \in Nat, MaxBytes \in Nat, NEW answer,
         answer.announced = announced, answer.chunks = chunks
  PROVE  Net!WithinCap(answer)
<1> DEFINE N == Len(chunks)
<1>1. N \in Nat /\ \A n \in 1..N : chunks[n] \in Nat
  OBVIOUS
<1>2. PICK v : /\ v[0] = NoneRead /\ \A n \in 1..N : v[n] = Capped(v[n - 1], chunks[n])
               /\ Net!ReadChunks(chunks) = v[N]
  BY ReadWalks
<1>3. PICK w : /\ w[0] = 0 /\ \A n \in 1..N : w[n] = Plus(w[n - 1], chunks[n])
               /\ Net!Total(chunks) = w[N]
  BY TotalWalks
<1> DEFINE Agree(r, t) == /\ r \in Reads /\ t \in Nat
                          /\ r.ok <=> t <= MaxBytes
                          /\ r.ok => r.size = t
           G == {n \in Nat : n <= N => Agree(v[n], w[n])}
<1> HIDE DEF N
<1>4. 0 \in G
  <2>1. NoneRead \in Reads /\ NoneRead.ok /\ NoneRead.size = 0 /\ 0 <= MaxBytes
    BY DEF NoneRead, Reads
  <2>2. Agree(NoneRead, 0)
    BY <2>1
  <2> QED
    BY <1>2, <1>3, <2>2
<1>5. ASSUME NEW n \in Nat, n \in G PROVE n + 1 \in G
  <2>1. SUFFICES ASSUME n + 1 <= N PROVE Agree(v[n + 1], w[n + 1])
    OBVIOUS
  <2>2. n + 1 \in 1..N /\ n + 1 - 1 = n /\ Agree(v[n], w[n])
    BY <1>1, <1>5, <2>1
  <2>3. PICK c \in Nat : c = chunks[n + 1]
    BY <1>1, <2>2
  <2>4. PICK r, t : r = v[n] /\ t = w[n]
    OBVIOUS
  <2>5. v[n + 1] = Capped(r, c) /\ w[n + 1] = t + c
    <3>1. \A m \in 1..N : v[m] = Capped(v[m - 1], chunks[m]) /\ w[m] = w[m - 1] + chunks[m]
      BY <1>2, <1>3 DEF Plus
    <3>2. n + 1 \in 1..N /\ n + 1 - 1 = n
      BY <2>2
    <3>3. v[n + 1] = Capped(v[n], chunks[n + 1]) /\ w[n + 1] = w[n] + chunks[n + 1]
      BY <3>1, <3>2
    <3> QED
      BY <2>3, <2>4, <3>3
  <2>6. Agree(r, t)
    BY <2>2, <2>4
  <2>7. r.ok \in BOOLEAN /\ r.size \in Nat /\ t \in Nat
    BY <2>6 DEF Reads
  <2>8. Agree(Capped(r, c), t + c)
    <3>1. CASE r.ok /\ r.size + c <= MaxBytes
      BY <2>6, <2>7, <3>1 DEF Capped, Reads
    <3>2. CASE ~(r.ok /\ r.size + c <= MaxBytes)
      BY <2>6, <2>7, <3>2 DEF Capped, Reads
    <3> QED
      BY <3>1, <3>2
  <2> QED
    BY <2>5, <2>8
<1>6. Nat \subseteq G
  <2> HIDE DEF G
  <2> QED
    BY <1>4, <1>5, Induction
<1>7. Net!ReadChunks(chunks).ok <=> Net!Total(chunks) <= MaxBytes
  BY <1>1, <1>2, <1>3, <1>6
<1>8. CASE announced > MaxBytes
  BY <1>8 DEF Net!WithinCap, Net!ReadCapped
<1>9. CASE announced <= MaxBytes
  BY <1>7, <1>9 DEF Net!WithinCap, Net!ReadCapped
<1> QED
  BY <1>8, <1>9

-----------------------------------------------------------------------------
(* Redirects *)

\* The redirects of the web lead to urls, and the code follows a number of them.
IsWeb == MaxRedirects \in Nat /\ \A u \in Urls : Web[u].location \in Urls

Visits == Seq(Urls) \ {<<>>}

\* What the client does when it has visited v, if f is what it does later.
Visit(f, v, u, next) ==
  IF ~Net!Resolves(u) THEN [end |-> "private", contacted |-> Net!Front(v)]
  ELSE IF ~Net!Redirects(u) THEN [end |-> "answer", url |-> u, contacted |-> v]
  ELSE IF Len(v) > MaxRedirects THEN [end |-> "too many", contacted |-> v]
  ELSE IF ~Net!CheckUrl(next) THEN [end |-> "private", contacted |-> v]
  ELSE f[Append(v, next)]
Hop(f, v) == Visit(f, v, v[Len(v)], Web[v[Len(v)]].location)

\* With k more to come at most.
Late(k) == {v \in Visits : Len(v) + k > MaxRedirects}
Follows(k) == \E f : f = [v \in Late(k) |-> Hop(f, v)]

LEMMA OneHopMore ==
  ASSUME IsWeb, NEW k \in Nat, NEW v \in Late(k + 1), Len(v) <= MaxRedirects
  PROVE  Append(v, Web[v[Len(v)]].location) \in Late(k)
<1>1. v \in Seq(Urls) /\ v # <<>> /\ Len(v) \in Nat /\ v[Len(v)] \in Urls /\ Len(v) + (k + 1) > MaxRedirects
  BY DEF Late, Visits
<1>2. PICK next \in Urls : next = Web[v[Len(v)]].location
  BY <1>1 DEF IsWeb
<1>3. PICK w : w = Append(v, next)
  OBVIOUS
<1>4. w \in Seq(Urls) /\ w # <<>> /\ Len(w) = Len(v) + 1
  BY <1>1, <1>3
<1>5. Len(w) + k > MaxRedirects
  BY <1>1, <1>4 DEF IsWeb
<1> QED
  BY <1>2, <1>3, <1>4, <1>5 DEF Late, Visits

\* Two that agree on the next agree.
LEMMA SameHop ==
  ASSUME NEW f, NEW g, NEW v,
         Len(v) > MaxRedirects \/ f[Append(v, Web[v[Len(v)]].location)] = g[Append(v, Web[v[Len(v)]].location)]
  PROVE  Hop(f, v) = Hop(g, v)
  BY DEF Hop, Visit

\* There is such a function, since each hop adds a url.
LEMMA FollowExists ==
  ASSUME IsWeb
  PROVE  \E f : f = [v \in Visits |-> Hop(f, v)]
<1>1. Follows(0)
  <2>1. PICK f : f = [v \in Late(0) |-> Hop(<<>>, v)]
    OBVIOUS
  <2>2. ASSUME NEW v \in Late(0) PROVE f[v] = Hop(f, v)
    <3>1. Len(v) > MaxRedirects
      BY DEF Late, Visits
    <3>2. Hop(<<>>, v) = Hop(f, v)
      BY <3>1, SameHop
    <3> QED
      BY <2>1, <3>2
  <2>3. f = [v \in Late(0) |-> Hop(f, v)]
    BY <2>1, <2>2
  <2> QED
    BY <2>3 DEF Follows
<1>2. ASSUME NEW k \in Nat, Follows(k) PROVE Follows(k + 1)
  <2>1. PICK f : f = [v \in Late(k) |-> Hop(f, v)]
    BY <1>2 DEF Follows
  <2>2. PICK g : g = [v \in Late(k + 1) |-> Hop(f, v)]
    OBVIOUS
  <2>3. Late(k) \subseteq Late(k + 1)
    BY DEF Late, Visits, IsWeb
  <2>4. \A v \in Late(k) : g[v] = f[v]
    BY <2>1, <2>2, <2>3
  <2>5. ASSUME NEW v \in Late(k + 1) PROVE g[v] = Hop(g, v)
    <3>1. Len(v) > MaxRedirects \/ Len(v) <= MaxRedirects
      BY DEF Late, Visits, IsWeb
    <3>2. PICK w : w = Append(v, Web[v[Len(v)]].location)
      OBVIOUS
    <3>3. Len(v) > MaxRedirects \/ f[w] = g[w]
      BY <2>4, <3>1, <3>2, OneHopMore
    <3>4. Hop(f, v) = Hop(g, v)
      BY <3>2, <3>3, SameHop
    <3> QED
      BY <2>2, <3>4
  <2>6. g = [v \in Late(k + 1) |-> Hop(g, v)]
    BY <2>2, <2>5
  <2> QED
    BY <2>6 DEF Follows
<1> DEFINE G == {k \in Nat : Follows(k)}
<1>3. 0 \in G /\ \A k \in Nat : k \in G => k + 1 \in G
  BY <1>1, <1>2
<1>4. Nat \subseteq G
  <2> HIDE DEF G
  <2> QED
    BY <1>3, Induction
<1>5. Follows(MaxRedirects)
  BY <1>4 DEF IsWeb
<1>6. Late(MaxRedirects) = Visits
  <2>1. \A v \in Visits : Len(v) \in Nat /\ Len(v) > 0
    BY DEF Visits
  <2> QED
    BY <2>1 DEF Late, IsWeb
<1> QED
  BY <1>5, <1>6 DEF Follows

LEMMA FollowHops ==
  ASSUME IsWeb
  PROVE  \A v \in Visits : Net!Follow[v] = Hop(Net!Follow, v)
<1> DEFINE Is(f) == f = [v \in Visits |-> Hop(f, v)]
<1>1. PICK f : f = CHOOSE g : Is(g)
  OBVIOUS
<1>2. Is(f)
  BY <1>1, FollowExists
<1>3. Net!Follow = f
  BY <1>1 DEF Net!Follow, Net!Last, Visits, Hop, Visit
<1> QED
  BY <1>2, <1>3

\* What f says of v, when what v has contacted is allowed but for its last.
Kept(f, k) ==
  \A v \in Late(k) : (\A n \in 1..(Len(v) - 1) : Net!Resolves(v[n])) =>
     \A n \in DOMAIN f[v].contacted : Net!Resolves(f[v].contacted[n])

LEMMA HopKeeps ==
  ASSUME IsWeb, NEW k \in Nat, NEW f, NEW v \in Late(k), Hop(f, v) = f[v],
         \A n \in 1..(Len(v) - 1) : Net!Resolves(v[n]),
         k > 0 /\ Len(v) <= MaxRedirects => Kept(f, k - 1)
  PROVE  \A n \in DOMAIN f[v].contacted : Net!Resolves(f[v].contacted[n])
<1>1. v \in Seq(Urls) /\ Len(v) \in Nat /\ Len(v) > 0 /\ Len(v) + k > MaxRedirects
  BY DEF Late, Visits
<1>2. PICK u, next : u = v[Len(v)] /\ next = Web[v[Len(v)]].location
  OBVIOUS
<1>3. f[v] = Visit(f, v, u, next)
  BY <1>2 DEF Hop
<1>4. CASE ~Net!Resolves(u)
  <2>1. f[v].contacted = Net!Front(v)
    BY <1>3, <1>4 DEF Visit
  <2>2. PICK w : w = Net!Front(v)
    OBVIOUS
  <2>3. DOMAIN w = 1..(Len(v) - 1) /\ \A n \in 1..(Len(v) - 1) : w[n] = v[n]
    BY <1>1, <2>2 DEF Net!Front
  <2> QED
    BY <2>1, <2>2, <2>3
<1>5. CASE Net!Resolves(u)
  <2>1. \A n \in DOMAIN v : Net!Resolves(v[n])
    <3>1. \A n \in DOMAIN v : n \in 1..(Len(v) - 1) \/ n = Len(v)
      BY <1>1
    <3> QED
      BY <1>2, <1>5, <3>1
  <2>2. CASE f[v] = f[Append(v, next)] /\ Len(v) <= MaxRedirects
    <3>1. k > 0 /\ k - 1 \in Nat /\ (k - 1) + 1 = k
      BY <1>1, <2>2 DEF IsWeb
    <3>2. PICK w : w = Append(v, next)
      OBVIOUS
    <3>3. w \in Late(k - 1)
      BY <1>2, <2>2, <3>1, <3>2, OneHopMore
    <3>4. Len(w) - 1 = Len(v) /\ \A n \in 1..Len(v) : w[n] = v[n]
      BY <1>1, <3>2
    <3>5. \A n \in 1..(Len(w) - 1) : Net!Resolves(w[n])
      BY <1>1, <2>1, <3>4
    <3>6. Kept(f, k - 1)
      BY <2>2, <3>1
    <3> QED
      BY <2>2, <3>2, <3>3, <3>5, <3>6 DEF Kept
  <2>3. CASE f[v].contacted = v
    BY <2>1, <2>3
  <2>4. Len(v) > MaxRedirects \/ Len(v) <= MaxRedirects
    BY <1>1 DEF IsWeb
  <2>5. f[v].contacted = v \/ (f[v] = f[Append(v, next)] /\ Len(v) <= MaxRedirects)
    <3>1. PICK r, later : r = f[v] /\ later = f[Append(v, next)]
      OBVIOUS
    <3>2. \/ r = [end |-> "answer", url |-> u, contacted |-> v]
          \/ r = [end |-> "too many", contacted |-> v]
          \/ r = [end |-> "private", contacted |-> v]
          \/ r = later /\ ~(Len(v) > MaxRedirects)
      BY <1>3, <1>5, <3>1, Zenon DEF Visit
    <3>3. r.contacted = v \/ (r = later /\ Len(v) <= MaxRedirects)
      <4>1. r = [end |-> "answer", url |-> u, contacted |-> v] => r.contacted = v
        OBVIOUS
      <4>2. \A e : r = [end |-> e, contacted |-> v] => r.contacted = v
        OBVIOUS
      <4>3. PICK many, private : many = "too many" /\ private = "private"
        OBVIOUS
      <4> QED
        BY <2>4, <3>2, <4>1, <4>2, <4>3, Zenon
    <3> QED
      BY <3>1, <3>3
  <2> QED
    BY <2>2, <2>3, <2>5
<1> QED
  BY <1>4, <1>5

\* Whatever the redirects of any web say, and whatever its names resolve to, a request
\* contacts only hosts all of whose addresses are public.
THEOREM OnlyPublicIsContacted ==
  ASSUME IsWeb, NEW u \in Urls
  PROVE  Net!OnlyPublic(u)
<1>1. PICK f : f = Net!Follow
  OBVIOUS
<1>2. \A v \in Visits : f[v] = Hop(f, v)
  BY <1>1, FollowHops
<1>3. \A k \in Nat : Late(k) \subseteq Visits
  BY DEF Late
<1> DEFINE G == {k \in Nat : Kept(f, k)}
<1>4. 0 \in G
  <2>1. SUFFICES ASSUME NEW v \in Late(0), \A n \in 1..(Len(v) - 1) : Net!Resolves(v[n])
                 PROVE  \A n \in DOMAIN f[v].contacted : Net!Resolves(f[v].contacted[n])
    BY DEF Kept
  <2>2. Hop(f, v) = f[v]
    BY <1>2, <1>3
  <2> QED
    BY <2>1, <2>2, HopKeeps
<1>5. ASSUME NEW k \in Nat, k \in G PROVE k + 1 \in G
  <2>1. SUFFICES ASSUME NEW v \in Late(k + 1), \A n \in 1..(Len(v) - 1) : Net!Resolves(v[n])
                 PROVE  \A n \in DOMAIN f[v].contacted : Net!Resolves(f[v].contacted[n])
    BY DEF Kept
  <2>2. Hop(f, v) = f[v] /\ k + 1 \in Nat /\ (k + 1) - 1 = k /\ Kept(f, k)
    BY <1>2, <1>3, <1>5
  <2>3. Kept(f, (k + 1) - 1)
    BY <2>2
  <2> QED
    BY <2>1, <2>2, <2>3, HopKeeps
<1>6. Nat \subseteq G
  <2> HIDE DEF G
  <2> QED
    BY <1>4, <1>5, Induction
<1>7. Kept(f, MaxRedirects)
  BY <1>6 DEF IsWeb
<1>8. PICK v : v = <<u>>
  OBVIOUS
<1>9. v \in Seq(Urls) /\ v # <<>> /\ Len(v) = 1
  BY <1>8
<1>10. v \in Late(MaxRedirects)
  BY <1>9 DEF Late, Visits, IsWeb
<1>11. \A n \in DOMAIN f[v].contacted : Net!Resolves(f[v].contacted[n])
  <2>1. \A n \in 1..(Len(v) - 1) : Net!Resolves(v[n])
    BY <1>9
  <2> QED
    BY <1>7, <1>10, <2>1 DEF Kept
<1>12. CASE Net!CheckUrl(u)
  <2>1. Net!Send(u) = f[v]
    BY <1>1, <1>8, <1>12 DEF Net!Send
  <2> QED
    BY <1>11, <2>1 DEF Net!OnlyPublic
<1>13. CASE ~Net!CheckUrl(u)
  <2>1. Net!Send(u).contacted = <<>>
    BY <1>13 DEF Net!Send
  <2> QED
    BY <2>1 DEF Net!OnlyPublic
<1> QED
  BY <1>12, <1>13

\* The urls that redirects lead to, one after the other.
Chain(h, u, k) == h = [n \in 0..k |-> IF n = 0 THEN u ELSE Web[h[n - 1]].location]
Chained(u, k) == \E h : Chain(h, u, k)

LEMMA ChainExists ==
  ASSUME IsWeb, NEW u \in Urls
  PROVE  Chained(u, MaxRedirects)
<1>1. Chained(u, 0)
  <2>1. PICK h : h = [n \in 0..0 |-> u]
    OBVIOUS
  <2>2. h = [n \in 0..0 |-> IF n = 0 THEN u ELSE Web[h[n - 1]].location]
    BY <2>1
  <2> QED
    BY <2>2 DEF Chained, Chain
<1>2. ASSUME NEW k \in Nat, Chained(u, k) PROVE Chained(u, k + 1)
  <2>1. PICK h : Chain(h, u, k)
    BY <1>2 DEF Chained
  <2>2. PICK g : g = [n \in 0..(k + 1) |-> IF n <= k THEN h[n] ELSE Web[h[k]].location]
    OBVIOUS
  <2>3. \A n \in 0..k : g[n] = h[n] /\ h[n] = IF n = 0 THEN u ELSE Web[h[n - 1]].location
    BY <2>1, <2>2 DEF Chain
  <2>4. ASSUME NEW n \in 0..(k + 1) PROVE g[n] = IF n = 0 THEN u ELSE Web[g[n - 1]].location
    <3>1. CASE n = 0
      BY <2>3, <3>1
    <3>2. CASE n \in 1..k
      <4>1. n - 1 \in 0..k /\ n \in 0..k /\ n # 0
        BY <3>2
      <4> QED
        BY <2>3, <4>1
    <3>3. CASE n = k + 1
      <4>1. n - 1 = k /\ k \in 0..k /\ n # 0 /\ ~(n <= k)
        BY <3>3
      <4> QED
        BY <2>2, <2>3, <4>1
    <3> QED
      BY <3>1, <3>2, <3>3
  <2>5. Chain(g, u, k + 1)
    BY <2>2, <2>4 DEF Chain
  <2> QED
    BY <2>5 DEF Chained
<1> DEFINE G == {k \in Nat : Chained(u, k)}
<1>3. 0 \in G /\ \A k \in Nat : k \in G => k + 1 \in G
  BY <1>1, <1>2
<1>4. Nat \subseteq G
  <2> HIDE DEF G
  <2> QED
    BY <1>3, Induction
<1> QED
  BY <1>4 DEF IsWeb

\* From the m-th of them an answer is reached, over urls that may all be asked.
From(h, m) ==
  \E n \in m..MaxRedirects :
     /\ \A j \in m..n : Net!CheckUrl(h[j]) /\ Net!Resolves(h[j])
     /\ \A j \in m..n - 1 : Net!Redirects(h[j])
     /\ ~Net!Redirects(h[n])

LEMMA FromHere ==
  ASSUME IsWeb, NEW h, NEW m \in 0..MaxRedirects
  PROVE  From(h, m) <=> /\ Net!CheckUrl(h[m]) /\ Net!Resolves(h[m])
                        /\ ~Net!Redirects(h[m]) \/ (m < MaxRedirects /\ From(h, m + 1))
<1>1. MaxRedirects \in Nat
  BY DEF IsWeb
<1>2. ASSUME From(h, m)
      PROVE  /\ Net!CheckUrl(h[m]) /\ Net!Resolves(h[m])
             /\ ~Net!Redirects(h[m]) \/ (m < MaxRedirects /\ From(h, m + 1))
  <2>1. PICK n \in m..MaxRedirects :
           /\ \A j \in m..n : Net!CheckUrl(h[j]) /\ Net!Resolves(h[j])
           /\ \A j \in m..n - 1 : Net!Redirects(h[j])
           /\ ~Net!Redirects(h[n])
    BY <1>2 DEF From
  <2>2. m \in m..n
    BY <1>1
  <2>3. CASE n = m
    BY <2>1, <2>2, <2>3
  <2>4. CASE n # m
    <3>1. n \in (m + 1)..MaxRedirects /\ m < MaxRedirects /\ (m + 1)..n \subseteq m..n /\ (m + 1)..n - 1 \subseteq m..n - 1
      BY <1>1, <2>4
    <3>2. From(h, m + 1)
      BY <2>1, <3>1 DEF From
    <3> QED
      BY <2>1, <2>2, <3>1, <3>2
  <2> QED
    BY <2>3, <2>4
<1>3. ASSUME Net!CheckUrl(h[m]), Net!Resolves(h[m]), ~Net!Redirects(h[m])
      PROVE  From(h, m)
  <2>1. m \in m..MaxRedirects /\ m..m = {m} /\ m..m - 1 = {}
    BY <1>1
  <2> QED
    BY <1>3, <2>1 DEF From
<1>4. ASSUME Net!CheckUrl(h[m]), Net!Resolves(h[m]), Net!Redirects(h[m]), From(h, m + 1)
      PROVE  From(h, m)
  <2>1. PICK n \in (m + 1)..MaxRedirects :
           /\ \A j \in (m + 1)..n : Net!CheckUrl(h[j]) /\ Net!Resolves(h[j])
           /\ \A j \in (m + 1)..n - 1 : Net!Redirects(h[j])
           /\ ~Net!Redirects(h[n])
    BY <1>4 DEF From
  <2>2. /\ n \in m..MaxRedirects
        /\ \A j \in m..n : j = m \/ j \in (m + 1)..n
        /\ \A j \in m..n - 1 : j = m \/ j \in (m + 1)..n - 1
    BY <1>1
  <2>3. \A j \in m..n : Net!CheckUrl(h[j]) /\ Net!Resolves(h[j])
    BY <1>4, <2>1, <2>2
  <2>4. \A j \in m..n - 1 : Net!Redirects(h[j])
    BY <1>4, <2>1, <2>2
  <2> QED
    BY <2>1, <2>2, <2>3, <2>4 DEF From
<1> QED
  BY <1>2, <1>3, <1>4

\* What is made of a visit, by how it ends.
LEMMA VisitEnds ==
  ASSUME NEW f, NEW v, NEW u, NEW next
  PROVE  /\ ~Net!Resolves(u) => Visit(f, v, u, next).end # "answer"
         /\ Net!Resolves(u) /\ ~Net!Redirects(u) => Visit(f, v, u, next).end = "answer"
         /\ Net!Resolves(u) /\ Net!Redirects(u) /\ Len(v) > MaxRedirects => Visit(f, v, u, next).end # "answer"
         /\ Net!Resolves(u) /\ Net!Redirects(u) /\ ~(Len(v) > MaxRedirects) /\ ~Net!CheckUrl(next)
              => Visit(f, v, u, next).end # "answer"
         /\ Net!Resolves(u) /\ Net!Redirects(u) /\ ~(Len(v) > MaxRedirects) /\ Net!CheckUrl(next)
              => Visit(f, v, u, next) = f[Append(v, next)]
<1>1. \A e, c : [end |-> e, contacted |-> c].end = e
  OBVIOUS
<1>2. "private" # "answer" /\ "too many" # "answer"
  OBVIOUS
<1>3. PICK no : no = "too many" /\ no # "answer"
  BY <1>2
<1>4. ~Net!Resolves(u) => Visit(f, v, u, next).end # "answer"
  BY <1>1, <1>2 DEF Visit
<1>5. Net!Resolves(u) /\ ~Net!Redirects(u) => Visit(f, v, u, next).end = "answer"
  BY DEF Visit
<1>6. Net!Resolves(u) /\ Net!Redirects(u) /\ Len(v) > MaxRedirects => Visit(f, v, u, next).end # "answer"
  <2>1. Net!Resolves(u) /\ Net!Redirects(u) /\ Len(v) > MaxRedirects
          => Visit(f, v, u, next) = [end |-> no, contacted |-> v]
    BY <1>3, Zenon DEF Visit
  <2> QED
    BY <1>1, <1>3, <2>1
<1>7. Net!Resolves(u) /\ Net!Redirects(u) /\ ~(Len(v) > MaxRedirects) /\ ~Net!CheckUrl(next)
        => Visit(f, v, u, next).end # "answer"
  BY <1>1, <1>2 DEF Visit
<1>8. Net!Resolves(u) /\ Net!Redirects(u) /\ ~(Len(v) > MaxRedirects) /\ Net!CheckUrl(next)
        => Visit(f, v, u, next) = f[Append(v, next)]
  BY Zenon DEF Visit
<1> QED
  BY <1>4, <1>5, <1>6, <1>7, <1>8

\* After a visit of the m-th url the rest of the chain decides.
Decides(f, h, m) ==
  \A v \in Visits : Len(v) = m + 1 /\ v[Len(v)] = h[m] /\ Net!CheckUrl(h[m])
     => (f[v].end = "answer" <=> From(h, m))

LEMMA HopDecides ==
  ASSUME IsWeb, NEW f, \A v \in Visits : f[v] = Hop(f, v),
         NEW h, NEW m \in 0..MaxRedirects,
         m < MaxRedirects => h[m + 1] = Web[h[m]].location /\ h[m] \in Urls /\ Decides(f, h, m + 1)
  PROVE  Decides(f, h, m)
<1>1. SUFFICES ASSUME NEW v \in Visits, Len(v) = m + 1, v[Len(v)] = h[m], Net!CheckUrl(h[m])
               PROVE  f[v].end = "answer" <=> From(h, m)
  BY DEF Decides
<1>2. PICK u, next : u = h[m] /\ next = Web[u].location
  OBVIOUS
<1>3. f[v] = Visit(f, v, u, next) /\ Net!CheckUrl(u)
  BY <1>1, <1>2 DEF Hop
<1>4. MaxRedirects \in Nat
  BY DEF IsWeb
<1>5. From(h, m) <=> Net!Resolves(u) /\ (~Net!Redirects(u) \/ (m < MaxRedirects /\ From(h, m + 1)))
  BY <1>2, <1>3, FromHere
<1>6. PICK r : r = f[v]
  OBVIOUS
<1>7. CASE ~Net!Resolves(u)
  <2>1. r.end # "answer"
    BY <1>3, <1>6, <1>7, VisitEnds
  <2> QED
    BY <1>5, <1>6, <1>7, <2>1
<1>8. CASE Net!Resolves(u) /\ ~Net!Redirects(u)
  <2>1. r.end = "answer"
    BY <1>3, <1>6, <1>8, VisitEnds
  <2> QED
    BY <1>5, <1>6, <1>8, <2>1
<1>9. CASE Net!Resolves(u) /\ Net!Redirects(u) /\ m = MaxRedirects
  <2>1. Len(v) > MaxRedirects /\ ~(m < MaxRedirects)
    BY <1>1, <1>4, <1>9
  <2>2. r.end # "answer"
    BY <1>3, <1>6, <1>9, <2>1, VisitEnds
  <2> QED
    BY <1>5, <1>6, <1>9, <2>1, <2>2
<1>10. CASE Net!Resolves(u) /\ Net!Redirects(u) /\ m < MaxRedirects
  <2>1. ~(Len(v) > MaxRedirects) /\ m + 1 \in 0..MaxRedirects /\ Len(v) <= MaxRedirects
    BY <1>1, <1>4, <1>10
  <2>2. next = h[m + 1] /\ u \in Urls /\ next \in Urls /\ Decides(f, h, m + 1)
    BY <1>2, <1>10 DEF IsWeb
  <2>3. CASE ~Net!CheckUrl(next)
    <3>1. r.end # "answer"
      BY <1>3, <1>6, <1>10, <2>1, <2>3, VisitEnds
    <3>2. ~From(h, m + 1)
      BY <2>1, <2>2, <2>3, FromHere
    <3> QED
      BY <1>5, <1>6, <1>10, <3>1, <3>2
  <2>4. CASE Net!CheckUrl(next)
    <3>1. PICK w : w = Append(v, next)
      OBVIOUS
    <3>2. f[v] = f[w]
      BY <1>3, <1>10, <2>1, <2>4, <3>1, VisitEnds
    <3>3. w \in Visits /\ Len(w) = m + 2 /\ w[Len(w)] = next
      BY <1>1, <2>2, <3>1 DEF Visits
    <3>4. Len(w) = (m + 1) + 1
      BY <3>3
    <3>5. f[w].end = "answer" <=> From(h, m + 1)
      BY <2>2, <2>4, <3>3, <3>4 DEF Decides
    <3> QED
      BY <1>5, <1>10, <3>2, <3>5
  <2> QED
    BY <2>3, <2>4
<1> QED
  BY <1>4, <1>7, <1>8, <1>9, <1>10

\* A request is answered exactly when the url leads to an answer over at most max_redirects
\* hops, each of which may be asked: the guard refuses what it should and nothing else.
THEOREM RequestsAreFollowed ==
  ASSUME IsWeb, NEW u \in Urls
  PROVE  Net!Followed(u)
<1>1. PICK f : f = Net!Follow
  OBVIOUS
<1>2. \A v \in Visits : f[v] = Hop(f, v)
  BY <1>1, FollowHops
<1>3. PICK h : h = CHOOSE g : Chain(g, u, MaxRedirects)
  OBVIOUS
<1>4. Chain(h, u, MaxRedirects)
  BY <1>3, ChainExists DEF Chained
<1>5. MaxRedirects \in Nat /\ \A n \in 0..MaxRedirects : h[n] = IF n = 0 THEN u ELSE Web[h[n - 1]].location
  BY <1>4 DEF Chain, IsWeb
<1>6. h[0] = u
  BY <1>5
<1>7. \A n \in 0..MaxRedirects : n < MaxRedirects => n + 1 \in 0..MaxRedirects /\ h[n + 1] = Web[h[n]].location
  <2>1. ASSUME NEW n \in 0..MaxRedirects, n < MaxRedirects
        PROVE  n + 1 \in 0..MaxRedirects /\ n + 1 # 0 /\ (n + 1) - 1 = n
    BY <1>5, <2>1
  <2> QED
    BY <1>5, <2>1
<1> DEFINE In == {n \in Nat : n <= MaxRedirects => h[n] \in Urls}
<1>8. Nat \subseteq In
  <2>1. 0 \in In
    BY <1>6
  <2>2. ASSUME NEW n \in Nat, n \in In PROVE n + 1 \in In
    <3>1. SUFFICES ASSUME n + 1 <= MaxRedirects PROVE h[n + 1] \in Urls
      OBVIOUS
    <3>2. n \in 0..MaxRedirects /\ n < MaxRedirects
      BY <1>5, <3>1
    <3> QED
      BY <1>7, <2>2, <3>2 DEF IsWeb
  <2> HIDE DEF In
  <2> QED
    BY <2>1, <2>2, Induction
<1> DEFINE G == {k \in Nat : k <= MaxRedirects => Decides(f, h, MaxRedirects - k)}
<1>9. Nat \subseteq G
  <2>1. 0 \in G
    <3>1. MaxRedirects \in 0..MaxRedirects /\ ~(MaxRedirects < MaxRedirects) /\ MaxRedirects - 0 = MaxRedirects
      BY <1>5
    <3>2. Decides(f, h, MaxRedirects)
      BY <1>2, <3>1, HopDecides
    <3> QED
      BY <3>1, <3>2
  <2>2. ASSUME NEW k \in Nat, k \in G PROVE k + 1 \in G
    <3>1. SUFFICES ASSUME k + 1 <= MaxRedirects PROVE Decides(f, h, MaxRedirects - (k + 1))
      OBVIOUS
    <3>2. PICK m \in 0..MaxRedirects : m = MaxRedirects - (k + 1) /\ m + 1 = MaxRedirects - k /\ m < MaxRedirects
      BY <1>5, <3>1
    <3>3. Decides(f, h, m + 1) /\ h[m + 1] = Web[h[m]].location /\ h[m] \in Urls
      BY <1>5, <1>7, <1>8, <2>2, <3>1, <3>2
    <3>4. Decides(f, h, m)
      BY <1>2, <3>3, HopDecides
    <3> QED
      BY <3>2, <3>4
  <2> HIDE DEF G
  <2> QED
    BY <2>1, <2>2, Induction
<1>10. Decides(f, h, 0)
  <2>1. MaxRedirects \in G /\ MaxRedirects - MaxRedirects = 0
    BY <1>5, <1>9
  <2> QED
    BY <2>1
<1>11. Net!Leads(u) <=> From(h, 0)
  BY <1>3, Zenon DEF Net!Leads, Chain, From
<1>12. From(h, 0) => Net!CheckUrl(u)
  BY <1>5, <1>6, FromHere
<1>13. PICK v : v = <<u>>
  OBVIOUS
<1>14. v \in Visits /\ Len(v) = 0 + 1 /\ v[Len(v)] = h[0]
  BY <1>6, <1>13 DEF Visits
<1>15. CASE Net!CheckUrl(u)
  <2>1. Net!Send(u) = f[v]
    BY <1>1, <1>13, <1>15 DEF Net!Send
  <2>2. f[v].end = "answer" <=> From(h, 0)
    BY <1>6, <1>10, <1>14, <1>15 DEF Decides
  <2> QED
    BY <1>11, <2>1, <2>2 DEF Net!Followed
<1>16. CASE ~Net!CheckUrl(u)
  <2>1. Net!Send(u).end # "answer"
    BY <1>16 DEF Net!Send
  <2> QED
    BY <1>11, <1>12, <1>16, <2>1 DEF Net!Followed
<1> QED
  BY <1>15, <1>16

-----------------------------------------------------------------------------
(* The command of the hook *)

Escape(out, c) ==
  IF c = Nam!Quote THEN out \o <<Nam!Quote, Nam!Backslash, Nam!Quote, Nam!Quote>> ELSE Append(out, c)
NoChar == <<>>
Chars(A) == A \cup {Nam!Quote, Nam!Backslash, " ", "hook"}
Plain == Nam!Shell("plain", FALSE, <<>>, <<>>)
States(A) == [mode : {"plain", "quoted", "escaped"}, open : BOOLEAN, word : Seq(A), words : Texts(A)]

LEMMA EscapeType ==
  ASSUME NEW A, NEW out \in Seq(Chars(A)), NEW c \in Chars(A)
  PROVE  Escape(out, c) \in Seq(Chars(A))
<1>1. PICK q \in Chars(A), b \in Chars(A) : q = Nam!Quote /\ b = Nam!Backslash
  BY DEF Chars
<1>2. out \o <<q, b, q, q>> \in Seq(Chars(A)) /\ Append(out, c) \in Seq(Chars(A))
  OBVIOUS
<1> QED
  BY <1>1, <1>2 DEF Escape

LEMMA ShellStepType ==
  ASSUME NEW A, NEW acc \in States(A), NEW c \in A
  PROVE  Nam!ShellStep(acc, c) \in States(A)
<1>1. PICK word \in Seq(A), words \in Seq(Seq(A)) : word = acc.word /\ words = acc.words
  BY DEF States, Texts
<1>2. acc.open \in BOOLEAN
  BY DEF States
<1>3. \A mode \in {"plain", "quoted", "escaped"}, open \in BOOLEAN, w \in Seq(A), ws \in Seq(Seq(A)) :
        Nam!Shell(mode, open, w, ws) \in States(A)
  BY DEF Nam!Shell, States, Texts
<1>4. PICK more \in Seq(A), longer \in Seq(Seq(A)), none \in Seq(A) :
         more = Append(word, c) /\ longer = Append(words, word) /\ none = <<>>
  <2>1. Append(word, c) \in Seq(A) /\ Append(words, word) \in Seq(Seq(A)) /\ <<>> \in Seq(A)
    BY <1>1
  <2> QED
    BY <2>1
<1>5. PICK st : st = Nam!ShellStep(acc, c)
  OBVIOUS
<1>6. \E mode \in {"plain", "quoted", "escaped"}, open \in BOOLEAN, w \in Seq(A), ws \in Seq(Seq(A)) :
        st = Nam!Shell(mode, open, w, ws)
  <2>1. \/ st = Nam!Shell("plain", acc.open, word, words) \/ st = Nam!Shell("quoted", acc.open, more, words)
        \/ st = Nam!Shell("plain", acc.open, more, words) \/ st = Nam!Shell("quoted", TRUE, word, words)
        \/ st = Nam!Shell("escaped", TRUE, word, words) \/ st = Nam!Shell("plain", TRUE, more, words)
        \/ st = Nam!Shell("plain", FALSE, none, longer) \/ st = Nam!Shell("plain", FALSE, none, words)
    BY <1>1, <1>4, <1>5 DEF Nam!ShellStep
  <2> QED
    BY <1>2, <2>1
<1> QED
  BY <1>3, <1>5, <1>6

\* A path is escaped character by character.
LEMMA EscapeWalks ==
  ASSUME NEW A, NEW path \in Seq(A)
  PROVE  \E v : /\ v[0] = NoChar /\ \A n \in 1..Len(path) : v[n] = Escape(v[n - 1], path[n])
                /\ Nam!Escaped(path) = v[Len(path)]
<1> DEFINE N == Len(path)
           step == [n \in 1..N |-> [out \in Seq(Chars(A)) |-> Escape(out, path[n])]]
           Is(it) == it = [S \in SUBSET DOMAIN path |->
                             IF S = {} THEN NoChar ELSE Escape(it[S \ {Max(S)}], path[Max(S)])]
<1>1. N \in Nat /\ DOMAIN path = 1..N /\ \A n \in 1..N : path[n] \in Chars(A)
  <2>1. \A a \in A : a \in Chars(A)
    BY DEF Chars
  <2>2. N \in Nat /\ DOMAIN path = 1..N /\ \A n \in 1..N : path[n] \in A
    OBVIOUS
  <2> QED
    BY <2>1, <2>2
<1>2. \E it : Is(it)
  <2>1. step \in [1..N -> [Seq(Chars(A)) -> Seq(Chars(A))]]
    BY <1>1, EscapeType
  <2>2. \A n \in 1..N, out \in Seq(Chars(A)) : step[n][out] = Escape(out, path[n])
    OBVIOUS
  <2>3. PICK none \in Seq(Chars(A)) : none = NoChar
    <3>1. NoChar \in Seq(Chars(A))
      BY DEF NoChar
    <3> QED
      BY <3>1
  <2> HIDE DEF step, N
  <2>4. PICK it : /\ FoldsBy(it, N, none, step)
                  /\ \A S \in SUBSET (1..N) : S # {} => Max(S) \in 1..N /\ it[S \ {Max(S)}] \in Seq(Chars(A))
    BY <1>1, <2>1, FoldSteps
  <2>5. \A S \in SUBSET (1..N) : it[S] = IF S = {} THEN NoChar ELSE Escape(it[S \ {Max(S)}], path[Max(S)])
    BY <2>2, <2>3, <2>4 DEF FoldsBy
  <2> QED
    BY <1>1, <2>4, <2>5 DEF FoldsBy
<1>3. PICK it : it = CHOOSE f : Is(f)
  OBVIOUS
<1>4. Is(it)
  BY <1>2, <1>3
<1>5. Nam!Escaped(path) = it[DOMAIN path]
  BY <1>3 DEF Nam!Escaped, Nam!FoldLeft, Nam!MapThenFoldSet, Nam!Max, Max, Escape, NoChar
<1> HIDE DEF N
<1>6. PICK v : IsWalk(v, it, N)
  BY <1>1, Walked
<1>7. v[0] = NoChar
  BY <1>1, <1>4, <1>6 DEF IsWalk
<1>8. ASSUME NEW n \in 1..N PROVE v[n] = Escape(v[n - 1], path[n])
  <2>1. PICK S : S = 1..n
    OBVIOUS
  <2>2. S \in SUBSET (1..N) /\ S # {} /\ Max(S) = n
    BY <1>1, <2>1, Prefix
  <2>3. it[S] = Escape(it[S \ {Max(S)}], path[Max(S)])
    BY <1>1, <1>4, <2>2
  <2>4. v[n] = it[S] /\ v[n - 1] = it[S \ {Max(S)}]
    BY <1>6, <2>1 DEF IsWalk
  <2> QED
    BY <2>2, <2>3, <2>4
<1>9. Nam!Escaped(path) = v[N]
  BY <1>1, <1>5, <1>6 DEF IsWalk
<1> QED
  BY <1>7, <1>8, <1>9 DEF N

\* A line is read character by character.
LEMMA ReadLineWalks ==
  ASSUME NEW A, NEW line \in Seq(A)
  PROVE  \E v : /\ v[0] = Plain /\ \A n \in 1..Len(line) : v[n] = Nam!ShellStep(v[n - 1], line[n])
                /\ Nam!ShellRead(line) = v[Len(line)]
<1> DEFINE N == Len(line)
           step == [n \in 1..N |-> [acc \in States(A) |-> Nam!ShellStep(acc, line[n])]]
           Is(it) == it = [S \in SUBSET DOMAIN line |->
                             IF S = {} THEN Plain ELSE Nam!ShellStep(it[S \ {Max(S)}], line[Max(S)])]
<1>1. N \in Nat /\ DOMAIN line = 1..N /\ \A n \in 1..N : line[n] \in A
  OBVIOUS
<1>2. \E it : Is(it)
  <2>1. step \in [1..N -> [States(A) -> States(A)]]
    BY <1>1, ShellStepType
  <2>2. \A n \in 1..N, acc \in States(A) : step[n][acc] = Nam!ShellStep(acc, line[n])
    OBVIOUS
  <2>3. PICK none \in States(A) : none = Plain
    <3>1. Plain \in States(A)
      BY DEF Plain, Nam!Shell, States, Texts
    <3> QED
      BY <3>1
  <2> HIDE DEF step, N
  <2>4. PICK it : /\ FoldsBy(it, N, none, step)
                  /\ \A S \in SUBSET (1..N) : S # {} => Max(S) \in 1..N /\ it[S \ {Max(S)}] \in States(A)
    BY <1>1, <2>1, FoldSteps
  <2>5. \A S \in SUBSET (1..N) : it[S] = IF S = {} THEN Plain ELSE Nam!ShellStep(it[S \ {Max(S)}], line[Max(S)])
    BY <2>2, <2>3, <2>4 DEF FoldsBy
  <2> QED
    BY <1>1, <2>4, <2>5 DEF FoldsBy
<1>3. PICK it : it = CHOOSE f : Is(f)
  OBVIOUS
<1>4. Is(it)
  BY <1>2, <1>3
<1>5. Nam!ShellRead(line) = it[DOMAIN line]
  BY <1>3 DEF Nam!ShellRead, Nam!FoldLeft, Nam!MapThenFoldSet, Nam!Max, Max, Plain
<1> HIDE DEF N
<1>6. PICK v : IsWalk(v, it, N)
  BY <1>1, Walked
<1>7. v[0] = Plain
  BY <1>1, <1>4, <1>6 DEF IsWalk
<1>8. ASSUME NEW n \in 1..N PROVE v[n] = Nam!ShellStep(v[n - 1], line[n])
  <2>1. PICK S : S = 1..n
    OBVIOUS
  <2>2. S \in SUBSET (1..N) /\ S # {} /\ Max(S) = n
    BY <1>1, <2>1, Prefix
  <2>3. it[S] = Nam!ShellStep(it[S \ {Max(S)}], line[Max(S)])
    BY <1>1, <1>4, <2>2
  <2>4. v[n] = it[S] /\ v[n - 1] = it[S \ {Max(S)}]
    BY <1>6, <2>1 DEF IsWalk
  <2> QED
    BY <2>2, <2>3, <2>4
<1>9. Nam!ShellRead(line) = v[N]
  BY <1>1, <1>5, <1>6 DEF IsWalk
<1> QED
  BY <1>7, <1>8, <1>9 DEF N

\* A character more.
LEMMA ReadLineMore ==
  ASSUME NEW A, NEW line \in Seq(A), NEW c \in A
  PROVE  Nam!ShellRead(Append(line, c)) = Nam!ShellStep(Nam!ShellRead(line), c)
<1> DEFINE more == Append(line, c)
           N == Len(line)
<1>1. /\ more \in Seq(A) /\ N \in Nat /\ Len(more) = N + 1 /\ more[N + 1] = c
      /\ \A n \in 1..N : more[n] = line[n]
  OBVIOUS
<1> HIDE DEF more, N
<1>2. PICK v : /\ v[0] = Plain /\ \A n \in 1..N : v[n] = Nam!ShellStep(v[n - 1], line[n])
               /\ Nam!ShellRead(line) = v[N]
  BY ReadLineWalks DEF N
<1>3. PICK w : /\ w[0] = Plain /\ \A n \in 1..(N + 1) : w[n] = Nam!ShellStep(w[n - 1], more[n])
               /\ Nam!ShellRead(more) = w[N + 1]
  BY <1>1, ReadLineWalks
<1>4. v[N] = w[N]
  <2>1. \A n \in 1..N : w[n] = Nam!ShellStep(w[n - 1], line[n])
    BY <1>1, <1>3
  <2>2. \A n \in 1..N : v[n - 1] = w[n - 1] => v[n] = w[n]
    BY <1>2, <2>1
  <2> QED
    BY <1>1, <1>2, <1>3, <2>2, WalksAgree
<1>5. w[N + 1] = Nam!ShellStep(w[N], c)
  <2>1. N + 1 \in 1..(N + 1) /\ N + 1 - 1 = N
    BY <1>1
  <2> QED
    BY <1>1, <1>3, <2>1
<1> QED
  BY <1>2, <1>3, <1>4, <1>5 DEF more

LEMMA ReadLineNone == Nam!ShellRead(<<>>) = Plain
<1>1. <<>> \in Seq({}) /\ Len(<<>>) = 0
  OBVIOUS
<1> QED
  BY <1>1, ReadLineWalks

\* What the characters do to a word.
Reading(mode, word) == Nam!Shell(mode, TRUE, word, <<>>)

LEMMA ShellReads ==
  ASSUME NEW word, NEW c
  PROVE  /\ c # Nam!Quote => Nam!ShellStep(Reading("quoted", word), c) = Reading("quoted", Append(word, c))
         /\ Nam!ShellStep(Reading("quoted", word), Nam!Quote) = Reading("plain", word)
         /\ Nam!ShellStep(Reading("plain", word), Nam!Backslash) = Reading("escaped", word)
         /\ Nam!ShellStep(Reading("escaped", word), c) = Reading("plain", Append(word, c))
         /\ Nam!ShellStep(Reading("plain", word), Nam!Quote) = Reading("quoted", word)
<1>1. Nam!Quote # Nam!Backslash
  BY DEF Nam!Quote, Nam!Backslash
<1>2. \A m, w : LET r == Reading(m, w) IN r.mode = m /\ r.open = TRUE /\ r.word = w /\ r.words = <<>>
  BY DEF Reading, Nam!Shell
<1>3. c # Nam!Quote => Nam!ShellStep(Reading("quoted", word), c) = Reading("quoted", Append(word, c))
  BY <1>2 DEF Nam!ShellStep, Reading
<1>4. Nam!ShellStep(Reading("quoted", word), Nam!Quote) = Reading("plain", word)
  BY <1>2 DEF Nam!ShellStep, Reading
<1>5. Nam!ShellStep(Reading("plain", word), Nam!Backslash) = Reading("escaped", word)
  <2>1. PICK acc : acc = Reading("plain", word)
    OBVIOUS
  <2>2. acc.mode = "plain" /\ acc.mode # "quoted" /\ acc.mode # "escaped" /\ acc.open = TRUE /\ acc.word = word /\ acc.words = <<>>
    BY <1>2, <2>1
  <2>3. Nam!ShellStep(acc, Nam!Backslash) = Nam!Shell("escaped", TRUE, word, <<>>)
    BY <1>1, <2>2 DEF Nam!ShellStep
  <2> QED
    BY <2>1, <2>3 DEF Reading
<1>6. Nam!ShellStep(Reading("escaped", word), c) = Reading("plain", Append(word, c))
  <2>1. PICK acc : acc = Reading("escaped", word)
    OBVIOUS
  <2>2. acc.mode = "escaped" /\ acc.mode # "quoted" /\ acc.open = TRUE /\ acc.word = word /\ acc.words = <<>>
    BY <1>2, <2>1
  <2>3. Nam!ShellStep(acc, c) = Nam!Shell("plain", TRUE, Append(word, c), <<>>)
    BY <1>1, <2>2 DEF Nam!ShellStep
  <2> QED
    BY <2>1, <2>3 DEF Reading
<1>7. Nam!ShellStep(Reading("plain", word), Nam!Quote) = Reading("quoted", word)
  <2>1. PICK acc : acc = Reading("plain", word)
    OBVIOUS
  <2>2. acc.mode = "plain" /\ acc.mode # "quoted" /\ acc.mode # "escaped" /\ acc.open = TRUE /\ acc.word = word /\ acc.words = <<>>
    BY <1>2, <2>1
  <2>3. Nam!ShellStep(acc, Nam!Quote) = Nam!Shell("quoted", TRUE, word, <<>>)
    BY <1>1, <2>2 DEF Nam!ShellStep
  <2> QED
    BY <2>1, <2>3 DEF Reading
<1> QED
  BY <1>3, <1>4, <1>5, <1>6, <1>7

\* The quoted beginning of a path is read as it is.
LEMMA QuotedIsRead ==
  ASSUME NEW A, NEW t \in Seq(Chars(A)), NEW word \in Seq(A), NEW c \in A,
         Nam!ShellRead(t) = Reading("quoted", word)
  PROVE  Nam!ShellRead(Escape(t, c)) = Reading("quoted", Append(word, c))
<1>1. PICK C : C = Chars(A)
  OBVIOUS
<1>2. PICK q \in C, b \in C : q = Nam!Quote /\ b = Nam!Backslash
  BY <1>1 DEF Chars
<1>3. t \in Seq(C) /\ c \in C
  BY <1>1 DEF Chars
<1>4. CASE c # q
  <2>1. Escape(t, c) = Append(t, c)
    BY <1>2, <1>4 DEF Escape
  <2>2. Nam!ShellRead(Append(t, c)) = Nam!ShellStep(Nam!ShellRead(t), c)
    BY <1>3, ReadLineMore
  <2> QED
    BY <1>2, <1>4, <2>1, <2>2, ShellReads
<1>5. CASE c = q
  <2>1. PICK x \in Seq(C), y \in Seq(C), z \in Seq(C), e \in Seq(C) :
          x = Append(t, q) /\ y = Append(x, b) /\ z = Append(y, q) /\ e = Append(z, q)
    <3>1. PICK x \in Seq(C) : x = Append(t, q)
      BY <1>3, AppendProperties
    <3>2. PICK y \in Seq(C) : y = Append(x, b)
      BY AppendProperties
    <3>3. PICK z \in Seq(C) : z = Append(y, q)
      BY AppendProperties
    <3>4. PICK e \in Seq(C) : e = Append(z, q)
      BY AppendProperties
    <3> QED
      BY <3>1, <3>2, <3>3, <3>4
  <2>2. e = t \o <<q, b, q, q>>
    BY <1>3, <2>1
  <2>3. Escape(t, c) = e
    BY <1>2, <1>5, <2>2 DEF Escape
  <2>4. Nam!ShellRead(x) = Reading("plain", word)
    <3>1. Nam!ShellRead(x) = Nam!ShellStep(Nam!ShellRead(t), q)
      BY <1>3, <2>1, ReadLineMore
    <3> QED
      BY <1>2, <3>1, ShellReads
  <2>5. Nam!ShellRead(y) = Reading("escaped", word)
    <3>1. Nam!ShellRead(y) = Nam!ShellStep(Nam!ShellRead(x), b)
      BY <2>1, ReadLineMore
    <3> QED
      BY <1>2, <2>4, <3>1, ShellReads
  <2>6. Nam!ShellRead(z) = Reading("plain", Append(word, c))
    <3>1. Nam!ShellRead(z) = Nam!ShellStep(Nam!ShellRead(y), q)
      BY <2>1, ReadLineMore
    <3> QED
      BY <1>5, <2>5, <3>1, ShellReads
  <2>7. Nam!ShellRead(e) = Reading("quoted", Append(word, c))
    <3>1. Nam!ShellRead(e) = Nam!ShellStep(Nam!ShellRead(z), q)
      BY <2>1, ReadLineMore
    <3> QED
      BY <1>2, <2>6, <3>1, ShellReads
  <2> QED
    BY <2>3, <2>7
<1> QED
  BY <1>4, <1>5

LEMMA AroundFour ==
  ASSUME NEW C, NEW s \in Seq(C), NEW o \in Seq(C), NEW q \in C, NEW b \in C
  PROVE  s \o (o \o <<q, b, q, q>>) = (s \o o) \o <<q, b, q, q>>
<1>1. PICK four \in Seq(C) : four = <<q, b, q, q>>
  <2>1. <<q, b, q, q>> \in Seq(C)
    OBVIOUS
  <2> QED
    BY <2>1
<1>2. (s \o o) \o four = s \o (o \o four)
  BY ConcatAssociative
<1> QED
  BY <1>1, <1>2

LEMMA EscapeAround ==
  ASSUME NEW A, NEW c \in A, NEW one \in Seq(Chars(A)), NEW o \in Seq(Chars(A))
  PROVE  one \o Escape(o, c) = Escape(one \o o, c)
<1>1. PICK x \in Chars(A), y \in Chars(A) : x = Nam!Quote /\ y = Nam!Backslash
  BY DEF Chars
<1>2. one \o (o \o <<x, y, x, x>>) = (one \o o) \o <<x, y, x, x>>
  BY AroundFour
<1>3. PICK d \in Chars(A) : d = c
  BY DEF Chars
<1>4. one \o Append(o, d) = Append(one \o o, d)
  OBVIOUS
<1> QED
  BY <1>1, <1>2, <1>3, <1>4 DEF Escape

LEMMA TwoWords ==
  ASSUME NEW D, NEW a \in D, NEW b \in D
  PROVE  Len(Append(Append(<<>>, a), b)) = 2 /\ Append(Append(<<>>, a), b)[1] = a
  OBVIOUS

\* In the quotes the path is read as it is.
LEMMA PathIsRead ==
  ASSUME NEW A, NEW path \in Seq(A)
  PROVE  \E t \in Seq(Chars(A)) : /\ t = <<Nam!Quote>> \o Nam!Escaped(path)
                                  /\ Nam!ShellRead(t) = Reading("quoted", path)
<1> DEFINE N == Len(path)
<1>1. N \in Nat /\ \A n \in 1..N : path[n] \in A
  OBVIOUS
<1>2. PICK q : /\ q[0] = NoChar /\ \A n \in 1..N : q[n] = Escape(q[n - 1], path[n])
               /\ Nam!Escaped(path) = q[N]
  BY EscapeWalks
<1>3. PICK one \in Seq(Chars(A)) : one = <<Nam!Quote>>
  <2>1. PICK c \in Chars(A) : c = Nam!Quote
    BY DEF Chars
  <2>2. <<c>> \in Seq(Chars(A))
    OBVIOUS
  <2> QED
    BY <2>1, <2>2
<1> DEFINE Is(n) == /\ q[n] \in Seq(Chars(A))
                    /\ Nam!ShellRead(one \o q[n]) = Reading("quoted", SubSeq(path, 1, n))
           G == {n \in Nat : n <= N => Is(n)}
<1> HIDE DEF N
<1>4. 0 \in G
  <2>1. q[0] = <<>> /\ q[0] \in Seq(Chars(A)) /\ one \o q[0] = one /\ SubSeq(path, 1, 0) = <<>>
    BY <1>2, <1>3 DEF NoChar
  <2>2. PICK c \in Chars(A) : c = Nam!Quote
    BY DEF Chars
  <2>3. one = Append(<<>>, c) /\ <<>> \in Seq(Chars(A))
    BY <1>3, <2>2
  <2>4. Nam!ShellRead(one) = Nam!ShellStep(Plain, c)
    BY <2>3, ReadLineMore, ReadLineNone
  <2>5. Nam!ShellStep(Plain, Nam!Quote) = Nam!Shell("quoted", TRUE, <<>>, <<>>)
    <3>1. PICK acc : acc = Plain
      OBVIOUS
    <3>2. acc.mode # "quoted" /\ acc.mode # "escaped" /\ acc.word = <<>> /\ acc.words = <<>>
      BY <3>1 DEF Plain, Nam!Shell
    <3> QED
      BY <3>1, <3>2 DEF Nam!ShellStep
  <2> QED
    BY <2>1, <2>2, <2>4, <2>5 DEF Reading
<1>5. ASSUME NEW n \in Nat, n \in G PROVE n + 1 \in G
  <2>1. SUFFICES ASSUME n + 1 <= N PROVE Is(n + 1)
    OBVIOUS
  <2>2. n + 1 \in 1..N /\ n + 1 - 1 = n /\ n <= N /\ Is(n)
    BY <1>1, <1>5, <2>1
  <2>3. PICK c \in A : c = path[n + 1]
    BY <1>1, <2>2
  <2>4. q[n + 1] = Escape(q[n], c)
    BY <1>2, <2>2, <2>3
  <2>5. PICK word \in Seq(A) : word = SubSeq(path, 1, n)
    <3>1. SubSeq(path, 1, n) \in Seq(A)
      BY <2>2 DEF N
    <3> QED
      BY <3>1
  <2>6. SubSeq(path, 1, n + 1) = Append(word, c)
    BY <2>2, <2>3, <2>5 DEF N
  <2>7. PICK o \in Seq(Chars(A)) : o = q[n]
    BY <2>2
  <2>8. PICK t \in Seq(Chars(A)) : t = one \o o
    <3>1. one \o o \in Seq(Chars(A))
      OBVIOUS
    <3> QED
      BY <3>1
  <2>9. Nam!ShellRead(Escape(t, c)) = Reading("quoted", Append(word, c))
    BY <2>2, <2>5, <2>7, <2>8, QuotedIsRead
  <2>10. one \o Escape(o, c) = Escape(t, c)
    <3>1. one \o Escape(o, c) = Escape(one \o o, c)
      BY EscapeAround, Zenon
    <3> QED
      BY <2>8, <3>1
  <2>11. Escape(o, c) \in Seq(Chars(A))
    <3>1. c \in Chars(A)
      BY DEF Chars
    <3> QED
      BY <3>1, EscapeType
  <2> QED
    BY <2>4, <2>6, <2>7, <2>9, <2>10, <2>11
<1>6. Nat \subseteq G
  <2> HIDE DEF G
  <2> QED
    BY <1>4, <1>5, Induction
<1>7. Is(N)
  BY <1>1, <1>6
<1>8. PICK o \in Seq(Chars(A)) : o = q[N]
  BY <1>7
<1>9. PICK t \in Seq(Chars(A)) : t = one \o o
  <2>1. one \o o \in Seq(Chars(A))
    OBVIOUS
  <2> QED
    BY <2>1
<1>10. SubSeq(path, 1, N) = path
  BY DEF N
<1> QED
  BY <1>2, <1>3, <1>7, <1>8, <1>9, <1>10

\* The command that render_settings writes is, for `sh`, this binary and its one argument,
\* whatever quotes, spaces and backslashes are in the path.
THEOREM HookRunsThisBinary ==
  ASSUME NEW A, NEW exe \in Seq(A)
  PROVE  Nam!PathIsOneWord(exe)
<1>1. PICK C : C = Chars(A)
  OBVIOUS
<1>2. PICK q \in C, s \in C, k \in C : q = Nam!Quote /\ s = " " /\ k = "hook"
  BY <1>1 DEF Chars
<1>3. PICK t \in Seq(C) : t = <<Nam!Quote>> \o Nam!Escaped(exe) /\ Nam!ShellRead(t) = Reading("quoted", exe)
  BY <1>1, PathIsRead
<1>4. PICK x \in Seq(C), y \in Seq(C), z \in Seq(C) : x = Append(t, q) /\ y = Append(x, s) /\ z = Append(y, k)
  <2>1. PICK x \in Seq(C) : x = Append(t, q)
    BY AppendProperties
  <2>2. PICK y \in Seq(C) : y = Append(x, s)
    BY AppendProperties
  <2>3. PICK z \in Seq(C) : z = Append(y, k)
    BY AppendProperties
  <2> QED
    BY <2>1, <2>2, <2>3
<1>5. Nam!HookCommand(exe) = z
  <2>1. z = (t \o <<q>>) \o <<s, k>>
    BY <1>4
  <2> QED
    BY <1>2, <1>3, <2>1, Zenon DEF Nam!HookCommand, Nam!ShellQuote
<1>6. Nam!ShellRead(x) = Reading("plain", exe)
  <2>1. Nam!ShellRead(x) = Nam!ShellStep(Nam!ShellRead(t), q)
    BY <1>4, ReadLineMore
  <2> QED
    BY <1>2, <1>3, <2>1, ShellReads
<1>7. PICK words : words = Append(<<>>, exe)
  OBVIOUS
<1>8. s # Nam!Quote /\ s # Nam!Backslash /\ k # Nam!Quote /\ k # Nam!Backslash /\ k # s
  BY <1>2 DEF Nam!Quote, Nam!Backslash
<1>9. Nam!ShellRead(y) = Nam!Shell("plain", FALSE, <<>>, words)
  <2>1. Nam!ShellRead(y) = Nam!ShellStep(Nam!ShellRead(x), s)
    BY <1>4, ReadLineMore
  <2>2. PICK acc : acc = Reading("plain", exe)
    OBVIOUS
  <2>3. acc.mode # "quoted" /\ acc.mode # "escaped" /\ acc.open = TRUE /\ acc.word = exe /\ acc.words = <<>>
    BY <2>2 DEF Reading, Nam!Shell
  <2>4. Nam!ShellStep(acc, s) = Nam!Shell("plain", FALSE, <<>>, words)
    BY <1>2, <1>7, <1>8, <2>3 DEF Nam!ShellStep
  <2> QED
    BY <1>6, <2>1, <2>2, <2>4
<1>10. PICK hook : hook = Append(<<>>, k)
  OBVIOUS
<1>11. Nam!ShellRead(z) = Nam!Shell("plain", TRUE, hook, words)
  <2>1. Nam!ShellRead(z) = Nam!ShellStep(Nam!ShellRead(y), k)
    BY <1>4, ReadLineMore
  <2>2. PICK acc : acc = Nam!Shell("plain", FALSE, <<>>, words)
    OBVIOUS
  <2>3. acc.mode # "quoted" /\ acc.mode # "escaped" /\ acc.word = <<>> /\ acc.words = words
    BY <2>2 DEF Nam!Shell
  <2>4. Nam!ShellStep(acc, k) = Nam!Shell("plain", TRUE, hook, words)
    BY <1>2, <1>8, <1>10, <2>3 DEF Nam!ShellStep
  <2> QED
    BY <1>9, <2>1, <2>2, <2>4
<1>12. Nam!ShellWords(z) = Append(words, hook)
  <2>1. PICK end : end = Nam!ShellRead(z)
    OBVIOUS
  <2>2. end.open = TRUE /\ end.word = hook /\ end.words = words
    BY <1>11, <2>1 DEF Nam!Shell
  <2> QED
    BY <2>1, <2>2 DEF Nam!ShellWords
<1>13. Len(Append(words, hook)) = 2 /\ Append(words, hook)[1] = exe
  <2>1. hook \in Seq(C)
    BY <1>10
  <2>2. exe \in Seq(C)
    <3>1. \A a \in A : a \in C
      BY <1>1 DEF Chars
    <3> QED
      BY <3>1
  <2>3. PICK D : hook \in D /\ exe \in D
    BY <2>1, <2>2
  <2> QED
    BY <1>7, <2>3, TwoWords
<1> QED
  BY <1>5, <1>12, <1>13 DEF Nam!PathIsOneWord

-----------------------------------------------------------------------------
(* Ids of names *)

Dash(out, c) ==
  IF c \notin {"-", "."} THEN Append(out, c)
  ELSE IF out = <<>> \/ out[Len(out)] = "-" THEN out ELSE Append(out, "-")
NoId == <<>>
Marks(A) == A \cup {"-"}

LEMMA DashType ==
  ASSUME NEW A, NEW out \in Seq(Marks(A)), NEW c \in A
  PROVE  Dash(out, c) \in Seq(Marks(A))
<1>1. c \in Marks(A) /\ "-" \in Marks(A)
  BY DEF Marks
<1>2. Append(out, c) \in Seq(Marks(A)) /\ Append(out, "-") \in Seq(Marks(A))
  BY <1>1, AppendProperties
<1> QED
  BY <1>2 DEF Dash

\* A name is made an id character by character.
LEMMA DashWalks ==
  ASSUME NEW A, NEW name \in Seq(A)
  PROVE  \E v : /\ v[0] = NoId /\ \A n \in 1..Len(name) : v[n] = Dash(v[n - 1], name[n])
                /\ Nam!Dashed(name) = v[Len(name)]
<1> DEFINE N == Len(name)
           step == [n \in 1..N |-> [out \in Seq(Marks(A)) |-> Dash(out, name[n])]]
           Is(it) == it = [S \in SUBSET DOMAIN name |->
                             IF S = {} THEN NoId ELSE Dash(it[S \ {Max(S)}], name[Max(S)])]
<1>1. N \in Nat /\ DOMAIN name = 1..N /\ \A n \in 1..N : name[n] \in A
  OBVIOUS
<1>2. \E it : Is(it)
  <2>1. step \in [1..N -> [Seq(Marks(A)) -> Seq(Marks(A))]]
    BY <1>1, DashType
  <2>2. \A n \in 1..N, out \in Seq(Marks(A)) : step[n][out] = Dash(out, name[n])
    OBVIOUS
  <2>3. PICK none \in Seq(Marks(A)) : none = NoId
    <3>1. NoId \in Seq(Marks(A))
      BY DEF NoId
    <3> QED
      BY <3>1
  <2> HIDE DEF step, N
  <2>4. PICK it : /\ FoldsBy(it, N, none, step)
                  /\ \A S \in SUBSET (1..N) : S # {} => Max(S) \in 1..N /\ it[S \ {Max(S)}] \in Seq(Marks(A))
    BY <1>1, <2>1, FoldSteps
  <2>5. \A S \in SUBSET (1..N) : it[S] = IF S = {} THEN NoId ELSE Dash(it[S \ {Max(S)}], name[Max(S)])
    BY <2>2, <2>3, <2>4 DEF FoldsBy
  <2> QED
    BY <1>1, <2>4, <2>5 DEF FoldsBy
<1>3. PICK it : it = CHOOSE f : Is(f)
  OBVIOUS
<1>4. Is(it)
  BY <1>2, <1>3
<1>5. Nam!Dashed(name) = it[DOMAIN name]
  BY <1>3 DEF Nam!Dashed, Nam!Last, Nam!FoldLeft, Nam!MapThenFoldSet, Nam!Max, Max, Dash, NoId
<1> HIDE DEF N
<1>6. PICK v : IsWalk(v, it, N)
  BY <1>1, Walked
<1>7. v[0] = NoId
  BY <1>1, <1>4, <1>6 DEF IsWalk
<1>8. ASSUME NEW n \in 1..N PROVE v[n] = Dash(v[n - 1], name[n])
  <2>1. PICK S : S = 1..n
    OBVIOUS
  <2>2. S \in SUBSET (1..N) /\ S # {} /\ Max(S) = n
    BY <1>1, <2>1, Prefix
  <2>3. it[S] = Dash(it[S \ {Max(S)}], name[Max(S)])
    BY <1>1, <1>4, <2>2
  <2>4. v[n] = it[S] /\ v[n - 1] = it[S \ {Max(S)}]
    BY <1>6, <2>1 DEF IsWalk
  <2> QED
    BY <2>2, <2>3, <2>4
<1>9. Nam!Dashed(name) = v[N]
  BY <1>1, <1>5, <1>6 DEF IsWalk
<1> QED
  BY <1>7, <1>8, <1>9 DEF N

\* Dashes stand alone and never first, and there is no other mark.
Neat(out) ==
  /\ \A n \in 1..Len(out) : out[n] # "."
  /\ \A n \in 1..Len(out) - 1 : out[n] # "-" \/ out[n + 1] # "-"
  /\ out # <<>> => out[1] # "-"
Ended(out) == out # <<>> => out[Len(out)] # "-"

LEMMA NeatMore ==
  ASSUME NEW S, NEW out \in Seq(S), Neat(out), NEW d \in S, d # ".",
         d = "-" => out # <<>> /\ out[Len(out)] # "-"
  PROVE  Neat(Append(out, d))
<1>1. PICK m \in Nat : m = Len(out)
  OBVIOUS
<1>2. PICK w : w = Append(out, d)
  OBVIOUS
<1>3. Len(w) = m + 1 /\ w[m + 1] = d /\ \A n \in 1..m : w[n] = out[n]
  BY <1>1, <1>2
<1>4. \A n \in 1..Len(w) : w[n] # "."
  <2>1. \A n \in 1..(m + 1) : n \in 1..m \/ n = m + 1
    OBVIOUS
  <2> QED
    BY <1>1, <1>3, <2>1 DEF Neat
<1>5. ASSUME NEW n \in 1..Len(w) - 1 PROVE w[n] # "-" \/ w[n + 1] # "-"
  <2>1. n \in 1..m /\ w[n] = out[n]
    BY <1>3, <1>5
  <2>2. CASE n = m
    <3>1. d = "-" => out[m] # "-"
      BY <1>1
    <3> QED
      BY <1>3, <2>1, <2>2, <3>1
  <2>3. CASE n # m
    <3>1. n + 1 \in 1..m /\ n \in 1..Len(out) - 1
      BY <1>1, <2>1, <2>3
    <3> QED
      BY <1>3, <2>1, <3>1 DEF Neat
  <2> QED
    BY <2>2, <2>3
<1>6. w[1] # "-"
  <2>1. CASE out = <<>>
    <3>1. m = 0 /\ d # "-"
      BY <1>1, <2>1
    <3> QED
      BY <1>3, <3>1
  <2>2. CASE out # <<>>
    <3>1. 1 \in 1..m /\ out[1] # "-"
      BY <1>1, <2>2 DEF Neat
    <3> QED
      BY <1>3, <3>1
  <2> QED
    BY <2>1, <2>2
<1> QED
  BY <1>2, <1>4, <1>5, <1>6 DEF Neat

\* The beginning of what is neat is neat.
LEMMA NeatLess ==
  ASSUME NEW S, NEW out \in Seq(S), Neat(out), NEW k \in 0..Len(out)
  PROVE  SubSeq(out, 1, k) \in Seq(S) /\ Len(SubSeq(out, 1, k)) = k /\ Neat(SubSeq(out, 1, k))
<1>1. PICK w : w = SubSeq(out, 1, k)
  OBVIOUS
<1>2. w \in Seq(S) /\ Len(w) = k /\ \A n \in 1..k : w[n] = out[n] /\ n \in 1..Len(out)
  BY <1>1
<1>3. \A n \in 1..k - 1 : n \in 1..k /\ n + 1 \in 1..k /\ n \in 1..Len(out) - 1
  OBVIOUS
<1>4. w # <<>> => 1 \in 1..k /\ out # <<>>
  BY <1>2
<1>5. Neat(w)
  <2>1. \A n \in 1..Len(w) : w[n] # "."
    BY <1>2 DEF Neat
  <2>2. \A n \in 1..Len(w) - 1 : w[n] # "-" \/ w[n + 1] # "-"
    BY <1>2, <1>3 DEF Neat
  <2>3. w # <<>> => w[1] # "-"
    BY <1>2, <1>4 DEF Neat
  <2> QED
    BY <2>1, <2>2, <2>3 DEF Neat
<1> QED
  BY <1>1, <1>2, <1>5

\* What becomes of a name is neat.
LEMMA DashedIsNeat ==
  ASSUME NEW A, NEW name \in Seq(A)
  PROVE  Nam!Dashed(name) \in Seq(Marks(A)) /\ Neat(Nam!Dashed(name))
<1> DEFINE N == Len(name)
           K == [n \in 0..N |-> {out \in Seq(Marks(A)) : Neat(out)}]
<1>1. N \in Nat /\ \A n \in 1..N : name[n] \in A
  OBVIOUS
<1>2. PICK v : /\ v[0] = NoId /\ \A n \in 1..N : v[n] = Dash(v[n - 1], name[n])
               /\ Nam!Dashed(name) = v[N]
  BY DashWalks
<1>3. v[0] \in K[0]
  BY <1>1, <1>2 DEF NoId, Neat
<1>4. ASSUME NEW n \in 1..N, v[n - 1] \in K[n - 1] PROVE v[n] \in K[n]
  <2>1. PICK out \in Seq(Marks(A)) : out = v[n - 1] /\ Neat(out)
    BY <1>1, <1>4
  <2>2. PICK c \in A : c = name[n]
    BY <1>1
  <2>3. v[n] = Dash(out, c)
    BY <1>2, <2>1, <2>2
  <2>4. Dash(out, c) \in Seq(Marks(A))
    BY DashType
  <2>5. Neat(Dash(out, c))
    <3>1. c \in Marks(A) /\ "-" \in Marks(A)
      BY DEF Marks
    <3>2. CASE c \notin {"-", "."}
      <4>1. Neat(Append(out, c))
        BY <2>1, <3>1, <3>2, NeatMore
      <4> QED
        BY <3>2, <4>1 DEF Dash
    <3>3. CASE c \in {"-", "."} /\ (out = <<>> \/ out[Len(out)] = "-")
      BY <2>1, <3>3 DEF Dash
    <3>4. CASE c \in {"-", "."} /\ ~(out = <<>> \/ out[Len(out)] = "-")
      <4>1. PICK d \in Marks(A) : d = "-" /\ d # "."
        BY <3>1
      <4>2. Neat(Append(out, d))
        BY <2>1, <3>4, <4>1, NeatMore
      <4> QED
        BY <3>4, <4>1, <4>2 DEF Dash
    <3> QED
      BY <3>2, <3>3, <3>4
  <2> QED
    BY <1>1, <2>3, <2>4, <2>5
<1>5. K[N] = {out \in Seq(Marks(A)) : Neat(out)}
  BY <1>1
<1>6. v[N] \in K[N]
  <2> HIDE DEF K, N
  <2> QED
    BY <1>1, <1>3, <1>4, WalkKeeps
<1> QED
  BY <1>2, <1>5, <1>6

\* Without the dash at its end it is still neat.
LEMMA TrimmedIsNeat ==
  ASSUME NEW S, NEW out \in Seq(S), Neat(out)
  PROVE  Nam!Trimmed(out) \in Seq(S) /\ Neat(Nam!Trimmed(out)) /\ Ended(Nam!Trimmed(out))
<1>1. CASE out # <<>> /\ out[Len(out)] = "-"
  <2>1. PICK k \in Nat : k = Len(out) - 1 /\ k \in 0..Len(out) /\ k + 1 = Len(out)
    <3>1. Len(out) \in Nat /\ Len(out) > 0
      BY <1>1
    <3>2. Len(out) - 1 \in Nat /\ Len(out) - 1 \in 0..Len(out) /\ (Len(out) - 1) + 1 = Len(out)
      BY <3>1
    <3> QED
      BY <3>2
  <2>2. PICK w \in Seq(S) : w = SubSeq(out, 1, k) /\ Len(w) = k /\ Neat(w)
    BY <2>1, NeatLess
  <2>3. Nam!Trimmed(out) = w
    BY <1>1, <2>1, <2>2 DEF Nam!Trimmed, Nam!Last, Nam!Front
  <2>4. Ended(w)
    <3>1. SUFFICES ASSUME w # <<>> PROVE w[Len(w)] # "-"
      BY DEF Ended
    <3>2. k \in 1..k /\ k \in 1..Len(out) - 1 /\ w[k] = out[k]
      BY <2>1, <2>2, <3>1
    <3> QED
      BY <1>1, <2>1, <2>2, <3>2 DEF Neat
  <2> QED
    BY <2>2, <2>3, <2>4, Zenon
<1>2. CASE ~(out # <<>> /\ out[Len(out)] = "-")
  <2>1. Nam!Trimmed(out) = out
    BY <1>2 DEF Nam!Trimmed, Nam!Last
  <2> QED
    BY <1>2, <2>1 DEF Ended
<1> QED
  BY <1>1, <1>2

\* What is neat and ends well is its own slug, but for the cut.
LEMMA DashedStays ==
  ASSUME NEW S, NEW out \in Seq(S), Neat(out)
  PROVE  Nam!Dashed(out) = out
<1> DEFINE N == Len(out)
           K == [n \in 0..N |-> {SubSeq(out, 1, n)}]
<1>1. N \in Nat
  OBVIOUS
<1>2. PICK v : /\ v[0] = NoId /\ \A n \in 1..N : v[n] = Dash(v[n - 1], out[n])
               /\ Nam!Dashed(out) = v[N]
  BY DashWalks
<1>3. v[0] \in K[0]
  <2>1. SubSeq(out, 1, 0) = <<>>
    OBVIOUS
  <2> QED
    BY <1>1, <1>2, <2>1 DEF NoId
<1>4. ASSUME NEW n \in 1..N, v[n - 1] \in K[n - 1] PROVE v[n] \in K[n]
  <2>1. PICK m \in Nat : m = n - 1 /\ m + 1 = n /\ m \in 0..N
    <3>1. n - 1 \in Nat /\ (n - 1) + 1 = n /\ n - 1 \in 0..N
      BY <1>1
    <3> QED
      BY <3>1
  <2>2. PICK w \in Seq(S) : w = SubSeq(out, 1, m) /\ Len(w) = m
    BY <2>1, NeatLess
  <2>3. v[n] = Dash(w, out[n])
    BY <1>2, <1>4, <2>1, <2>2
  <2>4. out[n] # "."
    BY DEF Neat
  <2>5. out[n] = "-" => w # <<>> /\ w[Len(w)] # "-"
    <3>1. SUFFICES ASSUME out[n] = "-" PROVE m # 0 /\ out[m] # "-"
      BY <2>1, <2>2
    <3>2. m # 0
      <4>1. SUFFICES ASSUME m = 0 PROVE FALSE
        OBVIOUS
      <4>2. n = 1 /\ out # <<>>
        BY <2>1, <4>1
      <4> QED
        BY <3>1, <4>2 DEF Neat
    <3>3. m \in 1..Len(out) - 1
      BY <1>1, <2>1, <3>2
    <3> QED
      BY <2>1, <3>1, <3>2, <3>3 DEF Neat
  <2>6. Dash(w, out[n]) = Append(w, out[n])
    <3>1. CASE out[n] = "-"
      BY <2>5, <3>1 DEF Dash
    <3>2. CASE out[n] # "-"
      BY <2>4, <3>2 DEF Dash
    <3> QED
      BY <3>1, <3>2
  <2>7. Append(w, out[n]) = SubSeq(out, 1, n)
    BY <2>1, <2>2
  <2>8. v[n] = SubSeq(out, 1, n)
    BY <2>3, <2>6, <2>7
  <2>9. n \in 0..N
    BY <1>1
  <2> QED
    BY <2>8, <2>9
<1>5. K[N] = {out}
  BY <1>1
<1>6. v[N] \in K[N]
  <2> HIDE DEF K, N
  <2> QED
    BY <1>1, <1>3, <1>4, WalkKeeps
<1> QED
  BY <1>2, <1>5, <1>6

LEMMA TopicIsNeat ==
  /\ Nam!Topic \in Seq({"t", "o", "p", "i", "c"}) /\ Len(Nam!Topic) = 5 /\ Nam!Topic # <<>>
  /\ Neat(Nam!Topic) /\ Ended(Nam!Topic)
<1>1. PICK w : w = Nam!Topic
  OBVIOUS
<1>2. w \in Seq({"t", "o", "p", "i", "c"}) /\ Len(w) = 5
  BY <1>1 DEF Nam!Topic
<1>3. \A n \in 1..5 : w[n] # "." /\ w[n] # "-"
  <2>1. \A n \in 1..5 : w[n] \in {"t", "o", "p", "i", "c"}
    BY <1>2, ElementOfSeq
  <2> QED
    BY <2>1
<1>4. Neat(w) /\ Ended(w)
  BY <1>2, <1>3 DEF Neat, Ended
<1>5. w # <<>>
  <2>1. Len(<<>>) = 0
    OBVIOUS
  <2> QED
    BY <1>2, <2>1
<1> QED
  BY <1>1, <1>2, <1>4, <1>5

LEMMA NeatIsValid ==
  ASSUME NEW S, NEW id \in Seq(S), id # <<>>, Neat(id), MaxId \in Nat, Len(id) <= MaxId
  PROVE  Nam!IsValidId(id)
<1>1. \A n \in DOMAIN id : id[n] # "."
  BY DEF Neat
<1>2. "." \notin Nam!ToSet(id)
  BY <1>1 DEF Nam!ToSet
<1> QED
  BY <1>2 DEF Nam!IsValidId, Neat

\* A neat id that the cut leaves whole is its own slug.
LEMMA SlugStays ==
  ASSUME NEW S, NEW id \in Seq(S), id # <<>>, Neat(id), Ended(id), MaxId \in Nat, Len(id) < MaxId
  PROVE  Nam!Slug(id) = id
<1>1. Nam!Dashed(id) = id
  BY DashedStays
<1>2. Nam!Trimmed(id) = id
  BY DEF Nam!Trimmed, Nam!Last, Ended
<1>3. Nam!Cut(id) = id
  BY DEF Nam!Cut
<1> QED
  BY <1>1, <1>2, <1>3 DEF Nam!Slug

\* Whatever the Curator calls a topic or a source, slug gives it an id that is_valid_id
\* accepts; and an id that the cut did not shorten is its own slug.
THEOREM SlugsAreIds ==
  ASSUME NEW A, NEW name \in Seq(A), MaxId \in Nat, MaxId >= 5
  PROVE  Nam!SlugIsAnId(name)
<1>1. PICK S : S = Marks(A)
  OBVIOUS
<1>2. PICK out \in Seq(S) : out = Nam!Dashed(name) /\ Neat(out)
  BY <1>1, DashedIsNeat
<1>3. PICK t \in Seq(S) : t = Nam!Trimmed(out) /\ Neat(t) /\ Ended(t)
  BY <1>2, TrimmedIsNeat
<1>4. PICK k \in 0..Len(t) : k = (IF Len(t) < MaxId THEN Len(t) ELSE MaxId) /\ k <= MaxId
  OBVIOUS
<1>5. PICK cut \in Seq(S) : cut = Nam!Cut(t) /\ Len(cut) = k /\ Neat(cut)
  BY <1>3, <1>4, NeatLess DEF Nam!Cut
<1>6. Len(cut) < MaxId => Ended(cut)
  <2>1. SUFFICES ASSUME k < MaxId PROVE cut = t
    BY <1>3, <1>5
  <2>2. k = Len(t)
    BY <1>4, <2>1
  <2> QED
    BY <1>4, <1>5, <2>2 DEF Nam!Cut
<1>7. PICK id : id = Nam!Slug(name)
  OBVIOUS
<1>8. id = IF cut = <<>> THEN Nam!Topic ELSE cut
  BY <1>2, <1>3, <1>5, <1>7 DEF Nam!Slug
<1>9. PICK R : /\ id \in Seq(R) /\ id # <<>> /\ Neat(id) /\ Len(id) <= MaxId
               /\ Len(id) < MaxId => Ended(id)
  <2>1. CASE cut = <<>>
    BY <1>8, <2>1, TopicIsNeat
  <2>2. CASE cut # <<>>
    BY <1>4, <1>5, <1>6, <1>8, <2>2
  <2> QED
    BY <2>1, <2>2
<1>10. Nam!IsValidId(id)
  BY <1>9, NeatIsValid
<1>11. Len(id) < MaxId => Nam!Slug(id) = id
  BY <1>9, SlugStays
<1> QED
  BY <1>7, <1>10, <1>11 DEF Nam!SlugIsAnId
=============================================================================
