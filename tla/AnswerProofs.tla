----------------------------- MODULE AnswerProofs -----------------------------
(***************************************************************************)
(* Proofs about the answers of reads, for any number of memories and any   *)
(* limits: a search over a store at rest omits and ranks what it should    *)
(* (Ranking), and a client that pages through a list misses no more of     *)
(* what stays as it was than was deleted or moved back in it (Listings).   *)
(***************************************************************************)
EXTENDS Ranking, Listings, FiniteSetTheorems, WellFoundedInduction, TLAPS

(* Searches over a store at rest (Ranking).                                *)

\* The memories of the chunks that were looked at.
Looked == Hits \ left

\* An order of the memories found in which none comes after one it beats.
Sorted(results) ==
  \A i, j \in DOMAIN results : i < j => ~Beats(best[results[j]], best[results[i]])

\* A request starts from nothing, and only Similar has a source.
Beginnings ==
  /\ pc = "idle" => near = <<>> /\ matching = <<>> /\ source = Gone
  /\ pc \in {"idle", "semantic", "keyword", "fuse"} =>
       score = Nothing /\ left = {} /\ best = Nothing /\ untagged = {} /\ answer = <<>>
  /\ pc = "resolve" => untagged = {}
  /\ pc \in {"resolve", "sort"} => answer = <<>>
  /\ IF mode = "similar" THEN source \in Memories ELSE source = Gone

\* No chunk was looked at before a better one, and of each memory found the best chunk
\* that was looked at is known.
Resolving ==
  /\ score = [c \in Hits |-> Fused(Share(semantic, c), Share(keyword, c))]
  /\ left \subseteq Hits
  /\ \A c \in Looked, d \in left : ~Beats(d, c)
  /\ DOMAIN best = {owner[c] : c \in Looked} \ {Gone, source}
  /\ \A m \in DOMAIN best :
       /\ best[m] \in HitsOf(m) \cap Looked
       /\ \A c \in HitsOf(m) \cap Looked : ~Beats(c, best[m])

\* The answer is the first part of a sorted list of the memories found that have the tags.
Answering ==
  LET found == DOMAIN best \ untagged IN
  \E results \in Bijection(1 .. Cardinality(found), found) :
    Sorted(results) /\ answer = Cut(results, topK)

\* The inductive invariant of a search.
RankInv ==
  /\ TypeOK /\ IsInjective(near) /\ IsInjective(matching)
  /\ Beginnings
  /\ pc \in {"resolve", "sort", "answered"} => Resolving
  /\ pc \in {"sort", "answered"} => Enough \/ left = {}
  /\ pc = "answered" => Answering

-----------------------------------------------------------------------------
(* Scores.                                                                 *)

Fractions == Nat \X (Nat \ {0})

\* A fraction has a numerator and a denominator.
LEMMA FractionForm ==
  ASSUME NEW p \in Fractions
  PROVE  \E a \in Nat, b \in Nat \ {0} : p = <<a, b>>
BY DEF Fractions

\* Multiplication keeps an order.
LEMMA TimesKeepsOrder ==
  ASSUME NEW x \in Nat, NEW y \in Nat, NEW z \in Nat, x <= y
  PROVE  x * z <= y * z
<1>1. PICK d \in Nat : y = x + d
  <2>1. y - x \in Nat /\ y = x + (y - x)
    OBVIOUS
  <2> QED
    BY <2>1
<1>2. y * z = x * z + d * z
  BY <1>1
<1>3. x * z \in Nat /\ d * z \in Nat
  OBVIOUS
<1> QED
  BY <1>2, <1>3

\* Multiplication by a positive number keeps a strict order.
LEMMA TimesKeepsStrictOrder ==
  ASSUME NEW x \in Nat, NEW y \in Nat, NEW z \in Nat \ {0}, x < y
  PROVE  x * z < y * z
<1>1. (x + 1) * z <= y * z
  BY TimesKeepsOrder
<1>2. (x + 1) * z = x * z + z /\ x * z \in Nat /\ y * z \in Nat
  OBVIOUS
<1> QED
  BY <1>1, <1>2

\* Not to be less is transitive.
LEMMA NotLessTransitive ==
  ASSUME NEW p \in Fractions, NEW q \in Fractions, NEW s \in Fractions,
         ~Less(p, q), ~Less(q, s)
  PROVE  ~Less(p, s)
<1>p. PICK p1 \in Nat, p2 \in Nat \ {0} : p = <<p1, p2>>
  BY FractionForm
<1>q. PICK q1 \in Nat, q2 \in Nat \ {0} : q = <<q1, q2>>
  BY FractionForm
<1>s. PICK s1 \in Nat, s2 \in Nat \ {0} : s = <<s1, s2>>
  BY FractionForm
<1>1. /\ Less(p, q) <=> p1 * q2 < q1 * p2
      /\ Less(q, s) <=> q1 * s2 < s1 * q2
      /\ Less(p, s) <=> p1 * s2 < s1 * p2
  BY <1>p, <1>q, <1>s DEF Less
<1>2. q1 * p2 <= p1 * q2 /\ s1 * q2 <= q1 * s2
  <2>1. /\ q1 * p2 \in Nat /\ p1 * q2 \in Nat /\ s1 * q2 \in Nat /\ q1 * s2 \in Nat
        /\ ~ (p1 * q2 < q1 * p2) /\ ~ (q1 * s2 < s1 * q2)
    BY <1>1
  <2> QED
    BY <2>1
<1>3. (q1 * p2) * s2 <= (p1 * q2) * s2 /\ (s1 * q2) * p2 <= (q1 * s2) * p2
  BY <1>2, TimesKeepsOrder
<1>4. /\ (q1 * p2) * s2 = (q1 * s2) * p2
      /\ (s1 * q2) * p2 = (s1 * p2) * q2
      /\ (p1 * q2) * s2 = (p1 * s2) * q2
  OBVIOUS
<1>5. (s1 * p2) * q2 <= (p1 * s2) * q2
  <2>1. /\ (q1 * s2) * p2 \in Nat /\ (s1 * p2) * q2 \in Nat /\ (p1 * s2) * q2 \in Nat
    OBVIOUS
  <2> QED
    BY <1>3, <1>4, <2>1
<1>6. ~ (p1 * s2 < s1 * p2)
  <2>1. p1 * s2 \in Nat /\ s1 * p2 \in Nat
    OBVIOUS
  <2>2. SUFFICES ASSUME p1 * s2 < s1 * p2 PROVE FALSE
    OBVIOUS
  <2>3. (p1 * s2) * q2 < (s1 * p2) * q2
    BY <2>1, <2>2, TimesKeepsStrictOrder
  <2>4. (p1 * s2) * q2 \in Nat /\ (s1 * p2) * q2 \in Nat
    OBVIOUS
  <2> QED
    BY <1>5, <2>3, <2>4
<1> QED
  BY <1>1, <1>6

\* A sum of two is less than another if one of its parts is less and neither is more.
LEMMA FusedLess ==
  ASSUME NEW p \in Fractions, NEW q \in Fractions, NEW s \in Fractions, NEW t \in Fractions,
         ~Less(s, p), ~Less(t, q), Less(p, s) \/ Less(q, t)
  PROVE  Less(Fused(p, q), Fused(s, t))
<1>p. PICK p1 \in Nat, p2 \in Nat \ {0} : p = <<p1, p2>>
  BY FractionForm
<1>q. PICK q1 \in Nat, q2 \in Nat \ {0} : q = <<q1, q2>>
  BY FractionForm
<1>s. PICK s1 \in Nat, s2 \in Nat \ {0} : s = <<s1, s2>>
  BY FractionForm
<1>t. PICK t1 \in Nat, t2 \in Nat \ {0} : t = <<t1, t2>>
  BY FractionForm
<1>0. p = <<p1, p2>> /\ q = <<q1, q2>>
  BY <1>p, <1>q
<1>1. s = <<s1, s2>> /\ t = <<t1, t2>>
  BY <1>s, <1>t
<1> DEFINE a == p1 * s2
           b == s1 * p2
           c == q1 * t2
           d == t1 * q2
           m == q2 * t2
           n == p2 * s2
<1>2. a \in Nat /\ b \in Nat /\ c \in Nat /\ d \in Nat /\ m \in Nat /\ n \in Nat
  OBVIOUS
<1>3. m # 0 /\ n # 0
  <2>1. 0 * t2 < q2 * t2 /\ 0 * s2 < p2 * s2
    BY TimesKeepsStrictOrder
  <2> QED
    BY <1>2, <2>1
<1>4. a <= b /\ c <= d /\ (a < b \/ c < d)
  <2>1. ~ (b < a) /\ ~ (d < c) /\ (a < b \/ c < d)
    BY <1>0, <1>1 DEF Less
  <2> QED
    BY <1>2, <2>1
<1>5. /\ (p1 * q2 + q1 * p2) * (s2 * t2) = a * m + c * n
      /\ (s1 * t2 + t1 * s2) * (p2 * q2) = b * m + d * n
  OBVIOUS
<1> HIDE DEF a, b, c, d, m, n
<1>6. a * m <= b * m /\ c * n <= d * n /\ (a < b => a * m < b * m) /\ (c < d => c * n < d * n)
  BY <1>2, <1>3, <1>4, TimesKeepsOrder, TimesKeepsStrictOrder
<1>7. a * m \in Nat /\ b * m \in Nat /\ c * n \in Nat /\ d * n \in Nat
  BY <1>2
<1>8. a * m + c * n < b * m + d * n
  BY <1>4, <1>6, <1>7
<1> QED
  BY <1>0, <1>1, <1>5, <1>8 DEF Less, Fused

\* Sums are fractions.
LEMMA FusedIsFraction ==
  ASSUME NEW p \in Fractions, NEW q \in Fractions
  PROVE  Fused(p, q) \in Fractions
<1>p. PICK p1 \in Nat, p2 \in Nat \ {0} : p = <<p1, p2>>
  BY FractionForm
<1>q. PICK q1 \in Nat, q2 \in Nat \ {0} : q = <<q1, q2>>
  BY FractionForm
<1>1. p = <<p1, p2>> /\ q = <<q1, q2>>
  BY <1>p, <1>q
<1>2. 0 * q2 < p2 * q2
  BY TimesKeepsStrictOrder
<1>3. p2 * q2 \in Nat \ {0} /\ p1 * q2 + q1 * p2 \in Nat
  BY <1>2
<1> QED
  BY <1>1, <1>3 DEF Fused, Fractions
-----------------------------------------------------------------------------
(* Lists.                                                                  *)

\* What is cut off a list is its first part.
LEMMA CutForm ==
  ASSUME NEW S, NEW list \in Seq(S), NEW n \in Nat
  PROVE  /\ Cut(list, n) \in Seq(S)
         /\ Len(Cut(list, n)) = IF Len(list) < n THEN Len(list) ELSE n
         /\ \A i \in 1 .. Len(Cut(list, n)) : Cut(list, n)[i] = list[i]
         /\ Range(Cut(list, n)) \subseteq Range(list)
         /\ Len(list) <= n => Cut(list, n) = list
<1> DEFINE l == IF Len(list) < n THEN Len(list) ELSE n
<1>1. l \in 0 .. Len(list) /\ Len(list) \in Nat /\ DOMAIN list = 1 .. Len(list)
  OBVIOUS
<1>2. Cut(list, n) = SubSeq(list, 1, l)
  BY DEF Cut
<1>3. Cut(list, n) = [i \in 1 .. l |-> list[i]]
  BY <1>1, <1>2
<1>4. Cut(list, n) \in Seq(S) /\ Len(Cut(list, n)) = l /\ \A i \in 1 .. l : Cut(list, n)[i] = list[i]
  BY <1>1, <1>3
<1>5. Range(Cut(list, n)) \subseteq Range(list)
  BY <1>1, <1>3 DEF Range
<1>6. ASSUME Len(list) <= n PROVE Cut(list, n) = list
  BY <1>1, <1>3, <1>6
<1> QED
  BY <1>4, <1>5, <1>6

\* A cut list still names nothing twice.
LEMMA CutIsInjective ==
  ASSUME NEW S, NEW list \in Seq(S), IsInjective(list), NEW n \in Nat
  PROVE  IsInjective(Cut(list, n))
<1>1. DOMAIN Cut(list, n) = 1 .. Len(Cut(list, n)) /\ DOMAIN list = 1 .. Len(list)
      /\ Len(Cut(list, n)) <= Len(list) /\ Len(Cut(list, n)) \in Nat /\ Len(list) \in Nat
  BY CutForm
<1> QED
  BY <1>1, CutForm DEF IsInjective

\* The rank of a chunk in a list is its place.
LEMMA RankForm ==
  ASSUME NEW S, NEW list \in Seq(S), NEW c \in Range(list)
  PROVE  Rank(list, c) \in Nat \ {0} /\ Rank(list, c) \in DOMAIN list /\ list[Rank(list, c)] = c
<1>1. \E i \in DOMAIN list : list[i] = c
  BY DEF Range
<1>2. Rank(list, c) \in DOMAIN list /\ list[Rank(list, c)] = c
  BY <1>1 DEF Rank
<1>3. DOMAIN list = 1 .. Len(list) /\ Len(list) \in Nat
  OBVIOUS
<1> QED
  BY <1>2, <1>3

\* The share of a chunk in a list is a fraction that is not negative.
LEMMA ShareIsFraction ==
  ASSUME NEW S, NEW list \in Seq(S), NEW c
  PROVE  Share(list, c) \in Fractions
<1>1. CASE c \in Range(list)
  <2>1. Share(list, c)[2] \in Nat \ {0}
    BY <1>1, RankForm, SizeAssumption DEF Share
  <2> QED
    BY <1>1, <2>1 DEF Share, Fractions
<1>2. CASE c \notin Range(list)
  BY <1>2 DEF Share, Fractions
<1> QED
  BY <1>1, <1>2

\* A list adds more to the score of what it prefers.
LEMMA ShareFollowsRank ==
  ASSUME NEW S, NEW list \in Seq(S), NEW c, NEW d
  PROVE  /\ Prefers(list, c, d) => Less(Share(list, d), Share(list, c))
         /\ ~Prefers(list, d, c) => ~Less(Share(list, c), Share(list, d))
<1> DEFINE k == IF mode = "similar" THEN 0 ELSE K
<1>1. k \in Nat
  BY SizeAssumption
<1>2. /\ \A x : x \in Range(list) => Share(list, x) = <<1, Rank(list, x) + k>>
      /\ \A x : x \notin Range(list) => Share(list, x) = <<0, 1>>
  BY DEF Share
<1>3. /\ c \in Range(list) => Rank(list, c) \in Nat \ {0}
      /\ d \in Range(list) => Rank(list, d) \in Nat \ {0}
  BY RankForm
<1>4. c \in Range(list) /\ d \in Range(list) /\ c # d => Rank(list, c) # Rank(list, d)
  BY RankForm
<1> HIDE DEF k
<1>5. CASE c \in Range(list) /\ d \in Range(list)
  <2>1. /\ Less(Share(list, d), Share(list, c)) <=> Rank(list, c) < Rank(list, d)
        /\ Less(Share(list, c), Share(list, d)) <=> Rank(list, d) < Rank(list, c)
    BY <1>1, <1>2, <1>3, <1>5 DEF Less
  <2> QED
    BY <1>3, <1>5, <2>1 DEF Prefers
<1>6. CASE c \in Range(list) /\ d \notin Range(list)
  <2>1. Less(Share(list, d), Share(list, c)) /\ ~Less(Share(list, c), Share(list, d))
    BY <1>1, <1>2, <1>3, <1>6 DEF Less
  <2> QED
    BY <2>1
<1>7. CASE c \notin Range(list)
  <2>1. d \notin Range(list) => ~Less(Share(list, c), Share(list, d))
    BY <1>2, <1>7 DEF Less
  <2> QED
    BY <1>7, <2>1 DEF Prefers
<1> QED
  BY <1>5, <1>6, <1>7

-----------------------------------------------------------------------------
(* The order of chunks.                                                    *)

\* The limits of a request are numbers.
LEMMA Sizes ==
  /\ \A S \in SUBSET Chunks : IsFiniteSet(S) /\ Cardinality(S) \in Nat
  /\ \A t \in Nat : Breadth * t \in Nat
<1>1. ASSUME NEW S \in SUBSET Chunks PROVE IsFiniteSet(S) /\ Cardinality(S) \in Nat
  BY OwnerAssumption, FS_Subset, FS_CardinalityType
<1> QED
  BY <1>1, SizeAssumption

\* The two lists of hits are of chunks, finitely many.
LEMMA ListsOfChunks ==
  ASSUME TypeOK
  PROVE  /\ semantic \in Seq(Chunks) /\ keyword \in Seq(Chunks) /\ Limit \in Nat
         /\ Hits \subseteq Chunks /\ IsFiniteSet(Hits)
<1>1. Limit \in Nat
  BY Sizes, SizeAssumption DEF Limit, ChunksOf, TypeOK
<1>2. semantic \in Seq(Chunks) /\ keyword \in Seq(Chunks)
  BY <1>1, CutForm DEF TypeOK
<1>3. Hits \subseteq Chunks
  BY <1>2 DEF Hits, Range
<1> QED
  BY <1>1, <1>2, <1>3, OwnerAssumption, FS_Subset

\* Fused scores can be compared.
LEMMA ScoresAreFractions ==
  ASSUME TypeOK, Resolving, NEW c \in Hits
  PROVE  score[c] \in Fractions /\ score[c] = Fused(Share(semantic, c), Share(keyword, c))
<1>1. Share(semantic, c) \in Fractions /\ Share(keyword, c) \in Fractions
  BY ListsOfChunks, ShareIsFraction
<1> QED
  BY <1>1, FusedIsFraction DEF Resolving

\* Not to be beaten is transitive, and no chunk beats what beats it.
LEMMA NotBeaten ==
  ASSUME TypeOK, Resolving, NEW c \in Hits, NEW d \in Hits, NEW e \in Hits
  PROVE  /\ ~Beats(c, d) /\ ~Beats(d, e) => ~Beats(c, e)
         /\ Beats(c, d) => ~Beats(d, c)
<1>1. score[c] \in Fractions /\ score[d] \in Fractions /\ score[e] \in Fractions
  BY ScoresAreFractions
<1>2. ASSUME ~Beats(c, d), ~Beats(d, e) PROVE ~Beats(c, e)
  BY <1>1, <1>2, NotLessTransitive DEF Beats
<1>3. ASSUME Beats(c, d) PROVE ~Beats(d, c)
  <2>1. PICK p1 \in Nat, p2 \in Nat \ {0}, q1 \in Nat, q2 \in Nat \ {0} :
          score[c] = <<p1, p2>> /\ score[d] = <<q1, q2>>
    BY <1>1 DEF Fractions
  <2>2. q1 * p2 < p1 * q2 /\ q1 * p2 \in Nat /\ p1 * q2 \in Nat
    BY <1>3, <2>1 DEF Beats, Less
  <2> QED
    BY <2>1, <2>2 DEF Beats, Less
<1> QED
  BY <1>2, <1>3

\* Where the indexes agree so does the fused score.
LEMMA AgreementBeats ==
  ASSUME TypeOK, Resolving, NEW c \in Hits, NEW d \in Hits, Dominates(c, d)
  PROVE  Beats(c, d)
<1> DEFINE p == Share(semantic, d)
           q == Share(keyword, d)
           s == Share(semantic, c)
           t == Share(keyword, c)
<1>1. p \in Fractions /\ q \in Fractions /\ s \in Fractions /\ t \in Fractions
  BY ListsOfChunks, ShareIsFraction
<1>2. ~Prefers(semantic, d, c) /\ ~Prefers(keyword, d, c)
      /\ (Prefers(semantic, c, d) \/ Prefers(keyword, c, d))
  BY DEF Dominates
<1>3. ~Less(s, p) /\ ~Less(t, q) /\ (Less(p, s) \/ Less(q, t))
  BY <1>2, ListsOfChunks, ShareFollowsRank
<1> HIDE DEF p, q, s, t
<1>4. Less(Fused(p, q), Fused(s, t))
  BY <1>1, <1>3, FusedLess
<1> QED
  BY <1>4, ScoresAreFractions DEF Beats, p, q, s, t
-----------------------------------------------------------------------------
(* The invariant.                                                          *)

\* Nothing can be cut off an empty list.
LEMMA CutOfNothing == \A n \in Nat : Cut(<<>>, n) = <<>>
<1> SUFFICES ASSUME NEW n \in Nat PROVE Cut(<<>>, n) = <<>>
  OBVIOUS
<1>1. <<>> \in Seq(Chunks) /\ Len(<<>>) <= n
  OBVIOUS
<1> QED
  BY <1>1, CutForm

\* Nothing has been found, and of nothing the answer is empty.
LEMMA NothingFound ==
  ASSUME TypeOK, near = <<>>, matching = <<>>, score = Nothing, left = {}, best = Nothing
  PROVE  Hits = {} /\ Resolving
<1>1. semantic = <<>> /\ keyword = <<>>
  BY ListsOfChunks, CutOfNothing DEF TypeOK
<1>2. Hits = {}
  BY <1>1 DEF Hits, Range
<1>3. DOMAIN best = {}
  BY DEF Nothing
<1>4. score = [c \in Hits |-> Fused(Share(semantic, c), Share(keyword, c))]
  BY <1>2 DEF Nothing
<1> QED
  BY <1>2, <1>3, <1>4 DEF Resolving, Looked

\* Nothing has been asked for yet.
LEMMA RankingStart == Init => RankInv
<1> SUFFICES ASSUME Init PROVE RankInv
  OBVIOUS
<1>1. topK \in 1 .. MaxTopK + 1 /\ <<>> \in Seq(Chunks) /\ <<>> \in Seq(Memories)
      /\ IsInjective(<<>>)
  BY SizeAssumption DEF Init, IsInjective
<1>2. Limit \in Nat
  BY <1>1, Sizes, SizeAssumption DEF Limit, ChunksOf
<1>3. semantic = Cut(near, Limit) /\ keyword = Cut(matching, Limit)
  BY <1>2, CutOfNothing DEF Init
<1>4. DOMAIN Nothing = {}
  BY DEF Nothing
<1>5. TypeOK
  BY <1>1, <1>3, <1>4, SizeAssumption DEF Init, TypeOK, Modes
<1>6. Beginnings
  BY DEF Init, Beginnings
<1> QED
  BY <1>1, <1>5, <1>6 DEF Init, RankInv

\* What is asked for is one answer or more.
LEMMA AskedRange ==
  \A k \in 0 .. MaxTopK + 1 : Asked(k) \in 1 .. MaxTopK + 1 /\ Capped(Asked(k)) \in 1 .. MaxTopK
BY SizeAssumption DEF Asked, Capped

\* A new request finds nothing of the one before.
LEMMA RequestStep ==
  ASSUME RankInv, pc = "idle", topK' \in 1 .. MaxTopK + 1, owner' \in Owners,
         \/ /\ mode' \in Modes /\ source' = source /\ pc' \in {"semantic", "keyword"}
         \/ /\ mode' = "similar" /\ source' \in Memories /\ pc' \in {"semantic", "answered"},
         UNCHANGED <<near, matching, semantic, keyword, score, left, best, untagged, answer>>
  PROVE  RankInv'
<1>1. /\ TypeOK /\ near = <<>> /\ matching = <<>> /\ source = Gone
      /\ score = Nothing /\ left = {} /\ best = Nothing /\ untagged = {} /\ answer = <<>>
  BY DEF RankInv, Beginnings
<1>2. semantic = <<>> /\ keyword = <<>>
  BY <1>1, ListsOfChunks, CutOfNothing DEF TypeOK
<1>3. Limit' \in Nat
  BY Sizes, SizeAssumption DEF Limit, ChunksOf
<1>4. semantic' = Cut(near', Limit') /\ keyword' = Cut(matching', Limit')
  BY <1>1, <1>2, <1>3, CutOfNothing
<1>5. DOMAIN score = {} /\ DOMAIN best = {}
  BY <1>1 DEF Nothing
<1>6. TypeOK'
  <2>1. owner' \in [Chunks -> Memories \cup {Gone}]
    BY OwnerAssumption
  <2>2. Len(answer') <= topK'
    BY <1>1, SizeAssumption
  <2>3. "similar" \notin Modes
    BY DEF Modes
  <2> QED
    BY <1>1, <1>4, <1>5, <2>1, <2>2 DEF TypeOK
<1>7. Beginnings'
  <2>1. "similar" \notin Modes
    BY DEF Modes
  <2> QED
    BY <1>1, <2>1 DEF Beginnings
<1>8. Hits' = {}
  BY <1>2 DEF Hits, Range
<1>9. Resolving'
  BY <1>1, <1>5, <1>8 DEF Resolving, Looked, Nothing
<1>10. Answering'
  <2> DEFINE found == DOMAIN best \ untagged
  <2>1. found' = {} /\ Cardinality(found') = 0
    BY <1>1, <1>5, FS_EmptySet
  <2>2. <<>> \in Bijection(1 .. 0, {})
    BY DEF Bijection, Injection, Surjection, IsInjective
  <2>3. Cut(<<>>, topK') = <<>>
    BY CutOfNothing, SizeAssumption
  <2>4. Sorted(<<>>)'
    BY DEF Sorted
  <2> QED
    BY <1>1, <2>1, <2>2, <2>3, <2>4 DEF Answering
<1> QED
  BY <1>1, <1>6, <1>7, <1>9, <1>10 DEF RankInv

\* The first part of what an index has to give becomes a list of hits.
LEMMA IndexStep == RankInv /\ (SemanticSearch \/ KeywordSearch) => RankInv'
<1> SUFFICES ASSUME RankInv, SemanticSearch \/ KeywordSearch PROVE RankInv'
  OBVIOUS
<1>1. /\ TypeOK /\ Beginnings /\ pc \in {"semantic", "keyword"} /\ pc' \in {"keyword", "fuse"}
      /\ UNCHANGED <<mode, topK, source, owner, score, left, best, untagged, answer>>
  BY DEF SemanticSearch, KeywordSearch, RankInv
<1>2. Limit' = Limit
  BY <1>1 DEF Limit, ChunksOf
<1>3. /\ near' \in Seq(Chunks) /\ matching' \in Seq(Chunks)
      /\ IsInjective(near') /\ IsInjective(matching')
      /\ semantic' = Cut(near', Limit) /\ keyword' = Cut(matching', Limit)
  BY OrderAssumption DEF SemanticSearch, KeywordSearch, RankInv, TypeOK
<1>4. score = Nothing /\ left = {} /\ DOMAIN score = {}
  BY <1>1 DEF Beginnings, Nothing
<1>5. TypeOK'
  BY <1>1, <1>2, <1>3, <1>4 DEF TypeOK, ChunksOf
<1>6. Beginnings'
  BY <1>1 DEF Beginnings
<1> QED
  BY <1>1, <1>3, <1>5, <1>6 DEF RankInv

\* Fusion gives a score to every hit, and none has been looked at.
LEMMA FuseStep == RankInv /\ Fuse => RankInv'
<1> SUFFICES ASSUME RankInv, Fuse PROVE RankInv'
  OBVIOUS
<1>1. /\ TypeOK /\ Beginnings /\ pc = "fuse" /\ pc' = "resolve" /\ left' = Hits
      /\ score' = [c \in Hits |-> Fused(Share(semantic, c), Share(keyword, c))]
      /\ UNCHANGED <<mode, topK, source, owner, near, matching, semantic, keyword, best,
                     untagged, answer>>
  BY DEF Fuse, RankInv
<1>2. Limit' = Limit /\ Hits' = Hits /\ Looked' = {} /\ DOMAIN score' = Hits
  BY <1>1 DEF Limit, ChunksOf, Hits, Looked
<1>3. best = Nothing /\ DOMAIN best = {}
  BY <1>1 DEF Beginnings, Nothing
<1>4. TypeOK'
  BY <1>1, <1>2, <1>3 DEF TypeOK, ChunksOf
<1>5. Beginnings'
  BY <1>1 DEF Beginnings
<1>6. \A list, c : Share(list, c)' = Share(list, c)
  BY <1>1 DEF Share
<1>7. score' = [c \in Hits' |-> Fused(Share(semantic, c), Share(keyword, c))']
  BY <1>1, <1>2 DEF Share
<1>8. Resolving'
  BY <1>1, <1>2, <1>3, <1>7 DEF Resolving
<1> QED
  BY <1>1, <1>4, <1>5, <1>8 DEF RankInv

\* The best chunk that is left is looked at: its memory is found, or was already, or is none.
LEMMA ResolveStep == RankInv /\ Resolve => RankInv'
<1> SUFFICES ASSUME RankInv, Resolve PROVE RankInv'
  OBVIOUS
<1>1. /\ TypeOK /\ Beginnings /\ Resolving /\ pc = "resolve" /\ untagged = {} /\ answer = <<>>
      /\ UNCHANGED <<pc, mode, topK, source, owner, near, matching, semantic, keyword,
                     score, untagged, answer>>
  BY DEF Resolve, RankInv, Beginnings
<1> DEFINE skip(c) == \/ owner[c] \in {Gone, source}
                      \/ owner[c] \in DOMAIN best /\ ~Beats(c, best[owner[c]])
<1>2. PICK c \in left :
        /\ \A d \in left : ~Beats(d, c)
        /\ left' = left \ {c}
        /\ best' = IF skip(c) THEN best
                   ELSE [m \in DOMAIN best \cup {owner[c]} |->
                           IF m = owner[c] THEN c ELSE best[m]]
  BY DEF Resolve
<1>3. /\ Limit' = Limit /\ Hits' = Hits /\ (\A m : HitsOf(m)' = HitsOf(m))
      /\ (\A m : ChunksOf(m)' = ChunksOf(m))
      /\ \A d, e : Beats(d, e)' <=> Beats(d, e)
  BY <1>1 DEF Limit, ChunksOf, Hits, HitsOf, Beats
<1>4. /\ c \in Hits /\ c \in Chunks /\ owner[c] \in Memories \cup {Gone}
      /\ c \in HitsOf(owner[c]) /\ c \in ChunksOf(owner[c])
  BY <1>1, <1>2, ListsOfChunks DEF Resolving, HitsOf, ChunksOf, TypeOK
<1>5. Looked' = Looked \cup {c} /\ c \notin Looked /\ Looked \subseteq Hits
  BY <1>2, <1>3, <1>4 DEF Looked
<1>6. \A d \in Looked : ~Beats(c, d)
  BY <1>1, <1>2 DEF Resolving
<1>7. \A m \in DOMAIN best : best[m] \in HitsOf(m) \cap Looked /\ best[m] \in ChunksOf(m)
  BY <1>1 DEF Resolving, HitsOf
<1>8. ~Beats(c, c)
  BY <1>1, <1>4, NotBeaten

\* A chunk that is found later is not better.
<1>9. skip(c) <=> owner[c] \in {Gone, source} \cup DOMAIN best
  BY <1>6, <1>7
<1>10. DOMAIN best' = {owner[d] : d \in Looked'} \ {Gone, source}
  <2>1. DOMAIN best = {owner[d] : d \in Looked} \ {Gone, source}
    BY <1>1 DEF Resolving
  <2>2. {owner[d] : d \in Looked'} = {owner[d] : d \in Looked} \cup {owner[c]}
    BY <1>5
  <2>3. CASE skip(c)
    <3>1. owner[c] \in {Gone, source} \cup DOMAIN best /\ best' = best
      BY <1>2, <1>9, <2>3
    <3> QED
      BY <2>1, <2>2, <3>1
  <2>4. CASE ~skip(c)
    <3>1. owner[c] \notin {Gone, source} /\ DOMAIN best' = DOMAIN best \cup {owner[c]}
      BY <1>2, <1>9, <2>4
    <3> QED
      BY <2>1, <2>2, <3>1
  <2> QED
    BY <2>3, <2>4
<1>11. ASSUME NEW m \in DOMAIN best'
       PROVE  /\ best'[m] \in HitsOf(m) \cap Looked'
              /\ best'[m] \in ChunksOf(m)
              /\ \A d \in HitsOf(m) \cap Looked' : ~Beats(d, best'[m])
  <2>1. CASE m \in DOMAIN best
    <3>1. best'[m] = best[m]
      BY <1>2, <1>9, <2>1
    <3>2. \A d \in HitsOf(m) \cap Looked : ~Beats(d, best[m])
      BY <1>1, <2>1 DEF Resolving
    <3>3. ~Beats(c, best[m])
      BY <1>6, <1>7, <2>1
    <3> QED
      BY <1>5, <1>7, <2>1, <3>1, <3>2, <3>3
  <2>2. CASE m \notin DOMAIN best
    <3>1. m = owner[c] /\ best'[m] = c /\ owner[c] \notin DOMAIN best
          /\ owner[c] \notin {Gone, source}
      BY <1>2, <1>9, <2>2
    <3>2. \A d \in Looked : owner[d] # m
      BY <1>1, <2>2, <3>1 DEF Resolving
    <3>3. \A d \in HitsOf(m) : owner[d] = m
      BY DEF HitsOf, ChunksOf
    <3> QED
      BY <1>4, <1>5, <1>8, <3>1, <3>2, <3>3
  <2> QED
    BY <2>1, <2>2
<1> HIDE DEF skip
<1>12. TypeOK'
  <2>1. DOMAIN best' \subseteq Memories \ {source}
    <3>1. \A d \in Looked' : owner[d] \in Memories \cup {Gone}
      BY <1>4, <1>5, <1>1, ListsOfChunks DEF TypeOK
    <3> QED
      BY <1>10, <3>1
  <2>2. \A m \in DOMAIN best' : best'[m] \in ChunksOf(m)'
    BY <1>3, <1>11
  <2>3. DOMAIN score' \subseteq Hits' /\ left' \subseteq DOMAIN score'
    BY <1>1, <1>2, <1>3 DEF TypeOK
  <2>4. untagged' \subseteq DOMAIN best'
    BY <1>1
  <2> QED
    BY <1>1, <1>3, <2>1, <2>2, <2>3, <2>4 DEF TypeOK
<1>13. Beginnings'
  BY <1>1 DEF Beginnings
<1>14. Resolving'
  <2>1. score' = [d \in Hits' |-> Fused(Share(semantic, d), Share(keyword, d))']
    BY <1>1, <1>3 DEF Resolving, Share
  <2>2. left' \subseteq Hits' /\ \A d \in Looked', e \in left' : ~Beats(e, d)
    <3>1. \A d \in Looked, e \in left : ~Beats(e, d)
      BY <1>1 DEF Resolving
    <3> QED
      BY <1>1, <1>2, <1>3, <1>5, <3>1 DEF Resolving
  <2> QED
    BY <1>1, <1>3, <1>10, <1>11, <2>1, <2>2 DEF Resolving
<1> QED
  BY <1>1, <1>12, <1>13, <1>14 DEF RankInv

\* What is found does not change when it is fetched, sorted and cut.
LEMMA ResolvingFrame ==
  ASSUME Resolving,
         UNCHANGED <<mode, topK, source, owner, near, matching, semantic, keyword, score, left, best>>
  PROVE  /\ Resolving' /\ Limit' = Limit /\ Hits' = Hits
         /\ (\A m : ChunksOf(m)' = ChunksOf(m)) /\ (Enough' <=> Enough)
         /\ \A results : Sorted(results)' <=> Sorted(results)
<1>1. /\ Limit' = Limit /\ Hits' = Hits /\ Looked' = Looked
      /\ (\A m : HitsOf(m)' = HitsOf(m)) /\ (\A m : ChunksOf(m)' = ChunksOf(m))
      /\ (\A d, e : Beats(d, e)' <=> Beats(d, e)) /\ (Enough' <=> Enough)
  BY DEF Limit, ChunksOf, Hits, HitsOf, Looked, Beats, Enough
<1>2. \A results : Sorted(results)' <=> Sorted(results)
  BY <1>1 DEF Sorted
<1>3. score' = [d \in Hits' |-> Fused(Share(semantic, d), Share(keyword, d))']
  BY <1>1 DEF Resolving, Share
<1>4. Resolving'
  BY <1>1, <1>3 DEF Resolving
<1> QED
  BY <1>1, <1>2, <1>4

\* Memories without the tags are put aside.
LEMMA FetchStep == RankInv /\ Fetch => RankInv'
<1> SUFFICES ASSUME RankInv, Fetch PROVE RankInv'
  OBVIOUS
<1>1. /\ TypeOK /\ Beginnings /\ Resolving /\ pc = "resolve" /\ pc' = "sort"
      /\ Enough \/ left = {}
      /\ UNCHANGED <<mode, topK, source, owner, near, matching, semantic, keyword, score,
                     left, best, answer>>
  BY DEF Fetch, RankInv
<1>2. untagged' \subseteq DOMAIN best
  BY DEF Fetch
<1>3. Resolving' /\ Limit' = Limit /\ Hits' = Hits /\ (\A m : ChunksOf(m)' = ChunksOf(m))
      /\ (Enough' <=> Enough)
  BY <1>1, ResolvingFrame
<1>4. TypeOK'
  BY <1>1, <1>2, <1>3 DEF TypeOK
<1>5. Beginnings'
  BY <1>1 DEF Beginnings
<1> QED
  BY <1>1, <1>3, <1>4, <1>5 DEF RankInv

\* What the answer is made of.
LEMMA FoundForm ==
  ASSUME TypeOK, Resolving
  PROVE  /\ IsFiniteSet(DOMAIN best) /\ Cardinality(DOMAIN best) \in Nat
         /\ \A F \in SUBSET DOMAIN best : IsFiniteSet(F) /\ Cardinality(F) \in Nat
<1> DEFINE f == [m \in DOMAIN best |-> best[m]]
<1>1. f \in Injection(DOMAIN best, Chunks)
  BY DEF TypeOK, ChunksOf, Injection, IsInjective
<1>2. IsFiniteSet(DOMAIN best)
  BY <1>1, OwnerAssumption, FS_Injection
<1> QED
  BY <1>2, FS_Subset, FS_CardinalityType

\* A sorted list of what was found has each memory in one place.
LEMMA ResultsForm ==
  ASSUME NEW F, IsFiniteSet(F), Cardinality(F) \in Nat,
         NEW results \in Bijection(1 .. Cardinality(F), F), NEW n \in Nat
  PROVE  /\ results \in Seq(F) /\ Len(results) = Cardinality(F)
         /\ DOMAIN results = 1 .. Cardinality(F) /\ (\A j \in DOMAIN results : results[j] \in F)
         /\ IsInjective(results) /\ \A m \in F : \E j \in DOMAIN results : results[j] = m
         /\ Cut(results, n) \in Seq(F) /\ IsInjective(Cut(results, n))
         /\ Len(Cut(results, n)) = IF Cardinality(F) < n THEN Cardinality(F) ELSE n
         /\ DOMAIN Cut(results, n) = 1 .. Len(Cut(results, n))
         /\ \A i \in DOMAIN Cut(results, n) : Cut(results, n)[i] = results[i]
<1>1. /\ results \in [1 .. Cardinality(F) -> F] /\ IsInjective(results)
      /\ \A m \in F : \E j \in 1 .. Cardinality(F) : results[j] = m
  BY DEF Bijection, Injection, Surjection
<1>2. results \in Seq(F) /\ Len(results) = Cardinality(F) /\ DOMAIN results = 1 .. Cardinality(F)
  BY <1>1
<1>3. /\ Cut(results, n) \in Seq(F) /\ IsInjective(Cut(results, n))
      /\ Len(Cut(results, n)) = IF Cardinality(F) < n THEN Cardinality(F) ELSE n
      /\ \A i \in 1 .. Len(Cut(results, n)) : Cut(results, n)[i] = results[i]
  BY <1>1, <1>2, CutForm, CutIsInjective
<1>4. DOMAIN Cut(results, n) = 1 .. Len(Cut(results, n))
  BY <1>3
<1> QED
  BY <1>1, <1>2, <1>3, <1>4

\* The answer is the first part of a sorted list.
LEMMA SortStep == RankInv /\ Sort => RankInv'
<1> SUFFICES ASSUME RankInv, Sort PROVE RankInv'
  OBVIOUS
<1> DEFINE found == DOMAIN best \ untagged
<1>1. /\ TypeOK /\ Beginnings /\ Resolving /\ pc = "sort" /\ pc' = "answered"
      /\ Enough \/ left = {}
      /\ UNCHANGED <<mode, topK, source, owner, near, matching, semantic, keyword, score,
                     left, best, untagged>>
  BY DEF Sort, RankInv
<1>2. PICK results \in Bijection(1 .. Cardinality(found), found) :
        Sorted(results) /\ answer' = Cut(results, topK)
  BY DEF Sort, Sorted
<1>3. /\ Resolving' /\ Limit' = Limit /\ Hits' = Hits /\ (\A m : ChunksOf(m)' = ChunksOf(m))
      /\ (Enough' <=> Enough) /\ Sorted(results)'
  BY <1>1, <1>2, ResolvingFrame
<1>4. topK \in Nat
  BY <1>1, SizeAssumption DEF TypeOK
<1>5. answer' \in Seq(Memories) /\ IsInjective(answer') /\ Len(answer') <= topK
  <2>1. IsFiniteSet(found) /\ Cardinality(found) \in Nat /\ found \subseteq Memories
    BY <1>1, FoundForm DEF TypeOK
  <2> HIDE DEF found
  <2>2. answer' \in Seq(found) /\ IsInjective(answer') /\ Len(answer') <= topK
    BY <1>2, <1>4, <2>1, ResultsForm
  <2> QED
    BY <2>1, <2>2
<1>6. TypeOK'
  BY <1>1, <1>3, <1>5 DEF TypeOK
<1>7. Beginnings'
  BY <1>1 DEF Beginnings
<1>8. Answering'
  BY <1>1, <1>2, <1>3 DEF Answering
<1> QED
  BY <1>1, <1>3, <1>6, <1>7, <1>8 DEF RankInv

\* A request that returns leaves nothing behind.
LEMMA ReturnStep == RankInv /\ Return => RankInv'
<1> SUFFICES ASSUME RankInv, Return PROVE RankInv'
  OBVIOUS
<1>1. topK' \in 1 .. MaxTopK + 1 /\ <<>> \in Seq(Chunks) /\ <<>> \in Seq(Memories)
      /\ IsInjective(<<>>)
  BY SizeAssumption DEF Return, IsInjective
<1>2. Limit' \in Nat
  BY <1>1, Sizes, SizeAssumption DEF Limit, ChunksOf
<1>3. semantic' = Cut(near', Limit') /\ keyword' = Cut(matching', Limit')
  BY <1>2, CutOfNothing DEF Return
<1>4. DOMAIN Nothing = {}
  BY DEF Nothing
<1>5. TypeOK'
  BY <1>1, <1>3, <1>4, SizeAssumption DEF Return, TypeOK, Modes
<1>6. Beginnings'
  BY DEF Return, Beginnings
<1> QED
  BY <1>1, <1>5, <1>6 DEF Return, RankInv

\* Every step of a search keeps the invariant.
LEMMA RankingStep == RankInv /\ [Next]_vars => RankInv'
<1> SUFFICES ASSUME RankInv, [Next]_vars PROVE RankInv'
  OBVIOUS
<1>1. ASSUME NEW k \in 0 .. MaxTopK + 1, NEW m \in Modes, Search(k, m) PROVE RankInv'
  BY <1>1, AskedRange, RequestStep, SizeAssumption DEF Search
<1>2. ASSUME NEW k \in 0 .. MaxTopK + 1, NEW m \in Memories, Similar(k, m) PROVE RankInv'
  BY <1>2, AskedRange, RequestStep DEF Similar
<1>3. CASE UNCHANGED vars
  <2>1. /\ UNCHANGED <<mode, topK, source, owner, near, matching, semantic, keyword, score, left, best>>
        /\ UNCHANGED <<pc, untagged, answer>>
    BY <1>3 DEF vars
  <2>2. /\ Limit' = Limit /\ Hits' = Hits /\ (\A m : ChunksOf(m)' = ChunksOf(m))
    BY <2>1 DEF Limit, ChunksOf, Hits
  <2>3. TypeOK' /\ Beginnings'
    BY <2>1, <2>2 DEF RankInv, TypeOK, Beginnings
  <2>4. Resolving => Resolving' /\ (Enough' <=> Enough) /\ (Answering => Answering')
    BY <2>1, ResolvingFrame DEF Answering
  <2> QED
    BY <2>1, <2>3, <2>4 DEF RankInv
<1> QED
  BY <1>1, <1>2, <1>3, IndexStep, FuseStep, ResolveStep, FetchStep, SortStep, ReturnStep DEF Next
-----------------------------------------------------------------------------
(* What the answer says.                                                   *)

\* The best chunk that was looked at of each memory, and all chunks not looked at, are no
\* better than the best chunk of a memory found.
LEMMA FoundIsGood ==
  ASSUME TypeOK, Resolving, NEW n \in DOMAIN best
  PROVE  /\ best[n] \in HitsOf(n) \cap Looked
         /\ \A d \in left : ~Beats(d, best[n])
         /\ \A c \in Hits : c \notin left /\ owner[c] \notin {Gone, source}
              => owner[c] \in DOMAIN best
BY DEF Resolving, Looked

\* A memory is as good as another if its best chunk is not beaten by the other's.
LEMMA AsGoodRule ==
  ASSUME TypeOK, Resolving, NEW n \in DOMAIN best, NEW m,
         m \in DOMAIN best => ~Beats(best[m], best[n]),
         m \notin DOMAIN best => HitsOf(m) \subseteq left
  PROVE  AsGood(n, m)
<1> SUFFICES ASSUME NEW d \in HitsOf(m) PROVE ~Beats(d, best[n]) /\ best[n] \in HitsOf(n)
  BY DEF AsGood
<1>1. best[n] \in HitsOf(n) /\ best[n] \in Hits
  BY FoundIsGood DEF HitsOf
<1>2. CASE d \in left
  BY <1>1, <1>2, FoundIsGood
<1>3. CASE d \notin left
  <2>1. m \in DOMAIN best /\ d \in Hits /\ d \in HitsOf(m) \cap Looked
    BY <1>3 DEF HitsOf, Looked
  <2>2. ~Beats(d, best[m]) /\ best[m] \in Hits
    BY <2>1 DEF Resolving, HitsOf
  <2> QED
    BY <1>1, <2>1, <2>2, NotBeaten
<1> QED
  BY <1>2, <1>3

\* A memory with a chunk that was looked at is found, one without has none looked at.
LEMMA FoundOrLeft ==
  ASSUME TypeOK, Resolving, NEW m \in Memories \ {source}, m \notin DOMAIN best
  PROVE  HitsOf(m) \subseteq left
<1> SUFFICES ASSUME NEW d \in HitsOf(m), d \notin left PROVE FALSE
  OBVIOUS
<1>1. owner[d] = m /\ d \in Looked /\ m # Gone
  BY OwnerAssumption DEF HitsOf, ChunksOf, Looked
<1> QED
  BY <1>1 DEF Resolving

\* The invariant has the answer follow the indexes where they agree.
LEMMA AgreementInvariant == RankInv => AgreementIsKept
<1> SUFFICES ASSUME RankInv, pc = "answered",
                    NEW i \in DOMAIN answer, NEW m \in Candidates \ untagged,
                    \A d \in HitsOf(answer[i]) : \E c \in HitsOf(m) : Dominates(c, d)
             PROVE  \E j \in 1 .. i - 1 : answer[j] = m
  BY DEF AgreementIsKept, Answered
<1> DEFINE F == DOMAIN best \ untagged
<1>1. TypeOK /\ Resolving /\ Answering /\ topK \in Nat
  BY SizeAssumption DEF RankInv, TypeOK
<1>2. PICK results \in Bijection(1 .. Cardinality(F), F) :
        Sorted(results) /\ answer = Cut(results, topK)
  BY <1>1 DEF Answering
<1>3. IsFiniteSet(F) /\ Cardinality(F) \in Nat
  BY <1>1, FoundForm
<1>4. F \subseteq DOMAIN best /\ \A x \in DOMAIN best : x \notin untagged => x \in F
  OBVIOUS
<1> HIDE DEF F
<1>5. /\ DOMAIN results = 1 .. Cardinality(F) /\ \A j \in DOMAIN results : results[j] \in F
      /\ \A x \in F : \E j \in DOMAIN results : results[j] = x
      /\ Len(answer) = IF Cardinality(F) < topK THEN Cardinality(F) ELSE topK
      /\ DOMAIN answer = 1 .. Len(answer)
      /\ \A j \in DOMAIN answer : answer[j] = results[j]
  BY <1>1, <1>2, <1>3, ResultsForm
<1> DEFINE n == answer[i]
<1>6. i \in DOMAIN results /\ n = results[i] /\ n \in F /\ n \in DOMAIN best
  BY <1>3, <1>4, <1>5, <1>1
<1> HIDE DEF n
<1>7. best[n] \in HitsOf(n) /\ best[n] \in Hits
  BY <1>1, <1>6, FoundIsGood DEF HitsOf
<1>8. PICK c \in HitsOf(m) : Dominates(c, best[n])
  BY <1>7 DEF n
<1>9. c \in Hits /\ owner[c] = m /\ m \notin {Gone, source}
  BY OwnerAssumption DEF HitsOf, ChunksOf, Candidates
<1>10. Beats(c, best[n])
  BY <1>1, <1>7, <1>8, <1>9, AgreementBeats
<1>11. c \notin left
  BY <1>1, <1>6, <1>10, FoundIsGood
<1>12. m \in DOMAIN best /\ m \in F
  BY <1>1, <1>4, <1>6, <1>9, <1>11, FoundIsGood
<1>13. best[m] \in Hits /\ ~Beats(c, best[m])
  BY <1>1, <1>9, <1>11, <1>12 DEF Resolving, HitsOf, ChunksOf, Looked
<1>14. Beats(best[m], best[n])
  BY <1>1, <1>7, <1>9, <1>10, <1>13, NotBeaten
<1>15. PICK j \in DOMAIN results : results[j] = m
  BY <1>5, <1>12
<1>16. j # i
  BY <1>1, <1>6, <1>7, <1>14, <1>15, NotBeaten
<1>17. ~ (i < j)
  BY <1>2, <1>6, <1>14, <1>15 DEF Sorted
<1>18. j \in 1 .. i - 1 /\ j \in DOMAIN answer
  BY <1>1, <1>3, <1>5, <1>6, <1>15, <1>16, <1>17
<1> QED
  BY <1>5, <1>15, <1>18

\* By the invariant a memory is only left out for others that are as good.
LEMMA OmissionInvariant == RankInv => OmissionsAreEarned
<1> SUFFICES ASSUME RankInv, pc = "answered", NEW m \in Candidates \ (untagged \cup Range(answer))
             PROVE  \/ Len(answer) = topK /\ \A i \in DOMAIN answer : AsGood(answer[i], m)
                    \/ /\ mode # "similar"
                       /\ Cardinality({n \in Candidates \ {m} : AsGood(n, m)}) >= Breadth * topK
  BY DEF OmissionsAreEarned, Answered
<1> DEFINE F == DOMAIN best \ untagged
<1>1. TypeOK /\ Resolving /\ Answering /\ topK \in Nat /\ (Enough \/ left = {})
  BY SizeAssumption DEF RankInv, TypeOK
<1>2. PICK results \in Bijection(1 .. Cardinality(F), F) :
        Sorted(results) /\ answer = Cut(results, topK)
  BY <1>1 DEF Answering
<1>3. IsFiniteSet(F) /\ Cardinality(F) \in Nat
  BY <1>1, FoundForm
<1>4. F \subseteq DOMAIN best /\ \A x \in DOMAIN best : x \notin untagged => x \in F
  OBVIOUS
<1> HIDE DEF F
<1>5. /\ DOMAIN results = 1 .. Cardinality(F) /\ \A j \in DOMAIN results : results[j] \in F
      /\ \A x \in F : \E j \in DOMAIN results : results[j] = x
      /\ Len(answer) = IF Cardinality(F) < topK THEN Cardinality(F) ELSE topK
      /\ DOMAIN answer = 1 .. Len(answer)
      /\ \A j \in DOMAIN answer : answer[j] = results[j]
  BY <1>1, <1>2, <1>3, ResultsForm
<1>6. m \in Memories \ {source} /\ HitsOf(m) # {}
  BY DEF Candidates
<1>7. CASE m \in DOMAIN best
  <2>1. PICK j \in DOMAIN results : results[j] = m
    BY <1>4, <1>5, <1>7
  <2>2. j \notin DOMAIN answer
    BY <1>5, <2>1 DEF Range
  <2>3. Len(answer) = topK /\ \A i \in DOMAIN answer : i < j /\ i \in DOMAIN results
    BY <1>1, <1>3, <1>5, <2>1, <2>2
  <2>4. ASSUME NEW i \in DOMAIN answer PROVE AsGood(answer[i], m)
    <3>1. answer[i] \in DOMAIN best /\ answer[i] = results[i] /\ i \in DOMAIN results
      BY <1>4, <1>5, <2>3
    <3>2. ~Beats(best[m], best[answer[i]])
      BY <1>2, <2>1, <2>3, <3>1 DEF Sorted
    <3> QED
      BY <1>1, <1>7, <3>1, <3>2, AsGoodRule
  <2> QED
    BY <2>3, <2>4
<1>8. CASE m \notin DOMAIN best
  <2> DEFINE G == {n \in Candidates \ {m} : AsGood(n, m)}
             f == [c \in Hits |-> owner[c]]
             O == {owner[c] : c \in Hits}
  <2>1. HitsOf(m) \subseteq left /\ Enough
    BY <1>1, <1>6, <1>8, FoundOrLeft
  <2>2. ASSUME NEW n \in DOMAIN best PROVE n \in G
    <3>1. AsGood(n, m)
      BY <1>1, <1>8, <2>1, <2>2, AsGoodRule
    <3>2. n \in Candidates /\ n # m
      BY <1>1, <1>8, <2>2, FoundIsGood DEF Candidates, TypeOK
    <3> QED
      BY <3>1, <3>2
  <2>3. IsFiniteSet(O)
    <3>1. f \in Surjection(Hits, O)
      BY DEF Surjection
    <3> QED
      BY <1>1, <3>1, ListsOfChunks, FS_Surjection
  <2>4. G \subseteq O
    <3> SUFFICES ASSUME NEW n \in Candidates PROVE n \in O
      OBVIOUS
    <3> QED
      BY DEF Candidates, HitsOf, ChunksOf
  <2> HIDE DEF G, O
  <2>5. IsFiniteSet(G) /\ Cardinality(G) \in Nat /\ Cardinality(DOMAIN best) <= Cardinality(G)
    BY <2>2, <2>3, <2>4, FS_Subset, FS_CardinalityType
  <2>6. mode # "similar" /\ Cardinality(DOMAIN best) >= Breadth * topK
    BY <2>1 DEF Enough
  <2>7. Cardinality(DOMAIN best) \in Nat /\ Breadth * topK \in Nat
    BY <1>1, FoundForm, Sizes
  <2>8. Cardinality(G) >= Breadth * topK
    BY <2>5, <2>6, <2>7
  <2> QED
    BY <2>6, <2>8 DEF G
<1> QED
  BY <1>7, <1>8

\* A list that was cut has as many places as were asked for that are not of the source,
\* and they name no other memories than those that were found.
LEMMA WastedPlaces ==
  ASSUME TypeOK, Beginnings, Resolving, left = {}, Cardinality(DOMAIN best) < topK,
         NEW all \in Seq(Chunks), IsInjective(all), NEW list, list = Cut(all, Limit),
         Len(list) < Len(all), Range(list) \subseteq Hits
  PROVE  Wasted(list) > (Breadth - 1) * topK
<1> DEFINE own == {i \in DOMAIN list : owner[list[i]] = source /\ source # Gone}
           others == {i \in DOMAIN list : owner[list[i]] # source \/ source = Gone}
           named == {owner[list[i]] : i \in others} \cap Memories
           extra == IF mode = "similar" THEN Cardinality(ChunksOf(source)) ELSE 0
<1>1. /\ list \in Seq(Chunks) /\ IsInjective(list) /\ Len(list) = Limit /\ Limit \in Nat
      /\ DOMAIN list = 1 .. Limit
  <2>1. Limit \in Nat /\ Len(all) \in Nat
    BY ListsOfChunks
  <2>2. /\ list \in Seq(Chunks) /\ IsInjective(list)
        /\ Len(list) = IF Len(all) < Limit THEN Len(all) ELSE Limit
    BY <2>1, CutForm, CutIsInjective
  <2>3. Len(list) = Limit
    BY <2>1, <2>2
  <2> QED
    BY <2>1, <2>2, <2>3
<1>2. /\ topK \in Nat /\ Breadth * topK \in Nat /\ extra \in Nat /\ Limit = Breadth * topK + extra
  <2>1. topK \in Nat /\ Breadth * topK \in Nat /\ ChunksOf(source) \subseteq Chunks
    BY Sizes, SizeAssumption DEF TypeOK, ChunksOf
  <2> QED
    BY <2>1, Sizes DEF Limit
<1>3. IsFiniteSet(DOMAIN list) /\ Cardinality(DOMAIN list) = Limit
  BY <1>1, FS_Interval
<1>4. IsFiniteSet(own) /\ Cardinality(own) \in Nat /\ Cardinality(own) <= extra
  <2>1. IsFiniteSet(own) /\ Cardinality(own) \in Nat
    BY <1>3, FS_Subset, FS_CardinalityType
  <2>2. CASE mode # "similar"
    <3>1. own = {}
      BY <2>2 DEF Beginnings
    <3> HIDE DEF own
    <3> QED
      BY <2>1, <2>2, <3>1, FS_EmptySet
  <2>3. CASE mode = "similar"
    <3> DEFINE f == [i \in own |-> list[i]]
    <3>1. \A i \in own : list[i] \in ChunksOf(source)
      BY <1>1 DEF ChunksOf
    <3>2. \A i, j \in own : list[i] = list[j] => i = j
      BY <1>1 DEF IsInjective
    <3>3. ChunksOf(source) \subseteq Chunks
      BY DEF ChunksOf
    <3> HIDE DEF own
    <3>4. f \in Injection(own, ChunksOf(source))
      BY <3>1, <3>2 DEF Injection, IsInjective
    <3>5. IsFiniteSet(ChunksOf(source))
      BY <3>3, Sizes
    <3>6. Cardinality(own) <= Cardinality(ChunksOf(source))
      <4> HIDE DEF f
      <4> QED
        BY <3>4, <3>5, FS_Injection
    <3> QED
      BY <2>1, <2>3, <3>6
  <2> QED
    BY <2>1, <2>2, <2>3
<1>5. Cardinality(others) >= Breadth * topK /\ Cardinality(others) \in Nat /\ IsFiniteSet(others)
  <2>1. others = DOMAIN list \ own /\ DOMAIN list \cap own = own
    OBVIOUS
  <2> HIDE DEF own, others
  <2>2. IsFiniteSet(others) /\ Cardinality(others) = Cardinality(DOMAIN list) - Cardinality(own)
    <3>1. /\ IsFiniteSet(DOMAIN list \ own)
          /\ Cardinality(DOMAIN list \ own) = Cardinality(DOMAIN list) - Cardinality(DOMAIN list \cap own)
      BY <1>3, FS_Difference
    <3> QED
      BY <2>1, <3>1
  <2> HIDE DEF extra
  <2> QED
    BY <1>1, <1>2, <1>3, <1>4, <2>2, FS_CardinalityType
<1>6. named \subseteq DOMAIN best
  <2> SUFFICES ASSUME NEW i \in others, owner[list[i]] \in Memories
               PROVE  owner[list[i]] \in DOMAIN best
    OBVIOUS
  <2>1. list[i] \in Range(list)
    BY DEF Range
  <2>2. list[i] \in Looked
    BY <2>1 DEF Looked
  <2>3. owner[list[i]] \notin {Gone, source}
    BY OwnerAssumption
  <2> QED
    BY <2>2, <2>3 DEF Resolving
<1>7. /\ Cardinality(named) \in Nat /\ Cardinality(named) <= Cardinality(DOMAIN best)
      /\ Cardinality(DOMAIN best) \in Nat
  <2> HIDE DEF named
  <2> QED
    BY <1>6, FoundForm, FS_Subset
<1>8. Wasted(list) = Cardinality(others) - Cardinality(named)
  BY DEF Wasted
<1>9. (Breadth - 1) * topK = Breadth * topK - topK
  BY <1>2, SizeAssumption
<1> HIDE DEF others, named
<1> QED
  BY <1>2, <1>5, <1>7, <1>8, <1>9

\* By the invariant an answer is only short when places were wasted.
LEMMA ShortInvariant == RankInv => ShortAnswersAreWasted
<1> SUFFICES ASSUME RankInv, pc = "answered", untagged = {}, Len(answer) < topK
             PROVE  \/ \A c \in Range(near) \cup Range(matching) :
                         owner[c] \in Range(answer) \cup {Gone, source}
                    \/ Len(semantic) < Len(near) /\ Wasted(semantic) > (Breadth - 1) * topK
                    \/ Len(keyword) < Len(matching) /\ Wasted(keyword) > (Breadth - 1) * topK
  BY DEF ShortAnswersAreWasted, Answered
<1>1. /\ TypeOK /\ Resolving /\ Answering /\ Beginnings /\ topK \in Nat \ {0}
      /\ (Enough \/ left = {}) /\ IsInjective(near) /\ IsInjective(matching)
  BY SizeAssumption DEF RankInv, TypeOK
<1>2. PICK results \in Bijection(1 .. Cardinality(DOMAIN best), DOMAIN best) :
        answer = Cut(results, topK)
  <2>1. DOMAIN best \ untagged = DOMAIN best
    OBVIOUS
  <2> QED
    BY <1>1, <2>1 DEF Answering
<1>3. IsFiniteSet(DOMAIN best) /\ Cardinality(DOMAIN best) \in Nat
  BY <1>1, FoundForm
<1>4. /\ DOMAIN results = 1 .. Cardinality(DOMAIN best)
      /\ \A x \in DOMAIN best : \E j \in DOMAIN results : results[j] = x
      /\ Len(answer) = IF Cardinality(DOMAIN best) < topK THEN Cardinality(DOMAIN best) ELSE topK
      /\ DOMAIN answer = 1 .. Len(answer)
      /\ \A j \in DOMAIN answer : answer[j] = results[j]
  BY <1>1, <1>2, <1>3, ResultsForm
<1>5. Cardinality(DOMAIN best) < topK /\ DOMAIN best \subseteq Range(answer)
  <2>1. Cardinality(DOMAIN best) < topK
    BY <1>1, <1>3, <1>4
  <2>2. DOMAIN answer = DOMAIN results
    BY <1>4, <2>1
  <2> QED
    BY <1>4, <2>1, <2>2 DEF Range
<1>6. left = {}
  <2>1. Breadth * topK >= topK
    <3>1. 1 * topK <= Breadth * topK
      BY <1>1, SizeAssumption, TimesKeepsOrder
    <3> QED
      BY <1>1, <3>1
  <2>2. ~Enough
    BY <1>1, <1>3, <1>5, <2>1, Sizes DEF Enough
  <2> QED
    BY <1>1, <2>2
<1>7. /\ near \in Seq(Chunks) /\ matching \in Seq(Chunks) /\ Limit \in Nat
      /\ semantic = Cut(near, Limit) /\ keyword = Cut(matching, Limit)
  BY <1>1, ListsOfChunks DEF TypeOK
<1>8. /\ Len(semantic) < Len(near) \/ semantic = near
      /\ Len(keyword) < Len(matching) \/ keyword = matching
  BY <1>7, CutForm
<1>9. Range(semantic) \subseteq Hits /\ Range(keyword) \subseteq Hits
  BY DEF Hits
<1>10. CASE Len(semantic) < Len(near)
  BY <1>1, <1>5, <1>6, <1>7, <1>9, <1>10, WastedPlaces
<1>11. CASE Len(keyword) < Len(matching)
  BY <1>1, <1>5, <1>6, <1>7, <1>9, <1>11, WastedPlaces
<1>12. CASE semantic = near /\ keyword = matching
  <2> SUFFICES ASSUME NEW c \in Range(near) \cup Range(matching)
               PROVE  owner[c] \in Range(answer) \cup {Gone, source}
    OBVIOUS
  <2>1. c \in Hits
    BY <1>12 DEF Hits
  <2> QED
    BY <1>1, <1>5, <1>6, <2>1 DEF Resolving, Looked
<1> QED
  BY <1>8, <1>10, <1>11, <1>12

-----------------------------------------------------------------------------
\* At every point of a search no chunk was looked at before a better one, and what was
\* found is what the chunks that were looked at belong to (chunkScoresToMemoryScores).
THEOREM RankingInvariance == Spec => []RankInv
<1> QED
  BY RankingStart, RankingStep, PTL DEF Spec

\* The state of a request is always of its type: what is found has chunks among those that
\* were given, and an answer names no memory twice and none too many.
THEOREM RankingTypeCorrectness == Spec => []TypeOK
<1>1. RankInv => TypeOK
  BY DEF RankInv
<1> QED
  BY <1>1, RankingInvariance, PTL

\* For any chunks, owners, orders and sizes: where the two indexes agree the answer
\* follows them, whatever the constant of the fusion, the cuts and the filters (fuseRRF,
\* chunkScoresToMemoryScores and the sort in Search).
THEOREM Agreement == Spec => []AgreementIsKept
<1> QED
  BY AgreementInvariant, RankingInvariance, PTL

\* For any finite number of chunks: a memory that was hit and has the tags is only left out
\* of an answer for as many that are as good (the cuts in Search and Similar).
THEOREM Omissions == Spec => []OmissionsAreEarned
<1> QED
  BY OmissionInvariant, RankingInvariance, PTL

\* For any finite number of chunks: an answer is only shorter than asked for if it has
\* everything, or if more than Breadth - 1 places for each answer were wasted on chunks
\* that are gone or of memories that were there already (the limits given to the indexes).
THEOREM ShortAnswers == Spec => []ShortAnswersAreWasted
<1> QED
  BY ShortInvariant, RankingInvariance, PTL

-----------------------------------------------------------------------------
(* Pages of lists that change (Listings).                                  *)

\* The row that reading a file gives.
Row(n) == <<n, files[n]>>

\* What comes before n in the list, as the files are now.
Leading(c, n) ==
  {m \in Present : Matches(c, m) /\ Before(kind[c], Row(m), Row(n))}

\* The names that come before n in the list as it is being read: those that were read
\* and those that will be.
Coming(c, n) ==
  IF at[c] = "read" THEN {y[1] : y \in Ahead(c, Row(n))} \cup (todo[c] \cap Leading(c, n))
                    ELSE Leading(c, n)

\* What has been there all the while and that the client has not been given.
Unseen(c) == (steady[c] \cap Wanted(c)) \ seen[c]

\* What will not be given any more: the pages are already behind it.
Passed(c) == {n \in Unseen(c) : Cardinality(Coming(c, n)) < offset[c]}

\* Rows of files that are gone, or further back than when they were read.
Lost(c) ==
  {y \in rows[c] : files[y[1]] < y[2] /\ (files[y[1]] = Absent \/ kind[c] # "memories")}

\* Between requests nothing is left of them, and every file is read once.
Reading(c) ==
  /\ at[c] = "idle" => /\ rows[c] = {} /\ todo[c] = {} /\ seen[c] = {}
                       /\ steady[c] = {} /\ offset[c] = 0 /\ setbacks[c] = 0
  /\ at[c] = "list" => rows[c] = {} /\ todo[c] = {}
  /\ at[c] = "read" => \A n \in Unseen(c) : n \in todo[c] \/ Row(n) \in rows[c]
  /\ steady[c] \subseteq Present
  /\ \A y \in rows[c] : y[1] \notin todo[c] /\ y[2] \in stamps[y[1]] /\ Matches(c, y[1])
  /\ \A x, y \in rows[c] : x[1] = y[1] => x = y

\* What has been passed, and the rows that may let something pass, are as few as the
\* setbacks that they come of.
Sound(c) ==
  /\ Cardinality(Passed(c)) + Cardinality(Lost(c)) <= setbacks[c]
  /\ setbacks[c] + Cardinality(Names) <= clock

\* No two files ever have the same time.
TimesDiffer ==
  /\ \A n \in Names : /\ files[n] \in stamps[n] \cup {Absent}
                      /\ \A t \in stamps[n] : 0 < t /\ t <= clock
  /\ \A m, n \in Names : m # n => stamps[m] \cap stamps[n] = {}

\* The inductive invariant of paging.
ListingInv ==
  /\ LTypeOK /\ TimesDiffer
  /\ \A c \in Clients : Reading(c) /\ Sound(c)

\* Every name has a place in the directory.
LEMMA PlacesDiffer ==
  /\ \A n \in Names : Place(n) \in Nat /\ Place(n) \in DOMAIN Order /\ Order[Place(n)] = n
  /\ \A m, n \in Names : Place(m) = Place(n) => m = n
<1>1. PICK k \in Nat : DOMAIN Order = 1 .. k
  BY DirectoryAssumption
<1>2. ASSUME NEW n \in Names
      PROVE  Place(n) \in Nat /\ Place(n) \in DOMAIN Order /\ Order[Place(n)] = n
  <2>1. PICK i \in DOMAIN Order : Order[i] = n
    BY DEF Names, Range
  <2>2. Place(n) \in DOMAIN Order /\ Order[Place(n)] = n
    BY <2>1 DEF Place
  <2> QED
    BY <1>1, <2>2
<1>3. \A m, n \in Names : Place(m) = Place(n) => m = n
  BY <1>2
<1> QED
  BY <1>2, <1>3

\* There are finitely many names, each with one place.
LEMMA NamesAreFinite == IsFiniteSet(Names) /\ Cardinality(Names) \in Nat
<1>1. PICK k \in Nat : DOMAIN Order = 1 .. k
  BY DirectoryAssumption
<1>2. Order \in Surjection(1 .. k, Names)
  BY <1>1, DirectoryAssumption DEF Surjection, Names, Range
<1>3. IsFiniteSet(1 .. k)
  BY FS_Interval
<1> QED
  BY <1>2, <1>3, FS_Surjection, FS_CardinalityType

\* Some element of a set that is not empty has the least of their numbers.
LEMMA SomeIsLeast ==
  ASSUME NEW S, S # {}, NEW f, \A x \in S : f[x] \in Nat
  PROVE  \E x \in S : \A y \in S : f[x] <= f[y]
<1> DEFINE T == {f[x] : x \in S}
<1>1. T \subseteq Nat /\ T # {}
  OBVIOUS
<1>2. PICK i \in T : \A j \in T : ~ (<<j, i>> \in OpToRel(<, Nat))
  <2> HIDE DEF T
  <2> QED
    BY <1>1, NatLessThanWellFounded, WFMin, Zenon
<1>3. \A j \in T : ~ (j < i)
  <2> HIDE DEF T
  <2> QED
    BY <1>1, <1>2, Zenon DEF OpToRel
<1>4. PICK x \in S : i = f[x]
  OBVIOUS
<1>5. ASSUME NEW y \in S PROVE f[x] <= f[y]
  BY <1>3, <1>4
<1> QED
  BY <1>5

\* The first name of a set is in it.
LEMMA FirstIsThere ==
  ASSUME NEW S \in SUBSET Names, S # {}
  PROVE  First(S) \in S
<1> DEFINE f == [n \in S |-> Place(n)]
<1>1. \A n \in S : f[n] \in Nat
  BY PlacesDiffer
<1>2. PICK n \in S : \A m \in S : f[n] <= f[m]
  <2> HIDE DEF f
  <2> QED
    BY <1>1, SomeIsLeast
<1>3. \A m \in S : Place(n) <= Place(m)
  BY <1>2
<1> QED
  BY <1>3 DEF First

\* Rows are in a strict order, in which different files have different places.
LEMMA RowsInOrder ==
  ASSUME NEW k
  PROVE  \A x, y, z \in Names \X Nat :
           /\ ~Before(k, x, x)
           /\ Before(k, x, y) /\ Before(k, y, z) => Before(k, x, z)
           /\ x[1] # y[1] /\ x[2] # y[2] => Before(k, x, y) \/ Before(k, y, x)
<1> SUFFICES ASSUME NEW x \in Names \X Nat, NEW y \in Names \X Nat, NEW z \in Names \X Nat
             PROVE  /\ ~Before(k, x, x)
                    /\ Before(k, x, y) /\ Before(k, y, z) => Before(k, x, z)
                    /\ x[1] # y[1] /\ x[2] # y[2] => Before(k, x, y) \/ Before(k, y, x)
  OBVIOUS
<1>1. /\ Place(x[1]) \in Nat /\ Place(y[1]) \in Nat /\ Place(z[1]) \in Nat
      /\ x[1] # y[1] => Place(x[1]) # Place(y[1])
  BY PlacesDiffer
<1> QED
  BY <1>1 DEF Before

\* What the invariant says of types, for the steps.
LEMMA Basics ==
  ASSUME ListingInv
  PROVE  /\ Cardinality(Names) \in Nat /\ MaxWrites \in Nat /\ PageSize \in Nat
         /\ PageSize > 0 /\ Present \subseteq Names /\ clock \in Nat
         /\ files \in [Names -> Nat] /\ stamps \in [Names -> SUBSET Nat]
         /\ \A c \in Clients : /\ rows[c] \subseteq Names \X (Nat \ {0})
                               /\ offset[c] \in Nat /\ setbacks[c] \in Nat
                               /\ Unseen(c) \subseteq Names /\ Unseen(c) \subseteq Present
         /\ \A n \in Names : Row(n) \in Names \X Nat
<1>1. Cardinality(Names) \in Nat /\ MaxWrites \in Nat /\ PageSize \in Nat /\ PageSize > 0
  BY NamesAreFinite, PageAssumption
<1>2. /\ files \in [Names -> Nat] /\ stamps \in [Names -> SUBSET Nat]
      /\ Present \subseteq Names /\ clock \in Nat
  BY <1>1 DEF ListingInv, LTypeOK, Present
<1>3. ASSUME NEW c \in Clients
      PROVE  /\ rows[c] \subseteq Names \X (Nat \ {0}) /\ offset[c] \in Nat
             /\ setbacks[c] \in Nat /\ Unseen(c) \subseteq Names /\ Unseen(c) \subseteq Present
  <2>1. rows[c] \subseteq Names \X (Nat \ {0}) /\ offset[c] \in Nat /\ setbacks[c] \in Nat
    BY <1>1 DEF ListingInv, LTypeOK, Absent
  <2>2. Unseen(c) \subseteq Present
    BY DEF Unseen, ListingInv, Reading
  <2> QED
    BY <1>2, <2>1, <2>2
<1>4. \A n \in Names : Row(n) \in Names \X Nat
  BY <1>2 DEF Row
<1> QED
  BY <1>1, <1>2, <1>3, <1>4

\* What is passed and what is lost are finitely many.
LEMMA FewRows ==
  ASSUME ListingInv, NEW c \in Clients
  PROVE  /\ IsFiniteSet(rows[c]) /\ Cardinality(rows[c]) \in Nat
         /\ Cardinality(rows[c]) <= Cardinality(Names)
         /\ IsFiniteSet(Lost(c)) /\ Cardinality(Lost(c)) \in Nat
         /\ IsFiniteSet(Passed(c)) /\ Cardinality(Passed(c)) \in Nat
<1> DEFINE f == [y \in rows[c] |-> y[1]]
<1>1. f \in Injection(rows[c], Names)
  BY Basics DEF ListingInv, Reading, Injection, IsInjective
<1>2. /\ IsFiniteSet(rows[c]) /\ Cardinality(rows[c]) \in Nat
      /\ Cardinality(rows[c]) <= Cardinality(Names)
  BY <1>1, NamesAreFinite, FS_Injection, FS_CardinalityType
<1>3. Lost(c) \subseteq rows[c] /\ Passed(c) \subseteq Names
  BY Basics DEF Lost, Passed
<1> QED
  BY <1>2, <1>3, NamesAreFinite, FS_Subset, FS_CardinalityType

\* What comes before a name is finitely much.
LEMMA ComingIsFinite ==
  ASSUME ListingInv, NEW c \in Clients, NEW n
  PROVE  /\ Leading(c, n) \subseteq Names /\ Coming(c, n) \subseteq Names
         /\ IsFiniteSet(Leading(c, n)) /\ Cardinality(Leading(c, n)) \in Nat
         /\ IsFiniteSet(Coming(c, n)) /\ Cardinality(Coming(c, n)) \in Nat
<1>1. Leading(c, n) \subseteq Names
  BY Basics DEF Leading
<1>2. Coming(c, n) \subseteq Names
  BY <1>1, Basics DEF Coming, Ahead
<1> QED
  BY <1>1, <1>2, NamesAreFinite, FS_Subset, FS_CardinalityType

\* A page that begins beyond the end is empty.
LEMMA OffsetIsBounded ==
  ASSUME ListingInv, NEW c \in Clients, Page(c) # {}
  PROVE  offset[c] < Cardinality(Names)
<1>1. PICK x \in rows[c] : Cardinality(Ahead(c, x)) >= offset[c]
  <2>1. PICK x \in rows[c] : Cardinality(Ahead(c, x)) \in offset[c] .. offset[c] + PageSize - 1
    BY DEF Page, Slice
  <2> QED
    BY <2>1, Basics
<1>2. x \notin Ahead(c, x) /\ Ahead(c, x) \subseteq rows[c]
  BY RowsInOrder, Basics DEF Ahead
<1>3. /\ IsFiniteSet(rows[c]) /\ Cardinality(rows[c]) \in Nat
      /\ Cardinality(rows[c]) <= Cardinality(Names)
  BY FewRows
<1>4. IsFiniteSet(rows[c] \ {x}) /\ Cardinality(rows[c] \ {x}) = Cardinality(rows[c]) - 1
  BY <1>3, FS_RemoveElement
<1>5. Cardinality(Ahead(c, x)) <= Cardinality(rows[c] \ {x}) /\ Cardinality(Ahead(c, x)) \in Nat
  BY <1>2, <1>4, FS_Subset, FS_CardinalityType
<1> QED
  BY <1>1, <1>3, <1>4, <1>5, Basics

\* Of two names not given yet one comes before the other, and so does what comes before it.
LEMMA UnseenInLine ==
  ASSUME ListingInv, NEW c \in Clients, NEW m \in Unseen(c), NEW n \in Unseen(c), m # n
  PROVE  /\ m \notin Coming(c, m)
         /\ Before(kind[c], Row(m), Row(n)) \/ Before(kind[c], Row(n), Row(m))
         /\ Before(kind[c], Row(m), Row(n)) => Coming(c, m) \cup {m} \subseteq Coming(c, n)
<1>1. /\ m \in Names /\ n \in Names /\ m \in Present /\ n \in Present
      /\ Row(m) \in Names \X Nat /\ Row(n) \in Names \X Nat
      /\ Row(m)[1] = m /\ Row(n)[1] = n
  BY Basics DEF Row
<1>2. files[m] # files[n]
  BY <1>1 DEF Present, ListingInv, TimesDiffer
<1>3. Matches(c, m)
  BY <1>1 DEF Unseen, Wanted, Matches, Kinds, ListingInv, LTypeOK
<1>4. ~Before(kind[c], Row(m), Row(m))
  BY <1>1, RowsInOrder
<1>5. Before(kind[c], Row(m), Row(n)) \/ Before(kind[c], Row(n), Row(m))
  <2>1. Row(m)[2] # Row(n)[2]
    BY <1>2 DEF Row
  <2> QED
    BY <1>1, <2>1, RowsInOrder
<1>6. at[c] \in {"list", "read"}
  BY DEF ListingInv, Reading, LTypeOK, Unseen
<1>7. at[c] = "read" => m \in todo[c] \/ Row(m) \in rows[c]
  BY DEF ListingInv, Reading
<1>8. \A y \in rows[c] : y \in Names \X Nat /\ y[1] \notin todo[c]
  BY Basics DEF ListingInv, Reading
<1>9. m \notin Coming(c, m)
  <2>1. m \notin Leading(c, m)
    BY <1>4 DEF Leading
  <2>2. ASSUME NEW y \in Ahead(c, Row(m)), y[1] = m, at[c] = "read" PROVE FALSE
    <3>1. y \in rows[c] /\ Before(kind[c], y, Row(m))
      BY DEF Ahead
    <3>2. Row(m) \in rows[c]
      BY <1>7, <1>8, <2>2, <3>1
    <3>3. y = Row(m)
      BY <1>1, <2>2, <3>1, <3>2 DEF ListingInv, Reading
    <3> QED
      BY <1>4, <3>1, <3>3
  <2> QED
    BY <2>1, <2>2 DEF Coming
<1>10. ASSUME Before(kind[c], Row(m), Row(n)) PROVE Coming(c, m) \cup {m} \subseteq Coming(c, n)
  <2>1. Leading(c, m) \subseteq Leading(c, n)
    <3> SUFFICES ASSUME NEW l \in Leading(c, m) PROVE l \in Leading(c, n)
      OBVIOUS
    <3>1. l \in Present /\ Matches(c, l) /\ Before(kind[c], Row(l), Row(m))
      BY DEF Leading
    <3>2. Row(l) \in Names \X Nat
      BY <3>1, Basics
    <3>3. Before(kind[c], Row(l), Row(n))
      BY <1>1, <1>10, <3>1, <3>2, RowsInOrder
    <3> QED
      BY <3>1, <3>3 DEF Leading
  <2>2. m \in Leading(c, n)
    BY <1>1, <1>3, <1>10 DEF Leading
  <2>3. Ahead(c, Row(m)) \subseteq Ahead(c, Row(n))
    <3> SUFFICES ASSUME NEW y \in Ahead(c, Row(m)) PROVE y \in Ahead(c, Row(n))
      OBVIOUS
    <3>1. y \in rows[c] /\ Before(kind[c], y, Row(m)) /\ y \in Names \X Nat
      BY <1>8 DEF Ahead
    <3>2. Before(kind[c], y, Row(n))
      BY <1>1, <1>10, <3>1, RowsInOrder
    <3> QED
      BY <3>1, <3>2 DEF Ahead
  <2>4. ASSUME Row(m) \in rows[c] PROVE m \in {y[1] : y \in Ahead(c, Row(n))}
    BY <1>1, <1>10, <2>4 DEF Ahead
  <2>5. {y[1] : y \in Ahead(c, Row(m))} \subseteq {y[1] : y \in Ahead(c, Row(n))}
    BY <2>3
  <2> HIDE DEF Row
  <2> QED
    BY <1>7, <2>1, <2>2, <2>4, <2>5 DEF Coming
<1> QED
  BY <1>5, <1>9, <1>10

\* The number of names before one that is not given yet is no other's.
LEMMA PlacesOfUnseen ==
  ASSUME ListingInv, NEW c \in Clients, NEW m \in Unseen(c), NEW n \in Unseen(c), m # n
  PROVE  /\ Cardinality(Coming(c, m)) # Cardinality(Coming(c, n))
         /\ Before(kind[c], Row(m), Row(n)) =>
              Cardinality(Coming(c, m)) < Cardinality(Coming(c, n))
<1>1. ASSUME NEW a \in Unseen(c), NEW b \in Unseen(c), a # b,
             Before(kind[c], Row(a), Row(b))
      PROVE  Cardinality(Coming(c, a)) < Cardinality(Coming(c, b))
  <2>1. a \notin Coming(c, a) /\ Coming(c, a) \cup {a} \subseteq Coming(c, b)
    BY <1>1, UnseenInLine
  <2>2. /\ IsFiniteSet(Coming(c, a)) /\ Cardinality(Coming(c, a)) \in Nat
        /\ IsFiniteSet(Coming(c, b)) /\ Cardinality(Coming(c, b)) \in Nat
    BY ComingIsFinite
  <2>3. Cardinality(Coming(c, a) \cup {a}) = Cardinality(Coming(c, a)) + 1
    BY <2>1, <2>2, FS_AddElement
  <2>4. Cardinality(Coming(c, a) \cup {a}) <= Cardinality(Coming(c, b))
    BY <2>1, <2>2, FS_Subset
  <2> QED
    BY <2>2, <2>3, <2>4
<1>2. Before(kind[c], Row(m), Row(n)) \/ Before(kind[c], Row(n), Row(m))
  BY UnseenInLine
<1>3. Cardinality(Coming(c, m)) \in Nat /\ Cardinality(Coming(c, n)) \in Nat
  BY ComingIsFinite
<1> QED
  BY <1>1, <1>2, <1>3

\* A set with at most one element more is at most one larger.
LEMMA OneMore ==
  ASSUME NEW S, NEW T, NEW U, IsFiniteSet(S), T \subseteq S \cup U, \A x, y \in U : x = y
  PROVE  IsFiniteSet(T) /\ Cardinality(T) \in Nat /\ Cardinality(T) <= Cardinality(S) + 1
<1>1. Cardinality(S) \in Nat
  BY FS_CardinalityType
<1>2. CASE T \subseteq S
  BY <1>1, <1>2, FS_Subset, FS_CardinalityType
<1>3. CASE ~(T \subseteq S)
  <2>1. PICK x \in T : x \in U
    BY <1>3
  <2>2. T \subseteq S \cup {x}
    BY <2>1
  <2>3. /\ IsFiniteSet(S \cup {x})
        /\ Cardinality(S \cup {x}) = IF x \in S THEN Cardinality(S) ELSE Cardinality(S) + 1
    BY FS_AddElement
  <2>4. IsFiniteSet(T) /\ Cardinality(T) <= Cardinality(S \cup {x})
    BY <2>2, <2>3, FS_Subset
  <2> QED
    BY <1>1, <2>3, <2>4, FS_CardinalityType
<1> QED
  BY <1>2, <1>3

\* Requests of other clients are none of c's concern, and taking a time is no write.
LEMMA OthersFrame ==
  ASSUME ListingInv, NEW c \in Clients,
         files' = files, clock' \in Nat, clock <= clock', setbacks'[c] = setbacks[c],
         \A n \in Names : stamps[n] \subseteq stamps'[n],
         at'[c] = at[c], kind'[c] = kind[c], offset'[c] = offset[c], todo'[c] = todo[c],
         rows'[c] = rows[c], seen'[c] = seen[c], steady'[c] = steady[c]
  PROVE  Reading(c)' /\ Sound(c)'
<1>1. Present' = Present /\ (\A n : Matches(c, n)' = Matches(c, n)) /\ \A n : Row(n)' = Row(n)
  BY DEF Present, Matches, Row
<1>2. Unseen(c)' = Unseen(c) /\ Lost(c)' = Lost(c)
  BY DEF Unseen, Wanted, Lost
<1>3. \A n : Leading(c, n)' = Leading(c, n) /\ Ahead(c, Row(n))' = Ahead(c, Row(n))
  BY <1>1 DEF Leading, Ahead
<1>4. \A n : Coming(c, n)' = Coming(c, n)
  BY <1>3 DEF Coming
<1>5. Reading(c)'
  <2>1. \A y \in rows[c] : y[1] \in Names
    BY Basics
  <2> QED
    BY <1>1, <1>2, <2>1 DEF ListingInv, Reading
<1>6. Passed(c)' = Passed(c)
  BY <1>2, <1>4 DEF Passed
<1>7. Sound(c)'
  BY <1>2, <1>6, Basics DEF ListingInv, Sound
<1> QED
  BY <1>5, <1>7

\* Nothing is asked for yet.
LEMMA ListingsStart == LInit => ListingInv
<1> SUFFICES ASSUME LInit PROVE ListingInv
  OBVIOUS
<1>1. Cardinality(Names) \in Nat /\ MaxWrites \in Nat
  BY NamesAreFinite, PageAssumption
<1>2. \A n \in Names : files[n] \in 0 .. Cardinality(Names) /\ files[n] \in {0, Place(n)}
  BY <1>1 DEF LInit, Absent
<1>3. LTypeOK
  <2>1. stamps \in [Names -> SUBSET (0 .. Cardinality(Names) + MaxWrites)]
    BY <1>1, <1>2 DEF LInit
  <2> QED
    BY <1>1, <1>2, <2>1, PageAssumption DEF LInit, LTypeOK, Kinds
<1>4. TimesDiffer
  <2>1. \A n \in Names : stamps[n] = {files[n]} \ {Absent}
    BY DEF LInit
  <2>2. \A m, n \in Names : m # n => files[m] = 0 \/ files[m] # files[n]
    BY <1>2, PlacesDiffer
  <2> QED
    BY <1>1, <1>2, <2>1, <2>2 DEF LInit, TimesDiffer, Absent
<1>5. ASSUME NEW c \in Clients PROVE Reading(c) /\ Sound(c)
  <2>1. Passed(c) = {} /\ Lost(c) = {}
    BY DEF LInit, Passed, Unseen, Lost
  <2> QED
    BY <1>1, <2>1, FS_EmptySet DEF LInit, Reading, Sound
<1> QED
  BY <1>3, <1>4, <1>5 DEF ListingInv

\* Taking a time changes no list.
LEMMA StampStep ==
  ASSUME ListingInv, NEW m \in Names, Stamp(m)
  PROVE  ListingInv'
<1>1. /\ clock < Cardinality(Names) + MaxWrites /\ clock' = clock + 1
      /\ stamps' = [stamps EXCEPT ![m] = @ \cup {clock + 1}]
      /\ UNCHANGED <<files, at, kind, offset, todo, rows, seen, steady, setbacks>>
  BY DEF Stamp, Tick, request
<1>2. LTypeOK'
  BY <1>1, Basics DEF ListingInv, LTypeOK
<1>3. TimesDiffer'
  BY <1>1, Basics DEF ListingInv, TimesDiffer
<1>4. \A c \in Clients : Reading(c)' /\ Sound(c)'
  BY <1>1, OthersFrame, Basics
<1> QED
  BY <1>2, <1>3, <1>4 DEF ListingInv

\* What comes before n, when m changes, except for m; and m itself, unless that goes back.
LEMMA ComingAfterChange ==
  ASSUME ListingInv, NEW c \in Clients, NEW m \in Names, NEW t \in Nat, Change(m, t),
         NEW n \in Unseen(c) \ {m}
  PROVE  /\ Row(n)' = Row(n)
         /\ Coming(c, n) \ {m} \subseteq Coming(c, n)'
         /\ c \notin SetBack(m, t) \/ (at[c] = "read" /\ m \notin todo[c])
              => Coming(c, n) \subseteq Coming(c, n)'
<1>1. /\ files' = [files EXCEPT ![m] = t]
      /\ UNCHANGED <<at, kind, offset, todo, rows, seen>>
  BY DEF Change, request
<1>2. n \in Names /\ \A l \in Names \ {m} : files'[l] = files[l] /\ Row(l)' = Row(l)
  BY <1>1, Basics DEF Row
<1>3. \A l : Matches(c, l)' = Matches(c, l)
  BY <1>1 DEF Matches
<1>4. Leading(c, n) \ {m} \subseteq Leading(c, n)'
  <2> SUFFICES ASSUME NEW l \in Leading(c, n) \ {m} PROVE l \in Leading(c, n)'
    OBVIOUS
  <2>1. l \in Present /\ Matches(c, l) /\ Before(kind[c], Row(l), Row(n)) /\ l \in Names \ {m}
    BY Basics DEF Leading
  <2>2. l \in Present'
    BY <1>2, <2>1 DEF Present
  <2>3. Before(kind[c], Row(l), Row(n))'
    BY <1>1, <1>2, <2>1 DEF Before, Place
  <2> QED
    BY <1>3, <2>1, <2>2, <2>3 DEF Leading
<1>5. Ahead(c, Row(n))' = Ahead(c, Row(n))
  BY <1>1, <1>2 DEF Ahead
<1>6. Coming(c, n) \ {m} \subseteq Coming(c, n)'
  BY <1>1, <1>4, <1>5 DEF Coming
<1>7. ASSUME c \notin SetBack(m, t), m \in Leading(c, n) PROVE m \in Leading(c, n)'
  <2>1. m \in Present /\ Matches(c, m) /\ Before(kind[c], Row(m), Row(n))
    BY <1>7 DEF Leading
  <2>2. at[c] # "idle"
    BY DEF ListingInv, Reading, Unseen
  <2>3. files[m] <= t \/ (t # Absent /\ kind[c] = "memories")
    BY <1>7, <2>1, <2>2, Basics DEF SetBack
  <2>4. files'[m] = t /\ files[m] \in Nat /\ files[n] \in Nat /\ files[m] # Absent
    BY <1>1, <1>2, <2>1, Basics DEF Present
  <2>5. m \in Present'
    BY <2>3, <2>4 DEF Present, Absent
  <2>6. Before(kind[c], Row(m), Row(n))'
    <3>1. Row(m)[1] = m /\ Row(m)'[1] = m /\ Row(m)[2] = files[m] /\ Row(m)'[2] = t
      BY <2>4 DEF Row
    <3>2. Row(n)[2] = files[n] /\ Row(n)' = Row(n) /\ kind'[c] = kind[c]
      BY <1>1, <1>2 DEF Row
    <3> QED
      BY <2>1, <2>3, <2>4, <3>1, <3>2 DEF Before, Place
  <2> QED
    BY <1>3, <2>1, <2>5, <2>6 DEF Leading
<1>8. c \notin SetBack(m, t) => Coming(c, n) \subseteq Coming(c, n)'
  BY <1>1, <1>4, <1>5, <1>7 DEF Coming
<1>9. at[c] = "read" /\ m \notin todo[c] => Coming(c, n) \subseteq Coming(c, n)'
  BY <1>1, <1>4, <1>5 DEF Coming
<1> QED
  BY <1>2, <1>6, <1>8, <1>9

\* Of a change that is no setback nothing is lost; of one that is, at most a row.
LEMMA LostAfterChange ==
  ASSUME ListingInv, NEW c \in Clients, NEW m \in Names, NEW t \in Nat, Change(m, t)
  PROVE  /\ Lost(c)' \subseteq Lost(c) \cup {y \in rows[c] : y[1] = m}
         /\ c \notin SetBack(m, t) => Lost(c)' \subseteq Lost(c)
<1>1. /\ files' = [files EXCEPT ![m] = t]
      /\ UNCHANGED <<at, kind, offset, todo, rows, seen>>
  BY DEF Change, request
<1>2. \A y \in rows[c] : /\ y[1] \in Names /\ y[2] \in Nat /\ y[2] > 0 /\ files[y[1]] \in Nat
                         /\ files'[y[1]] = IF y[1] = m THEN t ELSE files[y[1]]
  BY <1>1, Basics
<1>3. Lost(c)' \subseteq Lost(c) \cup {y \in rows[c] : y[1] = m}
  BY <1>1, <1>2 DEF Lost
<1>4. ASSUME c \notin SetBack(m, t), NEW y \in Lost(c)', y[1] = m PROVE y \in Lost(c)
  <2>1. y \in rows[c] /\ t < y[2] /\ (t = Absent \/ kind[c] # "memories")
    BY <1>1, <1>2, <1>4 DEF Lost
  <2>2. at[c] # "idle" /\ Matches(c, m)
    BY <1>4, <2>1 DEF ListingInv, Reading
  <2>3. ~(t < files[m])
    BY <1>4, <2>1, <2>2 DEF SetBack
  <2>4. files[m] < y[2] /\ (files[m] = Absent \/ kind[c] # "memories")
    BY <1>2, <1>4, <2>1, <2>3 DEF Absent
  <2> QED
    BY <1>4, <2>1, <2>4 DEF Lost
<1> QED
  BY <1>3, <1>4

\* A change costs a client as much as it sets something back in its list.
LEMMA SoundAfterChange ==
  ASSUME ListingInv, NEW c \in Clients, NEW m \in Names, NEW t \in Nat, Change(m, t)
  PROVE  Sound(c)'
<1> DEFINE back == IF c \in SetBack(m, t) THEN 1 ELSE 0
<1>1. /\ clock' = clock + 1 /\ steady' = [d \in Clients |-> steady[d] \ {m}]
      /\ setbacks'[c] = setbacks[c] + back
      /\ UNCHANGED <<at, kind, offset, todo, rows, seen>>
  BY DEF Change, Tick, request
<1>2. /\ Cardinality(Passed(c)) + Cardinality(Lost(c)) <= setbacks[c]
      /\ setbacks[c] + Cardinality(Names) <= clock
  BY DEF ListingInv, Sound
<1>3. /\ IsFiniteSet(Passed(c)) /\ Cardinality(Passed(c)) \in Nat
      /\ IsFiniteSet(Lost(c)) /\ Cardinality(Lost(c)) \in Nat
  BY FewRows
<1>4. Unseen(c)' = Unseen(c) \ {m}
  BY <1>1 DEF Unseen, Wanted
<1>5. ASSUME NEW n \in Unseen(c)'
      PROVE  /\ n \in Unseen(c) \ {m}
             /\ Cardinality(Coming(c, n)) \in Nat /\ Cardinality(Coming(c, n)') \in Nat
             /\ Cardinality(Coming(c, n)) <= Cardinality(Coming(c, n)') + 1
             /\ Coming(c, n) \subseteq Coming(c, n)' =>
                  Cardinality(Coming(c, n)) <= Cardinality(Coming(c, n)')
  <2>1. n \in Unseen(c) \ {m} /\ Coming(c, n) \ {m} \subseteq Coming(c, n)'
    BY <1>4, <1>5, ComingAfterChange
  <2>2. IsFiniteSet(Coming(c, n)) /\ Cardinality(Coming(c, n)) \in Nat
    BY ComingIsFinite
  <2>3. IsFiniteSet(Coming(c, n)')
    <3>1. Coming(c, n)' \subseteq Names
      BY <1>1, Basics DEF Coming, Ahead, Leading, Present
    <3> QED
      BY <3>1, NamesAreFinite, FS_Subset
  <2>4. Cardinality(Coming(c, n)') \in Nat
    BY <2>3, FS_CardinalityType
  <2>5. Cardinality(Coming(c, n)) <= Cardinality(Coming(c, n)') + 1
    BY <2>1, <2>3, OneMore, \A x, y \in {m} : x = y, Coming(c, n) \subseteq Coming(c, n)' \cup {m}
  <2>6. Coming(c, n) \subseteq Coming(c, n)' => Cardinality(Coming(c, n)) <= Cardinality(Coming(c, n)')
    BY <2>3, FS_Subset
  <2> QED
    BY <2>1, <2>2, <2>4, <2>5, <2>6
<1>6. offset[c] \in Nat /\ setbacks[c] \in Nat /\ offset'[c] = offset[c]
  BY <1>1, Basics
<1>7. CASE c \notin SetBack(m, t) \/ (at[c] = "read" /\ m \notin todo[c])
  <2>1. Passed(c)' \subseteq Passed(c)
    <3> SUFFICES ASSUME NEW n \in Passed(c)' PROVE n \in Passed(c)
      OBVIOUS
    <3>1. n \in Unseen(c)' /\ Cardinality(Coming(c, n)') < offset[c]
      BY <1>6 DEF Passed
    <3>2. Coming(c, n) \subseteq Coming(c, n)'
      BY <1>5, <1>7, <3>1, ComingAfterChange
    <3> QED
      BY <1>5, <1>6, <3>1, <3>2 DEF Passed
  <2>2. Cardinality(Passed(c)') <= Cardinality(Passed(c)) /\ Cardinality(Passed(c)') \in Nat
    BY <1>3, <2>1, FS_Subset, FS_CardinalityType
  <2>3. Cardinality(Lost(c)') <= Cardinality(Lost(c)) + back /\ Cardinality(Lost(c)') \in Nat
    <3>1. CASE c \notin SetBack(m, t)
      <4>1. Lost(c)' \subseteq Lost(c)
        BY <3>1, LostAfterChange
      <4> QED
        BY <1>3, <3>1, <4>1, FS_Subset, FS_CardinalityType
    <3>2. CASE c \in SetBack(m, t)
      <4>1. \A x, y \in {y \in rows[c] : y[1] = m} : x = y
        BY DEF ListingInv, Reading
      <4>2. Lost(c)' \subseteq Lost(c) \cup {y \in rows[c] : y[1] = m}
        BY LostAfterChange
      <4> QED
        BY <1>3, <3>2, <4>1, <4>2, OneMore
    <3> QED
      BY <3>1, <3>2
  <2> QED
    BY <1>1, <1>2, <1>3, <1>6, <2>2, <2>3, Basics DEF Sound
<1>8. CASE c \in SetBack(m, t) /\ ~(at[c] = "read" /\ m \notin todo[c])
  <2> DEFINE next == {n \in Unseen(c) : Cardinality(Coming(c, n)) = offset[c]}
  <2>1. Lost(c)' \subseteq Lost(c)
    <3>1. \A y \in rows[c] : y[1] # m
      BY <1>8 DEF SetBack, ListingInv, LTypeOK, Reading
    <3> QED
      BY <3>1, LostAfterChange
  <2>2. Cardinality(Lost(c)') <= Cardinality(Lost(c)) /\ Cardinality(Lost(c)') \in Nat
    BY <1>3, <2>1, FS_Subset, FS_CardinalityType
  <2>3. \A x, y \in next : x = y
    BY PlacesOfUnseen
  <2>4. Passed(c)' \subseteq Passed(c) \cup next
    <3> SUFFICES ASSUME NEW n \in Passed(c)' PROVE n \in Passed(c) \cup next
      OBVIOUS
    <3>1. n \in Unseen(c)' /\ Cardinality(Coming(c, n)') < offset[c]
      BY <1>6 DEF Passed
    <3>2. n \in Unseen(c) /\ Cardinality(Coming(c, n)) <= offset[c]
      BY <1>5, <1>6, <3>1
    <3> QED
      BY <1>5, <1>6, <3>1, <3>2 DEF Passed
  <2>5. Cardinality(Passed(c)') <= Cardinality(Passed(c)) + 1 /\ Cardinality(Passed(c)') \in Nat
    <3> HIDE DEF next
    <3> QED
      BY <1>3, <2>3, <2>4, OneMore
  <2> QED
    BY <1>1, <1>2, <1>3, <1>6, <1>8, <2>2, <2>5, Basics DEF Sound
<1> QED
  BY <1>7, <1>8

\* A file that changes is no longer one that has been there unchanged.
LEMMA ChangeStep ==
  ASSUME ListingInv, NEW m \in Names, NEW t \in Nat, Change(m, t),
         stamps' = [stamps EXCEPT ![m] = @ \cup ({t} \ {Absent})],
         t \in stamps[m] \cup {Absent, clock + 1}
  PROVE  ListingInv'
<1>1. /\ clock < Cardinality(Names) + MaxWrites /\ clock' = clock + 1
      /\ files' = [files EXCEPT ![m] = t]
      /\ steady' = [c \in Clients |-> steady[c] \ {m}]
      /\ setbacks' = [c \in Clients |-> setbacks[c] + IF c \in SetBack(m, t) THEN 1 ELSE 0]
      /\ UNCHANGED <<at, kind, offset, todo, rows, seen>>
  BY DEF Change, Tick, request
<1>2. TimesDiffer'
  <2>1. \A n \in Names : stamps'[n] = IF n = m THEN stamps[m] \cup ({t} \ {Absent}) ELSE stamps[n]
    BY Basics
  <2>2. \A n \in Names : files'[n] = IF n = m THEN t ELSE files[n]
    BY <1>1, Basics
  <2>3. t \in stamps'[m] \cup {Absent}
    BY <2>1
  <2>4. \A n \in Names : clock + 1 \notin stamps[n]
    BY Basics DEF ListingInv, TimesDiffer
  <2> QED
    BY <1>1, <2>1, <2>2, <2>3, <2>4, Basics DEF ListingInv, TimesDiffer, Absent
<1>3. \A c \in Clients : Sound(c)'
  BY SoundAfterChange
<1>4. LTypeOK'
  <2>1. t \in 0 .. Cardinality(Names) + MaxWrites /\ clock' \in 0 .. Cardinality(Names) + MaxWrites
    BY <1>1, Basics DEF ListingInv, TimesDiffer, Absent
  <2>2. setbacks' \in [Clients -> 0 .. MaxWrites]
    <3>1. \A c \in Clients : setbacks'[c] + Cardinality(Names) <= clock'
      BY <1>3 DEF Sound
    <3>2. \A c \in Clients : setbacks[c] + (IF c \in SetBack(m, t) THEN 1 ELSE 0) \in Nat
      BY Basics
    <3>3. \A c \in Clients : setbacks'[c] \in Nat
      BY <1>1, <3>2
    <3>4. \A c \in Clients : setbacks'[c] <= MaxWrites
      BY <1>1, <3>1, <3>3, Basics
    <3> QED
      BY <1>1, <3>3, <3>4, Basics
  <2> QED
    BY <1>1, <2>1, <2>2, Basics DEF ListingInv, LTypeOK
<1>5. ASSUME NEW c \in Clients PROVE Reading(c)'
  <2>1. Unseen(c)' = Unseen(c) \ {m}
    BY <1>1 DEF Unseen, Wanted
  <2>2. \A n \in Names \ {m} : Row(n)' = Row(n) /\ (n \in Present => n \in Present')
    BY <1>1, Basics DEF Row, Present
  <2>3. steady'[c] \subseteq Present'
    BY <1>1, <2>2, Basics DEF ListingInv, Reading
  <2>4. at'[c] = "read" => \A n \in Unseen(c)' : n \in todo'[c] \/ Row(n)' \in rows'[c]
    BY <1>1, <2>1, <2>2, Basics DEF ListingInv, Reading
  <2>5. \A y \in rows[c] : y[2] \in stamps'[y[1]]
    BY Basics DEF ListingInv, Reading
  <2>6. at[c] = "idle" => setbacks'[c] = 0
    BY <1>1 DEF SetBack, ListingInv, Reading
  <2>7. \A n : Matches(c, n)' = Matches(c, n)
    BY <1>1 DEF Matches
  <2> QED
    BY <1>1, <2>3, <2>4, <2>5, <2>6, <2>7 DEF ListingInv, Reading
<1> QED
  BY <1>2, <1>3, <1>4, <1>5 DEF ListingInv

\* What is written has a time that was taken for it.
LEMMA WriteStep ==
  ASSUME ListingInv, NEW m \in Names, Write(m)
  PROVE  ListingInv'
<1>1. PICK t \in stamps[m] \cup {clock + 1} :
        Change(m, t) /\ stamps' = [stamps EXCEPT ![m] = @ \cup {t}]
  BY DEF Write
<1>2. t \in Nat /\ t # Absent
  BY Basics DEF ListingInv, TimesDiffer, Absent
<1> QED
  BY <1>1, <1>2, ChangeStep

\* What is deleted has no time.
LEMMA DeleteStep ==
  ASSUME ListingInv, NEW m \in Names, Delete(m)
  PROVE  ListingInv'
<1>1. Change(m, Absent) /\ stamps' = stamps /\ Absent \in Nat
  BY DEF Delete, Absent
<1>2. stamps' = [stamps EXCEPT ![m] = @ \cup ({Absent} \ {Absent})]
  BY <1>1, Basics
<1> QED
  BY <1>1, <1>2, ChangeStep

\* Nothing is behind the first page.
LEMMA BeginStep ==
  ASSUME ListingInv, NEW c \in Clients, NEW k \in Kinds, Begin(c, k)
  PROVE  ListingInv'
<1>1. /\ at[c] = "idle" /\ at' = [at EXCEPT ![c] = "list"]
      /\ kind' = [kind EXCEPT ![c] = k]
      /\ steady' = [steady EXCEPT ![c] = Present]
      /\ UNCHANGED <<files, stamps, clock, offset, todo, rows, seen, setbacks>>
  BY DEF Begin, stored
<1>2. LTypeOK' /\ TimesDiffer'
  BY <1>1, Basics DEF ListingInv, LTypeOK, TimesDiffer
<1>3. ASSUME NEW d \in Clients, d # c PROVE Reading(d)' /\ Sound(d)'
  BY <1>1, <1>3, OthersFrame, Basics DEF ListingInv, LTypeOK
<1>4. /\ at'[c] = "list" /\ steady'[c] = Present /\ offset'[c] = 0 /\ setbacks'[c] = 0
      /\ rows'[c] = {} /\ todo'[c] = {}
  BY <1>1 DEF ListingInv, LTypeOK, Reading
<1>5. Reading(c)'
  BY <1>1, <1>4 DEF Reading, Present
<1>6. Sound(c)'
  <2>1. Lost(c)' = {}
    BY <1>4 DEF Lost
  <2>2. Passed(c)' = {}
    <3>1. ASSUME NEW n PROVE Cardinality(Coming(c, n)') \in Nat
      <4>1. Coming(c, n)' \subseteq Names
        BY <1>1, <1>4, Basics DEF Coming, Leading, Present
      <4> QED
        BY <4>1, NamesAreFinite, FS_Subset, FS_CardinalityType
    <3>2. \A n : ~(Cardinality(Coming(c, n)') < 0)
      BY <3>1
    <3> QED
      BY <1>4, <3>2 DEF Passed
  <2> QED
    BY <1>1, <1>4, <2>1, <2>2, FS_EmptySet DEF ListingInv, Reading, Sound
<1> QED
  BY <1>2, <1>3, <1>5, <1>6 DEF ListingInv

\* What is before a name when the directory is listed is what is going to be read.
LEMMA ReadDirStep ==
  ASSUME ListingInv, NEW c \in Clients, ReadDir(c)
  PROVE  ListingInv'
<1>1. /\ at[c] = "list" /\ at' = [at EXCEPT ![c] = "read"]
      /\ todo' = [todo EXCEPT ![c] = Present]
      /\ UNCHANGED <<files, stamps, clock, kind, offset, rows, seen, steady, setbacks>>
  BY DEF ReadDir, stored
<1>2. LTypeOK' /\ TimesDiffer'
  BY <1>1, Basics DEF ListingInv, LTypeOK, TimesDiffer
<1>3. ASSUME NEW d \in Clients, d # c PROVE Reading(d)' /\ Sound(d)'
  BY <1>1, <1>3, OthersFrame, Basics DEF ListingInv, LTypeOK
<1>4. rows[c] = {} /\ rows'[c] = {} /\ todo'[c] = Present /\ at'[c] = "read"
  BY <1>1 DEF ListingInv, LTypeOK, Reading
<1>5. Present' = Present /\ Unseen(c)' = Unseen(c)
  BY <1>1 DEF Present, Unseen, Wanted
<1>6. Reading(c)'
  BY <1>1, <1>4, <1>5, Basics DEF ListingInv, Reading
<1>7. Sound(c)'
  <2>1. \A n : Leading(c, n)' = Leading(c, n) /\ Leading(c, n) \subseteq Present
    BY <1>1 DEF Leading, Present, Matches, Row
  <2>2. \A n : Coming(c, n)' = Leading(c, n) /\ Coming(c, n) = Leading(c, n)
    BY <1>1, <1>4, <2>1 DEF Coming, Ahead
  <2>3. Passed(c)' = Passed(c) /\ Lost(c)' = Lost(c)
    BY <1>1, <1>5, <2>2 DEF Passed, Lost
  <2> QED
    BY <1>1, <2>3 DEF ListingInv, Sound
<1> QED
  BY <1>2, <1>3, <1>6, <1>7 DEF ListingInv

\* A file that is read is before the same names in the list as before it was read.
LEMMA ReadFileStep ==
  ASSUME ListingInv, NEW c \in Clients, ReadFile(c)
  PROVE  ListingInv'
<1> DEFINE n0 == First(todo[c])
           new == IF n0 \in Present /\ Matches(c, n0) THEN {Row(n0)} ELSE {}
<1>1. n0 \in todo[c] /\ todo[c] \subseteq Names /\ n0 \in Names
  BY FirstIsThere DEF ReadFile, ListingInv, LTypeOK
<1>2. /\ at[c] = "read"
      /\ rows' = [rows EXCEPT ![c] = IF n0 \in Present /\ Matches(c, n0)
                                     THEN @ \cup {Row(n0)} ELSE @]
      /\ todo' = [todo EXCEPT ![c] = @ \ {n0}]
      /\ UNCHANGED <<files, stamps, clock, at, kind, offset, seen, steady, setbacks>>
  BY DEF ReadFile, Row, stored
<1> HIDE DEF n0
<1>3. /\ rows'[c] = rows[c] \cup new /\ todo'[c] = todo[c] \ {n0}
      /\ \A d \in Clients : d # c => rows'[d] = rows[d] /\ todo'[d] = todo[d]
  BY <1>2 DEF ListingInv, LTypeOK
<1>4. \A y \in new : /\ y = Row(n0) /\ y[1] = n0 /\ y[2] = files[n0]
                     /\ n0 \in Present /\ Matches(c, n0)
  BY DEF Row
<1> HIDE DEF new
<1>5. LTypeOK' /\ TimesDiffer'
  <2>1. \A y \in new : y \in Names \X ((0 .. Cardinality(Names) + MaxWrites) \ {Absent})
    BY <1>1, <1>4 DEF Row, Present, ListingInv, LTypeOK
  <2>2. rows' \in [Clients -> SUBSET (Names \X ((0 .. Cardinality(Names) + MaxWrites) \ {Absent}))]
    <3>1. rows' = [rows EXCEPT ![c] = @ \cup new]
      BY <1>2, <1>3 DEF ListingInv, LTypeOK
    <3> QED
      BY <2>1, <3>1 DEF ListingInv, LTypeOK
  <2>3. todo' \in [Clients -> SUBSET Names]
    BY <1>2 DEF ListingInv, LTypeOK
  <2> QED
    BY <1>2, <2>2, <2>3 DEF ListingInv, LTypeOK, TimesDiffer
<1>6. ASSUME NEW d \in Clients, d # c PROVE Reading(d)' /\ Sound(d)'
  BY <1>2, <1>3, <1>6, OthersFrame, Basics
<1>7. /\ Present' = Present /\ Unseen(c)' = Unseen(c)
      /\ \A n : Matches(c, n)' = Matches(c, n) /\ Row(n)' = Row(n)
  BY <1>2 DEF Present, Unseen, Wanted, Matches, Row
<1>8. ASSUME NEW n \in Unseen(c)
      PROVE  n \in Names /\ n \in Present /\ Matches(c, n)
  BY Basics DEF Unseen, Wanted, Matches, Kinds, ListingInv, LTypeOK
<1>9. Reading(c)'
  <2>1. \A x \in rows[c] : x[1] \notin todo[c] /\ x[1] # n0
    BY <1>1 DEF ListingInv, Reading
  <2>2. \A x, y \in rows'[c] : x[1] \notin todo'[c] /\ (x[1] = y[1] => x = y)
    <3>1. \A x, y \in rows[c] : x[1] = y[1] => x = y
      BY DEF ListingInv, Reading
    <3> QED
      BY <1>3, <1>4, <2>1, <3>1
  <2>3. \A y \in rows'[c] : y[2] \in stamps'[y[1]] /\ Matches(c, y[1])'
    <3>1. \A y \in rows[c] : y[2] \in stamps[y[1]] /\ Matches(c, y[1])
      BY DEF ListingInv, Reading
    <3>2. \A y \in new : y[2] \in stamps[y[1]]
      BY <1>1, <1>4 DEF ListingInv, TimesDiffer, Present
    <3> QED
      BY <1>2, <1>3, <1>4, <1>7, <3>1, <3>2
  <2>4. \A n \in Unseen(c) : n \in todo'[c] \/ Row(n) \in rows'[c]
    <3>1. \A n \in Unseen(c) : n \in todo[c] \/ Row(n) \in rows[c]
      BY <1>2 DEF ListingInv, Reading
    <3>2. n0 \in Unseen(c) => Row(n0) \in new
      BY <1>8 DEF new
    <3> QED
      BY <1>3, <3>1, <3>2
  <2> QED
    BY <1>2, <1>7, <2>2, <2>3, <2>4 DEF ListingInv, Reading
<1>10. Sound(c)'
  <2>1. Lost(c)' = Lost(c)
    <3>1. \A y \in new : ~(files[y[1]] < y[2])
      BY <1>1, <1>4, Basics
    <3> QED
      BY <1>2, <1>3, <3>1 DEF Lost
  <2>2. ASSUME NEW n \in Unseen(c) PROVE Coming(c, n) \subseteq Coming(c, n)'
    <3>1. Leading(c, n)' = Leading(c, n)
      BY <1>2, <1>7 DEF Leading
    <3>2. Ahead(c, Row(n)) \subseteq Ahead(c, Row(n))'
      BY <1>2, <1>3, <1>7 DEF Ahead
    <3>3. ASSUME n0 \in Leading(c, n) PROVE n0 \in {y[1] : y \in Ahead(c, Row(n))'}
      <4>1. Row(n0) \in rows'[c] /\ Row(n0)[1] = n0 /\ Before(kind[c], Row(n0), Row(n))
        BY <1>3, <3>3 DEF new, Leading, Row
      <4>2. Row(n0) \in Ahead(c, Row(n))'
        BY <1>2, <1>7, <4>1 DEF Ahead
      <4> QED
        BY <4>1, <4>2
    <3>4. {y[1] : y \in Ahead(c, Row(n))} \subseteq {y[1] : y \in Ahead(c, Row(n))'}
      BY <3>2
    <3> QED
      BY <1>2, <1>3, <3>1, <3>3, <3>4 DEF Coming
  <2>3. Passed(c)' \subseteq Passed(c)
    <3> SUFFICES ASSUME NEW n \in Passed(c)' PROVE n \in Passed(c)
      OBVIOUS
    <3>1. n \in Unseen(c) /\ Cardinality(Coming(c, n)') < offset[c]
      BY <1>2, <1>7 DEF Passed
    <3>2. Coming(c, n)' \subseteq Names
      BY <1>2, <1>5, Basics DEF Coming, Ahead, Leading, Present, LTypeOK
    <3>3. /\ Cardinality(Coming(c, n)) <= Cardinality(Coming(c, n)')
          /\ Cardinality(Coming(c, n)) \in Nat /\ Cardinality(Coming(c, n)') \in Nat
      BY <2>2, <3>1, <3>2, NamesAreFinite, FS_Subset, FS_CardinalityType
    <3> QED
      BY <3>1, <3>3, Basics DEF Passed
  <2>4. Cardinality(Passed(c)') <= Cardinality(Passed(c)) /\ Cardinality(Passed(c)') \in Nat
    BY <2>3, FewRows, FS_Subset, FS_CardinalityType
  <2> QED
    BY <1>2, <2>1, <2>4, FewRows, Basics DEF ListingInv, Sound
<1> QED
  BY <1>5, <1>6, <1>9, <1>10 DEF ListingInv

\* Nothing is left of a list that has come to its end.
LEMMA EndStep ==
  ASSUME ListingInv, NEW c \in Clients, End(c)
  PROVE  ListingInv'
<1>1. LTypeOK' /\ TimesDiffer'
  <2>1. /\ "memories" \in Kinds /\ 0 \in 0 .. Cardinality(Names) + PageSize
        /\ 0 \in 0 .. MaxWrites
    BY Basics DEF Kinds
  <2> QED
    BY <2>1 DEF End, ListingInv, LTypeOK, TimesDiffer, stored
<1>2. ASSUME NEW d \in Clients, d # c PROVE Reading(d)' /\ Sound(d)'
  BY <1>2, OthersFrame, Basics DEF End, ListingInv, LTypeOK, stored
<1>3. /\ at'[c] = "idle" /\ rows'[c] = {} /\ todo'[c] = {} /\ seen'[c] = {}
      /\ steady'[c] = {} /\ offset'[c] = 0 /\ setbacks'[c] = 0 /\ clock' = clock
  BY DEF End, ListingInv, LTypeOK, stored
<1>4. Passed(c)' = {} /\ Lost(c)' = {}
  BY <1>3 DEF Passed, Unseen, Lost
<1>5. Cardinality(Names) <= clock
  BY Basics DEF ListingInv, Sound
<1>6. Reading(c)' /\ Sound(c)'
  BY <1>3, <1>4, <1>5, FS_EmptySet, Basics DEF Reading, Sound
<1> QED
  BY <1>1, <1>2, <1>6 DEF ListingInv

\* Where n is in the list, when all of it has been read.
LEMMA PlaceOfUnseen ==
  ASSUME ListingInv, NEW c \in Clients, at[c] = "read", todo[c] = {},
         NEW n \in Unseen(c)
  PROVE  /\ Row(n) \in rows[c] /\ n \in Names
         /\ Coming(c, n) = {y[1] : y \in Ahead(c, Row(n))}
         /\ Cardinality(Coming(c, n)) = Cardinality(Ahead(c, Row(n)))
         /\ Cardinality(Ahead(c, Row(n))) \in Nat
<1> DEFINE A == Ahead(c, Row(n))
           f == [y \in A |-> y[1]]
<1>1. Row(n) \in rows[c] /\ n \in Names
  BY Basics DEF ListingInv, Reading
<1>2. Coming(c, n) = {y[1] : y \in A}
  BY DEF Coming
<1>3. IsFiniteSet(A) /\ Cardinality(A) \in Nat
  BY FewRows, FS_Subset, FS_CardinalityType, A \subseteq rows[c] DEF Ahead
<1>4. f \in Surjection(A, {y[1] : y \in A}) /\ f \in Injection(A, {y[1] : y \in A})
  BY DEF Injection, Surjection, IsInjective, Ahead, ListingInv, Reading
<1>5. Cardinality({y[1] : y \in A}) = Cardinality(A)
  <2> DEFINE B == {y[1] : y \in A}
  <2>1. f \in Surjection(A, B) /\ f \in Injection(A, B)
    BY <1>4
  <2> HIDE DEF f, A, B
  <2>2. Cardinality(B) = Cardinality(A)
    BY <1>3, <2>1, FS_Surjection
  <2> QED
    BY <2>2 DEF B
<1> QED
  BY <1>1, <1>2, <1>3, <1>5

\* What has got behind a page since the list was read is no more than has been lost since.
LEMMA NewlyPassed ==
  ASSUME ListingInv, NEW c \in Clients, at[c] = "read", todo[c] = {}, NEW o \in Nat,
         NEW N, N = {n \in Unseen(c) : /\ Cardinality(Coming(c, n)) >= o
                                       /\ Cardinality(Leading(c, n)) < o}
  PROVE  IsFiniteSet(N) /\ Cardinality(N) \in Nat /\ Cardinality(N) <= Cardinality(Lost(c))
<1>1. IsFiniteSet(N) /\ Cardinality(N) \in Nat /\ N \subseteq Unseen(c)
  BY Basics, NamesAreFinite, FS_Subset, FS_CardinalityType
<1>2. IsFiniteSet(Lost(c)) /\ Cardinality(Lost(c)) \in Nat
  BY FewRows
<1>3. CASE N = {}
  BY <1>1, <1>2, <1>3, FS_EmptySet
<1>4. CASE N # {}
  <2> DEFINE r == [n \in N |-> Cardinality(Coming(c, n))]
             s == [n \in N |-> Cardinality(Names) - Cardinality(Coming(c, n))]
  <2>1. ASSUME NEW n \in N PROVE r[n] \in Nat /\ s[n] \in Nat
    <3>1. Cardinality(Coming(c, n)) <= Cardinality(Names) /\ Cardinality(Coming(c, n)) \in Nat
      BY ComingIsFinite, NamesAreFinite, FS_Subset
    <3> QED
      BY <3>1, NamesAreFinite
  <2>2. PICK f \in N : \A n \in N : Cardinality(Coming(c, f)) <= Cardinality(Coming(c, n))
    <3>1. \E f \in N : \A n \in N : r[f] <= r[n]
      <4> HIDE DEF r
      <4> QED
        BY <1>4, <2>1, SomeIsLeast
    <3> QED
      BY <3>1
  <2>3. PICK z \in N : \A n \in N : Cardinality(Coming(c, n)) <= Cardinality(Coming(c, z))
    <3>1. \E z \in N : \A n \in N : s[z] <= s[n]
      <4> HIDE DEF s
      <4> QED
        BY <1>4, <2>1, SomeIsLeast
    <3>2. \A n \in N : Cardinality(Coming(c, n)) \in Nat
      BY ComingIsFinite
    <3> QED
      BY <3>1, <3>2, NamesAreFinite
  <2>4. \A n \in N : n # f => Coming(c, f) \cup {f} \subseteq Coming(c, n)
    <3> SUFFICES ASSUME NEW n \in N, n # f PROVE Coming(c, f) \cup {f} \subseteq Coming(c, n)
      OBVIOUS
    <3>1. ~(Cardinality(Coming(c, n)) < Cardinality(Coming(c, f)))
      BY <2>2, ComingIsFinite
    <3>2. Before(kind[c], Row(f), Row(n))
      BY <1>1, <3>1, UnseenInLine, PlacesOfUnseen
    <3> QED
      BY <1>1, <3>2, UnseenInLine
  <2>5. N \ {z} \subseteq Coming(c, z)
    <3> SUFFICES ASSUME NEW n \in N, n # z PROVE n \in Coming(c, z)
      OBVIOUS
    <3>1. ~(Cardinality(Coming(c, z)) < Cardinality(Coming(c, n)))
      BY <2>3, ComingIsFinite
    <3>2. Before(kind[c], Row(n), Row(z))
      BY <1>1, <3>1, UnseenInLine, PlacesOfUnseen
    <3> QED
      BY <1>1, <3>2, UnseenInLine
  <2>6. Coming(c, f) \cap (N \ {z}) = {}
    <3> SUFFICES ASSUME NEW n \in N \ {z}, n \in Coming(c, f) PROVE FALSE
      OBVIOUS
    <3>1. n \notin Coming(c, n)
      BY <1>1, UnseenInLine
    <3>2. Coming(c, f) \subseteq Coming(c, n)
      BY <2>4
    <3> QED
      BY <3>1, <3>2
  <2>7. /\ IsFiniteSet(Coming(c, f)) /\ Cardinality(Coming(c, f)) \in Nat
        /\ IsFiniteSet(Coming(c, z)) /\ Cardinality(Coming(c, z)) \in Nat
        /\ IsFiniteSet(Leading(c, z)) /\ Cardinality(Leading(c, z)) \in Nat
    BY ComingIsFinite
  <2>8. Cardinality(Coming(c, f)) + (Cardinality(N) - 1) <= Cardinality(Coming(c, z))
    <3>1. IsFiniteSet(N \ {z}) /\ Cardinality(N \ {z}) = Cardinality(N) - 1
      BY <1>1, FS_RemoveElement
    <3>2. Coming(c, f) \cup (N \ {z}) \subseteq Coming(c, z)
      BY <2>4, <2>5
    <3>3. /\ Cardinality(Coming(c, f) \cup (N \ {z}))
               = Cardinality(Coming(c, f)) + Cardinality(N \ {z})
                   - Cardinality(Coming(c, f) \cap (N \ {z}))
          /\ IsFiniteSet(Coming(c, f) \cup (N \ {z}))
      BY <2>7, <3>1, FS_Union
    <3>4. Cardinality(Coming(c, f) \cup (N \ {z})) <= Cardinality(Coming(c, z))
      BY <2>7, <3>2, FS_Subset
    <3>5. Cardinality(Coming(c, f) \cap (N \ {z})) = 0
      BY <2>6, FS_EmptySet
    <3> QED
      BY <1>1, <2>7, <3>1, <3>3, <3>4, <3>5
  <2>9. Cardinality(Coming(c, z)) <= Cardinality(Leading(c, z)) + Cardinality(Lost(c))
    <3> DEFINE gone == {y[1] : y \in Lost(c)}
               g == [y \in Lost(c) |-> y[1]]
    <3>1. g \in Surjection(Lost(c), gone)
      BY DEF Surjection
    <3>2. IsFiniteSet(gone) /\ Cardinality(gone) <= Cardinality(Lost(c)) /\ Cardinality(gone) \in Nat
      <4> HIDE DEF gone, g
      <4> QED
        BY <1>2, <3>1, FS_Surjection, FS_CardinalityType
    <3>3. Coming(c, z) \subseteq Leading(c, z) \cup gone
      <4>1. Coming(c, z) = {y[1] : y \in Ahead(c, Row(z))}
        BY <1>1, PlaceOfUnseen
      <4>2. ASSUME NEW y \in Ahead(c, Row(z)), y \notin Lost(c) PROVE y[1] \in Leading(c, z)
        <5>1. y \in rows[c] /\ Before(kind[c], y, Row(z)) /\ Matches(c, y[1])
          BY DEF Ahead, ListingInv, Reading
        <5>2. y[1] \in Names /\ y[2] \in Nat /\ y[2] > 0 /\ files[y[1]] \in Nat
          BY <5>1, Basics
        <5>3. files[y[1]] >= y[2] \/ (files[y[1]] # Absent /\ kind[c] = "memories")
          BY <4>2, <5>1, <5>2 DEF Lost
        <5>4. y[1] \in Present
          BY <5>2, <5>3 DEF Present, Absent
        <5>5. Before(kind[c], Row(y[1]), Row(z))
          <6>1. Row(y[1])[1] = y[1] /\ Row(y[1])[2] = files[y[1]]
            BY DEF Row
          <6>2. Row(z)[2] \in Nat
            BY <1>1, Basics DEF Row
          <6> QED
            BY <5>1, <5>2, <5>3, <6>1, <6>2 DEF Before
        <5> QED
          BY <5>1, <5>4, <5>5 DEF Leading
      <4> QED
        BY <4>1, <4>2
    <3>4. /\ IsFiniteSet(Leading(c, z) \cup gone)
          /\ Cardinality(Leading(c, z) \cup gone) <= Cardinality(Leading(c, z)) + Cardinality(gone)
          /\ Cardinality(Leading(c, z) \cup gone) \in Nat
      <4> HIDE DEF gone
      <4>1. IsFiniteSet(Leading(c, z) \cap gone) /\ Cardinality(Leading(c, z) \cap gone) \in Nat
        BY <2>7, FS_Intersection, FS_CardinalityType
      <4>2. /\ IsFiniteSet(Leading(c, z) \cup gone)
            /\ Cardinality(Leading(c, z) \cup gone)
                 = Cardinality(Leading(c, z)) + Cardinality(gone) - Cardinality(Leading(c, z) \cap gone)
        BY <2>7, <3>2, FS_Union
      <4>3. Cardinality(Leading(c, z) \cup gone) \in Nat
        BY <4>2, FS_CardinalityType
      <4> QED
        BY <2>7, <3>2, <4>1, <4>2, <4>3
    <3>5. Cardinality(Coming(c, z)) <= Cardinality(Leading(c, z) \cup gone)
      <4> HIDE DEF gone
      <4> QED
        BY <3>3, <3>4, FS_Subset
    <3> QED
      BY <1>2, <2>7, <3>2, <3>4, <3>5
  <2>10. Cardinality(Coming(c, f)) >= o /\ Cardinality(Leading(c, z)) < o
    OBVIOUS
  <2> QED
    BY <1>1, <1>2, <2>7, <2>8, <2>9, <2>10
<1> QED
  BY <1>3, <1>4

\* What is not on a page that is given is behind it, but for what was lost meanwhile.
LEMMA AnswerStep ==
  ASSUME ListingInv, NEW c \in Clients, Answer(c)
  PROVE  ListingInv'
<1>1. /\ at[c] = "read" /\ todo[c] = {} /\ Page(c) # {}
      /\ at' = [at EXCEPT ![c] = "list"]
      /\ offset' = [offset EXCEPT ![c] = @ + PageSize]
      /\ rows' = [rows EXCEPT ![c] = {}]
      /\ seen' = [seen EXCEPT ![c] = @ \cup Page(c)]
      /\ UNCHANGED <<files, stamps, clock, kind, todo, steady, setbacks>>
  BY DEF Answer, stored
<1>2. LTypeOK' /\ TimesDiffer'
  <2>1. offset[c] + PageSize \in 0 .. Cardinality(Names) + PageSize
    BY <1>1, OffsetIsBounded, Basics
  <2>2. Page(c) \subseteq Names
    BY DirectoryAssumption DEF Page
  <2> QED
    BY <1>1, <2>1, <2>2 DEF ListingInv, LTypeOK, TimesDiffer
<1>3. ASSUME NEW d \in Clients, d # c PROVE Reading(d)' /\ Sound(d)'
  BY <1>1, <1>3, OthersFrame, Basics DEF ListingInv, LTypeOK
<1>4. /\ at'[c] = "list" /\ rows'[c] = {} /\ offset'[c] = offset[c] + PageSize
      /\ seen'[c] = seen[c] \cup Page(c)
  BY <1>1 DEF ListingInv, LTypeOK
<1>5. Reading(c)'
  BY <1>1, <1>4 DEF ListingInv, Reading, Present
<1>6. Sound(c)'
  <2> DEFINE o == offset[c] + PageSize
             N == {n \in Unseen(c) : /\ Cardinality(Coming(c, n)) >= o
                                     /\ Cardinality(Leading(c, n)) < o}
  <2>1. o \in Nat
    BY Basics
  <2>2. IsFiniteSet(N) /\ Cardinality(N) \in Nat /\ Cardinality(N) <= Cardinality(Lost(c))
    <3> HIDE DEF o
    <3> QED
      BY <1>1, <2>1, NewlyPassed
  <2>3. Passed(c)' \subseteq Passed(c) \cup N
    <3> SUFFICES ASSUME NEW n \in Passed(c)', n \notin Passed(c) PROVE n \in N
      OBVIOUS
    <3>1. n \in Unseen(c) /\ n \notin Page(c)
      BY <1>1, <1>4 DEF Passed, Unseen, Wanted
    <3>2. Leading(c, n)' = Leading(c, n)
      BY <1>1 DEF Leading, Present, Matches, Row
    <3>3. Cardinality(Leading(c, n)) < o
      BY <1>4, <3>2 DEF Passed, Coming
    <3>4. /\ Row(n) \in rows[c] /\ n \in Names
          /\ Cardinality(Coming(c, n)) = Cardinality(Ahead(c, Row(n)))
          /\ Cardinality(Ahead(c, Row(n))) \in Nat
      BY <1>1, <3>1, PlaceOfUnseen
    <3>5. Cardinality(Coming(c, n)) >= offset[c]
      BY <3>1, <3>4, Basics DEF Passed
    <3>6. Row(n) \notin Slice(c)
      <4>1. kind[c] = "own conversations" => n \in Mine
        BY <3>1 DEF Unseen, Wanted
      <4>2. Row(n) \in Slice(c) => n \in {x[1] : x \in Slice(c)}
        BY Row(n)[1] = n DEF Row
      <4> QED
        BY <3>1, <3>4, <4>1, <4>2 DEF Page
    <3>7. Cardinality(Coming(c, n)) >= o
      <4>1. Cardinality(Ahead(c, Row(n))) \notin offset[c] .. offset[c] + PageSize - 1
        BY <3>4, <3>6 DEF Slice
      <4> QED
        BY <3>4, <3>5, <4>1, Basics
    <3> QED
      BY <3>1, <3>3, <3>7
  <2>4. Cardinality(Passed(c)') <= Cardinality(Passed(c)) + Cardinality(N) /\ Cardinality(Passed(c)') \in Nat
    <3> HIDE DEF N
    <3>1. /\ IsFiniteSet(Passed(c) \cup N) /\ Cardinality(Passed(c) \cap N) \in Nat
          /\ Cardinality(Passed(c) \cup N)
               = Cardinality(Passed(c)) + Cardinality(N) - Cardinality(Passed(c) \cap N)
      BY <2>2, FewRows, FS_Union, FS_Intersection, FS_CardinalityType
    <3>2. Cardinality(Passed(c)') <= Cardinality(Passed(c) \cup N) /\ Cardinality(Passed(c)') \in Nat
      BY <2>3, <3>1, FS_Subset, FS_CardinalityType
    <3> QED
      BY <2>2, <3>1, <3>2, FewRows
  <2>5. Lost(c)' = {}
    BY <1>4 DEF Lost
  <2> HIDE DEF N
  <2> QED
    BY <1>1, <2>2, <2>4, <2>5, FewRows, Basics, FS_EmptySet DEF ListingInv, Sound
<1> QED
  BY <1>2, <1>3, <1>5, <1>6 DEF ListingInv

\* Each step of a client or a writer keeps the invariant.
LEMMA ListingStep == ListingInv /\ [LNext]_lvars => ListingInv'
<1> SUFFICES ASSUME ListingInv, [LNext]_lvars PROVE ListingInv'
  OBVIOUS
<1>1. CASE UNCHANGED lvars
  <2>1. UNCHANGED <<files, stamps, clock, at, kind, offset, todo, rows, seen, steady, setbacks>>
    BY <1>1 DEF lvars, request, stored
  <2>2. \A c \in Clients : Reading(c)' /\ Sound(c)'
    BY <2>1, OthersFrame, Basics
  <2> QED
    BY <2>1, <2>2 DEF ListingInv, LTypeOK, TimesDiffer
<1>2. CASE \E n \in Names : Stamp(n) \/ Write(n) \/ Delete(n)
  BY <1>2, StampStep, WriteStep, DeleteStep
<1>3. CASE \E c \in Clients :
             \/ \E k \in Kinds : Begin(c, k)
             \/ ReadDir(c) \/ ReadFile(c) \/ ReadFails(c) \/ Answer(c) \/ Finish(c)
  BY <1>3, BeginStep, ReadDirStep, ReadFileStep, EndStep, AnswerStep DEF ReadFails, Finish
<1> QED
  BY <1>1, <1>2, <1>3 DEF LNext

\* At every moment a client's pages are behind no more of what is there all the while
\* than something in its list was deleted or written back with an older time.
THEOREM ListingInvariance == LSpec => []ListingInv
<1> QED
  BY ListingsStart, ListingStep, PTL DEF LSpec

\* The state of lists and files is always of its type; no offset goes further than a
\* page beyond the files there may be.
THEOREM ListingTypeCorrectness == LSpec => []LTypeOK
<1>1. ListingInv => LTypeOK
  BY DEF ListingInv
<1> QED
  BY <1>1, ListingInvariance, PTL

\* For any files, filters, page length and number of clients: of what it asked for that
\* was there unchanged all the while, a client that comes to the end of its list misses
\* no more than there were deletions and writes of stale copies in that list, and nothing
\* if there were none (List of both services and repositories).
THEOREM PagingIsComplete == LSpec => MissesAreSetbacks
<1> DEFINE Complete ==
      \A c \in Clients : Finish(c) /\ Beyond(c)
        => Cardinality((steady[c] \cap Wanted(c)) \ seen[c]) <= setbacks[c]
<1>1. ListingInv => Complete
  <2> SUFFICES ASSUME ListingInv, NEW c \in Clients, Finish(c), Beyond(c)
               PROVE  Cardinality(Unseen(c)) <= setbacks[c]
    BY DEF Unseen
  <2>1. Unseen(c) \subseteq Passed(c)
    <3> SUFFICES ASSUME NEW n \in Unseen(c) PROVE Cardinality(Coming(c, n)) < offset[c]
      BY DEF Passed
    <3>1. /\ Row(n) \in rows[c] /\ n \in Names
          /\ Cardinality(Coming(c, n)) = Cardinality(Ahead(c, Row(n)))
      BY PlaceOfUnseen DEF Finish
    <3>2. Row(n) \notin Ahead(c, Row(n)) /\ Ahead(c, Row(n)) \subseteq rows[c] \ {Row(n)}
      BY <3>1, RowsInOrder, Basics DEF Ahead
    <3>3. IsFiniteSet(rows[c]) /\ Cardinality(rows[c]) \in Nat
      BY FewRows
    <3>4. IsFiniteSet(rows[c] \ {Row(n)}) /\ Cardinality(rows[c] \ {Row(n)}) = Cardinality(rows[c]) - 1
      BY <3>1, <3>3, FS_RemoveElement
    <3>5. /\ Cardinality(Ahead(c, Row(n))) <= Cardinality(rows[c] \ {Row(n)})
          /\ Cardinality(Ahead(c, Row(n))) \in Nat
      BY <3>2, <3>4, FS_Subset, FS_CardinalityType
    <3> QED
      BY <3>1, <3>3, <3>4, <3>5, Basics DEF Beyond
  <2>2. Cardinality(Unseen(c)) <= Cardinality(Passed(c)) /\ Cardinality(Unseen(c)) \in Nat
    BY <2>1, FewRows, FS_Subset, FS_CardinalityType
  <2>3. Cardinality(Passed(c)) + Cardinality(Lost(c)) <= setbacks[c]
    BY DEF ListingInv, Sound
  <2> QED
    BY <2>2, <2>3, FewRows, Basics
<1>2. ListingInv => [Complete]_lvars
  BY <1>1
<1> HIDE DEF Complete
<1>3. []ListingInv => [][Complete]_lvars
  BY <1>2, PTL
<1>4. [][Complete]_lvars => MissesAreSetbacks
  BY PTL DEF MissesAreSetbacks, Complete
<1> QED
  BY <1>3, <1>4, ListingInvariance, PTL
===============================================================================
