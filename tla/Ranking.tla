------------------------------- MODULE Ranking -------------------------------
(***************************************************************************)
(* Which memories an answer names and in what order: Search and Similar of *)
(* usecase/memory/search.go over a store that does not change.  (What they *)
(* read while it changes is in MemorySearch.)  Each index ranks chunks and *)
(* gives a limited number of them; their ranks are fused to scores; the    *)
(* best chunks are mapped to memories until there are enough; memories     *)
(* without the tags asked for are left out; the rest is sorted and cut.    *)
(* Two cuts and two filters in this order: what is lost before a filter is *)
(* not made up for after it.  Chunks of equal score come in any order, as  *)
(* they do from a Go map and an unstable sort.                             *)
(***************************************************************************)
EXTENDS Integers, Sequences, FiniteSets, Functions

CONSTANTS
  Chunks, Memories,
  Gone,           \* owner of a chunk that is left in an index but in no chunk file
  Owners,         \* whose the chunks may be
  SemanticOrders, \* orders in which the vector index may find its chunks
  KeywordOrders,  \* orders in which the keyword index may find what matches
  K,              \* the constant of reciprocal rank fusion (60 in the code)
  Breadth,        \* chunks and memories looked at for each one asked for (3)
  DefaultTopK, MaxTopK  \* answers when none are asked for, and at most (10 and 100)

ASSUME OwnerAssumption ==
  IsFiniteSet(Chunks) /\ Gone \notin Memories /\ Owners \subseteq [Chunks -> Memories \cup {Gone}]
ASSUME OrderAssumption ==
  \A order \in SemanticOrders \cup KeywordOrders :
    order \in Seq(Chunks) /\ IsInjective(order)
ASSUME SizeAssumption ==
  K \in Nat /\ Breadth \in Nat \ {0} /\ DefaultTopK \in 1 .. MaxTopK /\ MaxTopK \in Nat

VARIABLES
  pc,       \* what the request does next
  mode,     \* search mode, or "similar"
  topK,     \* answers asked for
  source,   \* Similar: the memory to compare with; Gone for Search
  owner,    \* memory whose chunk file holds each chunk
  near, matching,    \* all that the indexes could find, best first
  semantic, keyword, \* what they gave
  score,    \* fused score of each chunk that was given
  left,     \* chunks still to be mapped to memories
  best,     \* the best chunk of each memory found so far
  untagged, \* memories found that have not the tags asked for
  answer    \* memories returned, best first

vars == <<pc, mode, topK, source, owner, near, matching, semantic, keyword, score,
          left, best, untagged, answer>>

Modes == {"hybrid", "semantic", "keyword"}

\* The function on nothing.
Nothing == [x \in {} |-> x]

Init ==
  /\ pc = "idle"
  /\ mode = "hybrid" /\ topK = DefaultTopK /\ source = Gone
  /\ owner = [c \in Chunks |-> Gone]
  /\ near = <<>> /\ matching = <<>> /\ semantic = <<>> /\ keyword = <<>>
  /\ score = Nothing /\ left = {} /\ best = Nothing /\ untagged = {} /\ answer = <<>>

-----------------------------------------------------------------------------
Asked(k) == IF k <= 0 THEN DefaultTopK ELSE k
Capped(k) == IF k > MaxTopK THEN MaxTopK ELSE k

ChunksOf(m) == {c \in Chunks : owner[c] = m}

\* Mutant of Limit: no room is made for the chunks of the source.
BareLimit == Breadth * topK

\* Chunks asked of an index.  Similar will find the chunks of its source again.
Limit == Breadth * topK + (IF mode = "similar" THEN Cardinality(ChunksOf(source)) ELSE 0)

Cut(list, n) == SubSeq(list, 1, IF Len(list) < n THEN Len(list) ELSE n)

Search(k, m) ==
  /\ pc = "idle"
  /\ pc' = IF m = "keyword" THEN "keyword" ELSE "semantic"
  /\ mode' = m
  /\ topK' = Capped(Asked(k))
  /\ owner' \in Owners
  /\ UNCHANGED <<source, near, matching, semantic, keyword, score, left, best,
                 untagged, answer>>

\* A source without chunks has nothing to be compared with.
Similar(k, m) ==
  /\ pc = "idle"
  /\ mode' = "similar"
  /\ topK' = Asked(k)
  /\ source' = m
  /\ owner' \in Owners
  /\ pc' = IF \E c \in Chunks : owner'[c] = m THEN "semantic" ELSE "answered"
  /\ UNCHANGED <<near, matching, semantic, keyword, score, left, best,
                 untagged, answer>>

SemanticSearch ==
  /\ pc = "semantic"
  /\ near' \in SemanticOrders
  /\ semantic' = Cut(near', Limit)
  /\ pc' = IF mode = "hybrid" THEN "keyword" ELSE "fuse"
  /\ UNCHANGED <<mode, topK, source, owner, matching, keyword, score, left, best,
                 untagged, answer>>

KeywordSearch ==
  /\ pc = "keyword"
  /\ matching' \in KeywordOrders
  /\ keyword' = Cut(matching', Limit)
  /\ pc' = "fuse"
  /\ UNCHANGED <<mode, topK, source, owner, near, semantic, score, left, best, untagged,
                 answer>>

-----------------------------------------------------------------------------
(* Scores are fractions <<numerator, denominator>>, compared exactly.       *)

Less(p, q) == p[1] * q[2] < q[1] * p[2]

Rank(list, c) == CHOOSE i \in DOMAIN list : list[i] = c

\* What a list adds to the score of c: Similar scores 1/rank, Search 1/(K + rank).
Share(list, c) ==
  IF c \notin Range(list) THEN <<0, 1>>
  ELSE <<1, Rank(list, c) + (IF mode = "similar" THEN 0 ELSE K)>>

\* Mutant of Fused: the second list sets the score that it should add to.
Overwritten(p, q) == IF q[1] = 0 THEN p ELSE q

Fused(p, q) == <<p[1] * q[2] + q[1] * p[2], p[2] * q[2]>>

Hits == Range(semantic) \cup Range(keyword)

Fuse ==
  /\ pc = "fuse"
  /\ pc' = "resolve"
  /\ score' = [c \in Hits |-> Fused(Share(semantic, c), Share(keyword, c))]
  /\ left' = Hits
  /\ UNCHANGED <<mode, topK, source, owner, near, matching, semantic, keyword, best,
                 untagged, answer>>

Beats(c, d) == Less(score[d], score[c])

\* Mutant of Enough: it is chunks that are counted, not memories.
EnoughChunks == mode # "similar" /\ Cardinality(Hits \ left) >= Breadth * topK

\* Search stops when it has enough memories; Similar looks at every hit.
Enough == mode # "similar" /\ Cardinality(DOMAIN best) >= Breadth * topK

\* Mutant of Resolve: the memory of a chunk that is gone is found all the same.
ResolveGone ==
  /\ pc = "resolve" /\ ~Enough
  /\ \E c \in left :
       /\ \A d \in left : ~Beats(d, c)
       /\ left' = left \ {c}
       /\ best' = IF owner[c] = source /\ source # Gone THEN best
                  ELSE IF owner[c] \in DOMAIN best /\ ~Beats(c, best[owner[c]]) THEN best
                  ELSE [m \in DOMAIN best \cup {owner[c]} |->
                          IF m = owner[c] THEN c ELSE best[m]]
  /\ UNCHANGED <<pc, mode, topK, source, owner, near, matching, semantic, keyword,
                 score, untagged, answer>>

\* The best chunk that is left is looked up.  It is skipped if it is gone or, for
\* Similar, of the source itself, and if its memory has a better one.
Resolve ==
  /\ pc = "resolve" /\ ~Enough
  /\ \E c \in left :
       /\ \A d \in left : ~Beats(d, c)
       /\ left' = left \ {c}
       /\ best' = IF \/ owner[c] \in {Gone, source}
                     \/ owner[c] \in DOMAIN best /\ ~Beats(c, best[owner[c]])
                  THEN best
                  ELSE [m \in DOMAIN best \cup {owner[c]} |->
                          IF m = owner[c] THEN c ELSE best[m]]
  /\ UNCHANGED <<pc, mode, topK, source, owner, near, matching, semantic, keyword,
                 score, untagged, answer>>

\* The records of the memories found are read, and with them their tags.  Similar
\* asks for none.
Fetch ==
  /\ pc = "resolve" /\ (Enough \/ left = {})
  /\ pc' = "sort"
  /\ untagged' \in IF mode = "similar" THEN {{}} ELSE SUBSET DOMAIN best
  /\ UNCHANGED <<mode, topK, source, owner, near, matching, semantic, keyword, score,
                 left, best, answer>>

Sort ==
  /\ pc = "sort"
  /\ pc' = "answered"
  /\ LET found == DOMAIN best \ untagged IN
       \E results \in Bijection(1 .. Cardinality(found), found) :
         /\ \A i, j \in DOMAIN results : i < j => ~Beats(best[results[j]], best[results[i]])
         /\ answer' = Cut(results, topK)
  /\ UNCHANGED <<mode, topK, source, owner, near, matching, semantic, keyword, score,
                 left, best, untagged>>

\* The client gets the answer and nothing is left of the request.
Return ==
  /\ pc = "answered"
  /\ pc' = "idle"
  /\ mode' = "hybrid" /\ topK' = DefaultTopK /\ source' = Gone
  /\ owner' = [c \in Chunks |-> Gone]
  /\ near' = <<>> /\ matching' = <<>> /\ semantic' = <<>> /\ keyword' = <<>>
  /\ score' = Nothing /\ left' = {} /\ best' = Nothing /\ untagged' = {} /\ answer' = <<>>

Next ==
  \/ \E k \in 0 .. MaxTopK + 1, m \in Modes : Search(k, m)
  \/ \E k \in 0 .. MaxTopK + 1, m \in Memories : Similar(k, m)
  \/ SemanticSearch \/ KeywordSearch \/ Fuse \/ Resolve \/ Fetch \/ Sort \/ Return

Spec == Init /\ [][Next]_vars

-----------------------------------------------------------------------------
TypeOK ==
  /\ pc \in {"idle", "semantic", "keyword", "fuse", "resolve", "sort", "answered"}
  /\ mode \in Modes \cup {"similar"}
  /\ topK \in 1 .. MaxTopK + 1
  /\ source \in Memories \cup {Gone}
  /\ owner \in [Chunks -> Memories \cup {Gone}]
  /\ {near, matching} \subseteq Seq(Chunks)
  /\ semantic = Cut(near, Limit) /\ keyword = Cut(matching, Limit)
  /\ DOMAIN score \subseteq Hits /\ left \subseteq DOMAIN score
  /\ DOMAIN best \subseteq Memories \ {source}
  /\ \A m \in DOMAIN best : best[m] \in ChunksOf(m)
  /\ untagged \subseteq DOMAIN best
  /\ answer \in Seq(Memories) /\ IsInjective(answer) /\ Len(answer) <= topK

Answered == pc = "answered"

\* The memories that an answer may name, judged by what the indexes gave.
HitsOf(m)  == ChunksOf(m) \cap Hits
Candidates == {m \in Memories \ {source} : HitsOf(m) # {}}

\* The list ranks c before d: c is in it, and d after c or not at all.
Prefers(list, c, d) ==
  c \in Range(list) /\ (d \in Range(list) => Rank(list, c) < Rank(list, d))

\* No list ranks d before c, and one ranks c before d.
Dominates(c, d) ==
  /\ \E list \in {semantic, keyword} : Prefers(list, c, d)
  /\ \A list \in {semantic, keyword} : ~Prefers(list, d, c)

\* Where the two indexes agree the answer follows them, whatever the constant of the
\* fusion, the cuts and the filters: if both put a chunk of m before every chunk of
\* n, and both memories have the tags, n is not named unless m is, and before it.
AgreementIsKept ==
  Answered =>
    \A i \in DOMAIN answer, m \in Candidates \ untagged :
      (\A d \in HitsOf(answer[i]) : \E c \in HitsOf(m) : Dominates(c, d))
        => \E j \in 1 .. i - 1 : answer[j] = m

AsGood(m, n) == \A d \in HitsOf(n) : \E c \in HitsOf(m) : ~Beats(d, c)

\* A memory that was found and has the tags is only left out for as many answers, or
\* for Breadth times as many memories with or without the tags, that are as good.
\* Chunks that are gone and further chunks of one memory push no one out here.
OmissionsAreEarned ==
  Answered =>
    \A m \in Candidates \ (untagged \cup Range(answer)) :
      \/ Len(answer) = topK /\ \A i \in DOMAIN answer : AsGood(answer[i], m)
      \/ /\ mode # "similar"
         /\ Cardinality({n \in Candidates \ {m} : AsGood(n, m)}) >= Breadth * topK

\* Places in a list that are neither of the source nor name a further memory.
Wasted(list) ==
  LET others == {i \in DOMAIN list : owner[list[i]] # source \/ source = Gone}
  IN  Cardinality(others)
        - Cardinality({owner[list[i]] : i \in others} \cap Memories)

\* An answer that no tag was asked of is shorter than asked for only if it has every
\* memory the indexes could find, or if one of them had more to give and more than
\* Breadth - 1 places for each answer went to chunks that are gone or of a memory that
\* was there already.  The source's own chunks do not count against Similar.
ShortAnswersAreWasted ==
  Answered /\ untagged = {} /\ Len(answer) < topK =>
    \/ \A c \in Range(near) \cup Range(matching) : owner[c] \in Range(answer) \cup {Gone, source}
    \/ Len(semantic) < Len(near) /\ Wasted(semantic) > (Breadth - 1) * topK
    \/ Len(keyword) < Len(matching) /\ Wasted(keyword) > (Breadth - 1) * topK
=============================================================================
