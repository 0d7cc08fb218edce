------------------------------ MODULE MCRanking ------------------------------
(* Four chunks of four memories, of one, or anything between, and of none.    *)
(* Memories are interchangeable: each is given its first chunk after the one  *)
(* before it.  The vector index ranks a first part of the chunks in a fixed   *)
(* order, which stands for any, the keyword index any of them in any order.   *)
EXTENDS Ranking, SequencesExt
CONSTANTS c1, c2, c3, c4, m1, m2, m3, m4

chunk  == <<c1, c2, c3, c4>>
memory == <<m1, m2, m3, m4>>

MCChunks   == Range(chunk)
MCMemories == Range(memory)
MCOwners   ==
  {f \in [MCChunks -> MCMemories \cup {Gone}] :
     \A i \in 1 .. 4, n \in 2 .. 4 :
       f[chunk[i]] = memory[n] => \E j \in 1 .. i - 1 : f[chunk[j]] = memory[n - 1]}
MCSemanticOrders == Prefixes(chunk)
MCKeywordOrders  == UNION {SetToSeqs(S) : S \in SUBSET MCChunks}
=============================================================================
