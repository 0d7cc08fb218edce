---------------------------- MODULE KeywordIndex ----------------------------
(***************************************************************************)
(* The statistics of a BM25 index (infrastructure/index/bm25.go).  Every   *)
(* method runs under the mutex of the index, so each is one step.  The     *)
(* index keeps, beside the tokens of each chunk, three running totals that *)
(* Search divides by and skips on: the number of chunks, the sum of their  *)
(* lengths, and in how many of them each term occurs.                      *)
(***************************************************************************)
EXTENDS Integers, FiniteSets, Sequences, Functions

CONSTANTS
  ChunkIDs,  \* chunk identifiers
  Terms,     \* lower-case words
  Texts      \* token sequences that tokenize returns

ASSUME TextAssumption == Texts \subseteq Seq(Terms)

VARIABLES
  index,   \* the BM25Index in memory
  saved    \* the bm25State in bm25.gob; an absent file reads as an empty index

ivars == <<index, saved>>

\* docs, df, n, totalLength; a term that is not in the df map counts 0.
NewBM25Index ==
  [docs |-> <<>>, df |-> [t \in Terms |-> 0], n |-> 0, totalLength |-> 0]

IInit == index = NewBM25Index /\ saved = NewBM25Index

Has(x, c) == c \in DOMAIN x.docs

\* Mutant of Removed: a term is counted down as often as the chunk has it.
RemovedByToken(x, c) ==
  LET tokens == x.docs[c]
      Times(t) == Cardinality({i \in DOMAIN tokens : tokens[i] = t})
  IN
  [docs        |-> [d \in DOMAIN x.docs \ {c} |-> x.docs[d]],
   df          |-> [t \in Terms |-> IF x.df[t] <= Times(t) THEN 0 ELSE x.df[t] - Times(t)],
   n           |-> x.n - 1,
   totalLength |-> x.totalLength - Len(tokens)]

\* removeDocLocked; a count that reaches zero is dropped from the map.
Removed(x, c) ==
  LET tokens == x.docs[c] IN
  [docs        |-> [d \in DOMAIN x.docs \ {c} |-> x.docs[d]],
   df          |-> [t \in Terms |->
                     IF t \notin Range(tokens) THEN x.df[t]
                     ELSE IF x.df[t] <= 1 THEN 0 ELSE x.df[t] - 1],
   n           |-> x.n - 1,
   totalLength |-> x.totalLength - Len(tokens)]

Entered(x, c, tokens) ==
  [docs        |-> [d \in DOMAIN x.docs \cup {c} |-> IF d = c THEN tokens ELSE x.docs[d]],
   df          |-> [t \in Terms |-> IF t \in Range(tokens) THEN x.df[t] + 1 ELSE x.df[t]],
   n           |-> x.n + 1,
   totalLength |-> x.totalLength + Len(tokens)]

Added(x, c, tokens) == Entered(IF Has(x, c) THEN Removed(x, c) ELSE x, c, tokens)

Add(c, tokens) ==
  /\ index' = Added(index, c, tokens)
  /\ UNCHANGED saved

\* A chunk that is not there is no error and changes nothing.
Delete(c) ==
  /\ Has(index, c)
  /\ index' = Removed(index, c)
  /\ UNCHANGED saved

\* GobEncode of the whole index, and the write of it.
Save == saved' = index /\ UNCHANGED index

\* The next process decodes what was written last.
Restart == index' = saved /\ UNCHANGED saved

INext ==
  \/ \E c \in ChunkIDs : Delete(c) \/ \E tokens \in Texts : Add(c, tokens)
  \/ Save
  \/ Restart

ISpec == IInit /\ [][INext]_ivars

-----------------------------------------------------------------------------
(* Search, without a limit.                                                *)

\* The chunks that get a score: nothing is looked for in an index of no chunks, nor
\* a term that no chunk is counted for.
Hits(x, query) ==
  IF x.n = 0 THEN {}
  ELSE {c \in DOMAIN x.docs :
          \E t \in Range(query) : x.df[t] # 0 /\ t \in Range(x.docs[c])}

-----------------------------------------------------------------------------
\* The occurrences of words in the chunks of an index, and the chunks that have a word.
Places(x)    == UNION {{c} \X DOMAIN x.docs[c] : c \in DOMAIN x.docs}
Having(x, t) == {c \in DOMAIN x.docs : t \in Range(x.docs[c])}

\* The running totals are those of the chunks that are there, whatever has been
\* added, replaced and deleted, and whichever snapshot a restart went back to: so
\* avgdl is the mean length, and no inverse document frequency is negative.
StatisticsAreExact ==
  /\ DOMAIN index.docs \subseteq ChunkIDs
  /\ index.n = Cardinality(DOMAIN index.docs)
  /\ index.totalLength = Cardinality(Places(index))
  /\ \A t \in Terms : index.df[t] = Cardinality(Having(index, t))

\* The shortcuts of Search lose nothing: every chunk with a word of the query is hit.
SearchFindsEveryMatch ==
  \A query \in Texts :
    Hits(index, query) =
      {c \in DOMAIN index.docs : Range(query) \cap Range(index.docs[c]) # {}}

-----------------------------------------------------------------------------
(* The inductive invariant: the index in memory and the one on disk are    *)
(* exact.                                                                  *)

Index == [docs : UNION {[S -> Texts] : S \in SUBSET ChunkIDs}, df : [Terms -> Nat],
          n : Nat, totalLength : Nat]

Exact(x) ==
  /\ IsFiniteSet(DOMAIN x.docs) /\ x.n = Cardinality(DOMAIN x.docs)
  /\ IsFiniteSet(Places(x)) /\ x.totalLength = Cardinality(Places(x))
  /\ \A t \in Terms : x.df[t] = Cardinality(Having(x, t))

IndexInv == {index, saved} \subseteq Index /\ Exact(index) /\ Exact(saved)
=============================================================================
