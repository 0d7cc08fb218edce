---------------------------- MODULE MemorySearch ----------------------------
(***************************************************************************)
(* The read side of the memory use case (usecase/memory/search.go) running *)
(* beside the write side of MemoryService.  A search asks the indexes,     *)
(* then maps every hit to the memory whose chunk file holds it, then reads *)
(* every memory found: three passes over state that the writers change     *)
(* meanwhile, some of which may not be readable.  Scores and their order   *)
(* are left out: the keyword index returns all it matches, as it does      *)
(* while the matches are within the 3*topK that the service asks for, and  *)
(* the vector index all it has or, when the library under it panics,       *)
(* nothing.                                                                *)
(***************************************************************************)
EXTENDS MemoryService

CONSTANTS Searches   \* searches that are under way at once, one after the other without end

VARIABLES
  spc,     \* next call of each search
  mode,    \* effective search mode
  query,   \* text asked for; the keyword index matches the chunks of that text
  source,  \* Similar: the memory to compare with; <<>> for Search
  hits,    \* chunks still to be mapped to a memory
  found,   \* memories still to be read
  result,  \* memories returned, with the content read
  stable,  \* history: memories untouched and coherent since the search began
  blind,   \* history: the vector index gave nothing, or was not asked for want of a file
  missed   \* history: memories of which the search could not read a file

noted == <<stable, blind, missed>>
svars == <<spc, mode, query, source, hits, found, result, noted>>

Modes == {"hybrid", "semantic", "keyword"}

\* The keyword index is always there, the vector index needs an embedder.
EffectiveMode(requested) == IF Embedding THEN requested ELSE "keyword"

SInit ==
  /\ spc = [s \in Searches |-> "idle"]
  /\ mode = [s \in Searches |-> "hybrid"]
  /\ query = [s \in Searches |-> NoContent]
  /\ source = [s \in Searches |-> <<>>]
  /\ hits = [s \in Searches |-> {}]
  /\ found = [s \in Searches |-> {}]
  /\ result = [s \in Searches |-> {}]
  /\ stable = [s \in Searches |-> {}]
  /\ blind = [s \in Searches |-> FALSE]
  /\ missed = [s \in Searches |-> {}]

Stable == {m \in Memories \ (overlap \cup lost \cup damaged) : ~Busy(m)}

SGoTo(s, from, next) == spc[s] = from /\ spc' = [spc EXCEPT ![s] = next]

\* Nothing is left of a search that is over.
Over(S) ==
  /\ spc'    = [s \in Searches |-> IF s \in S THEN "idle" ELSE spc[s]]
  /\ mode'   = [s \in Searches |-> IF s \in S THEN "hybrid" ELSE mode[s]]
  /\ query'  = [s \in Searches |-> IF s \in S THEN NoContent ELSE query[s]]
  /\ source' = [s \in Searches |-> IF s \in S THEN <<>> ELSE source[s]]
  /\ hits'   = [s \in Searches |-> IF s \in S THEN {} ELSE hits[s]]
  /\ found'  = [s \in Searches |-> IF s \in S THEN {} ELSE found[s]]
  /\ result' = [s \in Searches |-> IF s \in S THEN {} ELSE result[s]]
  /\ stable' = [s \in Searches |-> IF s \in S THEN {} ELSE stable[s]]
  /\ blind'  = [s \in Searches |-> IF s \in S THEN FALSE ELSE blind[s]]
  /\ missed' = [s \in Searches |-> IF s \in S THEN {} ELSE missed[s]]

Search(s, q, requested) ==
  LET m == EffectiveMode(requested) IN
  /\ SGoTo(s, "idle", IF m = "keyword" THEN "keyword" ELSE "semantic")
  /\ mode' = [mode EXCEPT ![s] = m]
  /\ query' = [query EXCEPT ![s] = q]
  /\ stable' = [stable EXCEPT ![s] = Stable]
  /\ UNCHANGED <<source, hits, found, result, blind, missed>>

\* Similar reads the memory and then its chunks, and answers at once when there is
\* nothing to compare: no record is an error, no vector an empty answer.
Similar(s, m) ==
  \/ spc[s] = "idle" /\ record[m] = NoContent /\ UNCHANGED svars
  \/ /\ record[m] # NoContent
     /\ SGoTo(s, "idle", "centroid")
     /\ mode' = [mode EXCEPT ![s] = "semantic"]
     /\ source' = [source EXCEPT ![s] = <<m>>]
     /\ stable' = [stable EXCEPT ![s] = Stable]
     /\ UNCHANGED <<query, hits, found, result, blind, missed>>

Centroid(s) ==
  /\ SGoTo(s, "centroid",
           IF ~Embedding \/ chunkFile[source[s][1]] = {} THEN "fetch" ELSE "semantic")
  /\ UNCHANGED <<mode, query, source, hits, found, result, noted>>

Resolution(h) == IF h = {} THEN "fetch" ELSE "resolve"

\* The vector index has a nearest neighbour for any query, but the library may panic on
\* a graph from which nodes were deleted; that is recovered from, and gives no hits and
\* no error.
Semantic(s) ==
  LET all == {e[2] : e \in {f \in index : f[1] = "vector"}} IN
  \E h \in {all, {}} :
    /\ SGoTo(s, "semantic", IF mode[s] = "hybrid" THEN "keyword" ELSE Resolution(h))
    /\ hits' = [hits EXCEPT ![s] = h]
    /\ blind' = [blind EXCEPT ![s] = h # all]
    /\ UNCHANGED <<mode, query, source, found, result, stable, missed>>

Keyword(s) ==
  LET h == hits[s] \cup
           {e[2] : e \in {f \in index : f[1] = "keyword" /\ text[f[2][1]] = query[s]}} IN
  /\ SGoTo(s, "keyword", Resolution(h))
  /\ hits' = [hits EXCEPT ![s] = h]
  /\ UNCHANGED <<mode, query, source, found, result, noted>>

\* Mutant of Resolve: Similar does not leave out the memory it starts from.
ResolveAll(s) ==
  \E c \in hits[s] :
    /\ SGoTo(s, "resolve", Resolution(hits[s] \ {c}))
    /\ hits' = [hits EXCEPT ![s] = @ \ {c}]
    /\ found' = [found EXCEPT ![s] = @ \cup {m \in Memories : c \in chunkFile[m]}]
    /\ UNCHANGED <<mode, query, source, result, noted>>

\* GetChunkByID looks through the chunk files; a hit that is in none is skipped,
\* and so is, for Similar, one of the source itself.
Resolve(s) ==
  \E c \in hits[s] :
    /\ SGoTo(s, "resolve", Resolution(hits[s] \ {c}))
    /\ hits' = [hits EXCEPT ![s] = @ \ {c}]
    /\ found' = [found EXCEPT ![s] = @ \cup {m \in Memories : c \in chunkFile[m] /\ <<m>> # source[s]}]
    /\ UNCHANGED <<mode, query, source, result, noted>>

\* Mutant of Fetch: the error of a memory that is gone is not looked at.
FetchBlindly(s) ==
  /\ \E m \in found[s] :
       /\ found' = [found EXCEPT ![s] = @ \ {m}]
       /\ result' = [result EXCEPT ![s] = @ \cup {<<m, record[m]>>}]
  /\ SGoTo(s, "fetch", "fetch")
  /\ UNCHANGED <<mode, query, source, hits, noted>>

\* A memory that is no longer there is skipped.
Fetch(s) ==
  /\ \E m \in found[s] :
       /\ found' = [found EXCEPT ![s] = @ \ {m}]
       /\ result' = [result EXCEPT ![s] =
                       @ \cup (IF record[m] = NoContent THEN {} ELSE {<<m, record[m]>>})]
  /\ SGoTo(s, "fetch", "fetch")
  /\ UNCHANGED <<mode, query, source, hits, noted>>

\* A file cannot be read, and the search goes on without an error: Similar answers
\* empty without the chunks of its source, a hit whose chunk file cannot be read or
\* listed is skipped, and so is a memory whose record cannot be read.
CentroidUnread(s) ==
  /\ SGoTo(s, "centroid", "fetch")
  /\ blind' = [blind EXCEPT ![s] = TRUE]
  /\ UNCHANGED <<mode, query, source, hits, found, result, stable, missed>>

ResolveUnread(s) ==
  \E c \in hits[s] :
    /\ SGoTo(s, "resolve", Resolution(hits[s] \ {c}))
    /\ hits' = [hits EXCEPT ![s] = @ \ {c}]
    /\ missed' = [missed EXCEPT ![s] = @ \cup {m \in Memories : c \in chunkFile[m]}]
    /\ UNCHANGED <<mode, query, source, found, result, stable, blind>>

FetchUnread(s) ==
  /\ \E m \in found[s] :
       /\ found' = [found EXCEPT ![s] = @ \ {m}]
       /\ missed' = [missed EXCEPT ![s] = @ \cup {m}]
  /\ SGoTo(s, "fetch", "fetch")
  /\ UNCHANGED <<mode, query, source, hits, result, stable, blind>>

ReadFails(s) ==
  /\ Fault
  /\ CentroidUnread(s) \/ ResolveUnread(s) \/ FetchUnread(s)
  /\ UNCHANGED <<files, index, pc, locals, todo, history>>

\* The client gets the result.
Answer(s) == spc[s] = "fetch" /\ found[s] = {} /\ Over({s})

\* The embedder or an index fails, and the search with it.
SearchFails(s) ==
  /\ Fault
  /\ spc[s] \in {"semantic", "keyword"}
  /\ Over({s})
  /\ UNCHANGED <<files, index, pc, locals, todo, history>>

SearchStep(s) ==
  \/ \E q \in Contents, m \in Modes : Search(s, q, m)
  \/ \E m \in Memories : Similar(s, m)
  \/ Centroid(s) \/ Semantic(s) \/ Keyword(s) \/ Resolve(s) \/ Fetch(s) \/ Answer(s)

\* A writer takes a step: what it works on is stable for no search any longer.
WriteStep ==
  /\ \E r \in Requests : Request(r)
  /\ stable' = [s \in Searches |-> {m \in stable[s] : ~Busy(m)'}]
  /\ UNCHANGED <<spc, mode, query, source, hits, found, result, blind, missed>>

Restart == Crash /\ Over(Searches)

SNext ==
  \/ (\E s \in Searches : SearchStep(s)) /\ UNCHANGED vars
  \/ \E s \in Searches : SearchFails(s) \/ ReadFails(s)
  \/ WriteStep
  \/ Restart

SSpec == Init /\ SInit /\ [][SNext]_<<vars, svars>>

-----------------------------------------------------------------------------
STypeOK ==
  /\ TypeOK
  /\ spc \in [Searches -> {"idle", "centroid", "semantic", "keyword", "resolve",
                           "fetch"}]
  /\ mode \in [Searches -> Modes]
  /\ query \in [Searches -> Contents \cup {NoContent}]
  /\ source \in [Searches -> {<<>>} \cup {<<m>> : m \in Memories}]
  /\ hits \in [Searches -> SUBSET ChunkIds]
  /\ found \in [Searches -> SUBSET Memories]
  /\ result \in [Searches -> SUBSET (Memories \X Contents)]
  /\ stable \in [Searches -> SUBSET Memories]
  /\ blind \in [Searches -> BOOLEAN]
  /\ missed \in [Searches -> SUBSET Memories]

\* What a search over a store at rest returns about m; one whose vector index gave
\* nothing, what the keyword index alone does, if it asks that at all.
Matches(s, m) ==
  /\ record[m] # NoContent /\ chunkFile[m] # {} /\ <<m>> # source[s]
  /\ mode[s] = "keyword" \/ blind[s] => mode[s] # "semantic" /\ record[m] = query[s]

\* Similar compares with a source that is itself at rest and has vectors.
Comparable(s) ==
  \/ source[s] = <<>>
  \/ Embedding /\ source[s][1] \in stable[s] /\ chunkFile[source[s][1]] # {}

\* About the memories that no request touches while it runs, a search that ends answers
\* what it would over a store at rest, whatever is being written and deleted around
\* them: nothing else than their text as it is, and every one that matches, but for
\* those of which it could not read a file.
SearchIsExact ==
  [][\A s \in Searches : Answer(s) =>
       \A m \in stable[s] : LET got == {p \in result[s] : p[1] = m} IN
         /\ got \subseteq IF Matches(s, m) THEN {<<m, record[m]>>} ELSE {}
         /\ Comparable(s) /\ Matches(s, m) /\ m \notin missed[s] => got # {}
    ]_<<vars, svars>>

-----------------------------------------------------------------------------
(* The inductive invariant, over that of MemoryService.                     *)

\* What each stage of a search has and has not got yet.
Stages ==
  \A s \in Searches :
    /\ source[s] # <<>> => mode[s] = "semantic"
    /\ spc[s] = "idle" => source[s] = <<>> /\ stable[s] = {}
    /\ spc[s] = "centroid" => source[s] # <<>>
    /\ spc[s] = "semantic" => Embedding /\ mode[s] # "keyword"
    /\ spc[s] = "keyword" => mode[s] # "semantic" /\ (mode[s] = "keyword" => hits[s] = {})
    /\ spc[s] \in {"idle", "centroid", "semantic"} => hits[s] = {} /\ ~blind[s]
    /\ blind[s] => /\ mode[s] # "keyword"
                   /\ spc[s] = "keyword" => hits[s] = {}
                   /\ mode[s] = "semantic" => spc[s] = "fetch" /\ found[s] = {} /\ result[s] = {}
    /\ spc[s] \notin {"resolve", "fetch"} => found[s] = {} /\ missed[s] = {}
    /\ spc[s] # "fetch" => result[s] = {}
    /\ spc[s] = "fetch" => hits[s] = {}

\* A memory that is stable for some search is at rest.
Stability ==
  \A s \in Searches : \A m \in stable[s] : m \notin overlap \cup lost \cup damaged /\ ~Busy(m)

\* What a search has found of a memory that is stable for it.
Known(s, m) ==
  /\ spc[s] = "keyword" /\ mode[s] = "hybrid" /\ ~blind[s] => chunkFile[m] \subseteq hits[s]
  /\ spc[s] \in {"resolve", "fetch"} /\ Comparable(s) /\ Matches(s, m) =>
       \/ chunkFile[m] \cap hits[s] # {} \/ m \in found[s] \/ <<m, record[m]>> \in result[s]
       \/ m \in missed[s]
  /\ spc[s] \in {"resolve", "fetch"} =>
       /\ chunkFile[m] \cap hits[s] # {} /\ <<m>> # source[s] => Matches(s, m)
       /\ m \in found[s] => Matches(s, m)
       /\ \A p \in result[s] : p[1] = m => p[2] = record[m] /\ Matches(s, m)

SIInv ==
  /\ IInv /\ STypeOK /\ Stages /\ Stability
  /\ \A s \in Searches : \A m \in stable[s] : Known(s, m)
=============================================================================
