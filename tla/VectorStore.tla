---------------------------- MODULE VectorStore ----------------------------
(***************************************************************************)
(* The vector index of one store: infrastructure/index/hnsw_store.go over  *)
(* hnsw.go.  It is loaded and changed as the keyword index is, but kept in *)
(* two files, hnsw/ids.gob and then hnsw/graph.bin, both written under the *)
(* READ lock of the index: no change falls into a save, but two saves may  *)
(* run at once, each with a file position of its own in the same files.    *)
(*                                                                         *)
(* The graph is github.com/coder/hnsw: a set of nodes, one per key, which  *)
(* Export writes one after the other in the order of a Go map.             *)
(***************************************************************************)
EXTENDS Naturals, FiniteSets

CONSTANTS
  Requests,   \* one-shot calls of Upsert, Delete and Search
  Chunks,
  NoIndex,    \* nothing under the store's name in the indexes map
  Hole,       \* a part of graph.bin that has not been written
  KeySpace,   \* number of node keys: 2^32 in the code, a uint32
  MaxFaults   \* bound on failing calls and crashes

ASSUME NoIndexAssumption == NoIndex \notin Requests
ASSUME HoleAssumption == Hole \notin Nat \X Chunks
ASSUME KeySpaceAssumption == KeySpace \in Nat \ {0}
ASSUME FaultAssumption == MaxFaults \in Nat

VARIABLES
  heap,     \* heap[o]: the HNSWIndex that request o loaded
  cached,   \* indexes[store]
  ids,      \* hnsw/ids.gob: the maps of the index as last saved
  graphBin, \* hnsw/graph.bin: its nodes by position
  pc,       \* next step of each request
  call,     \* call it serves, with the chunk it upserts or deletes
  idx,      \* index it has got from getOrLoad
  left,     \* nodes it has still to export
  minted,   \* keys given out so far
  faults,   \* failing calls and crashes so far
  alone,    \* history: the writer that has had the index to itself since it changed it
  settled   \* history: the last change was saved by such a writer

store == <<heap, cached>>
files == <<ids, graphBin>>
ghost == <<alone, settled>>
vars  == <<store, files, pc, call, idx, left, minted, faults, ghost>>

Calls == {<<"search">>} \cup ({"upsert", "delete"} \X Chunks)

Keys  == 0 .. KeySpace - 1
Nodes == Keys \X Chunks      \* key of a node, chunk whose vector it holds

\* graph, keyToChunk and chunkToKey, nextKey.
Empty == [graph |-> {}, keyToChunk |-> {}, chunkToKey |-> {}, nextKey |-> 0]

Holding == {"writeIds", "createGraph", "export"}    \* inside Save, under the read lock
Writers == {r \in Requests : pc[r] \in {"save"} \cup Holding}

Absent == [state |-> "absent", nodes |-> <<>>, maps |-> Empty]
Torn   == [Absent EXCEPT !.state = "torn"]

Init ==
  /\ heap = [o \in Requests |-> Empty]
  /\ cached = NoIndex
  /\ ids = Absent /\ graphBin = Absent
  /\ pc = [r \in Requests |-> "idle"]
  /\ call = [r \in Requests |-> <<>>]
  /\ idx = [r \in Requests |-> NoIndex]
  /\ left = [r \in Requests |-> {}]
  /\ minted = 0 /\ faults = 0
  /\ alone = {} /\ settled = TRUE

GoTo(r, from, to) == pc[r] = from /\ pc' = [pc EXCEPT ![r] = to]

Forget(r) ==
  /\ call' = [call EXCEPT ![r] = <<>>]
  /\ idx' = [idx EXCEPT ![r] = NoIndex]
  /\ left' = [left EXCEPT ![r] = {}]

Fault == faults < MaxFaults /\ faults' = faults + 1

-----------------------------------------------------------------------------
(* getOrLoad.                                                              *)

Lookup(r, c) ==
  /\ GoTo(r, "idle", IF cached = NoIndex THEN "load" ELSE "apply")
  /\ call' = [call EXCEPT ![r] = c]
  /\ idx' = [idx EXCEPT ![r] = cached]
  /\ UNCHANGED <<store, files, left, minted, faults, ghost>>

Unreadable == ids.state = "torn" \/ (ids.state = "whole" /\ graphBin.state # "whole")

\* Mutant of Loaded: the next key is not kept but counted.
LoadedCounting ==
  IF ids.state = "absent" THEN Empty
  ELSE [ids.maps EXCEPT !.graph = {graphBin.nodes[i] : i \in DOMAIN graphBin.nodes},
                        !.nextKey = Cardinality(ids.maps.keyToChunk)]

\* HNSWIndex.Load: without ids.gob the index is fresh, whatever graph.bin holds.
Loaded ==
  IF ids.state = "absent" THEN Empty
  ELSE [ids.maps EXCEPT !.graph = {graphBin.nodes[i] : i \in DOMAIN graphBin.nodes}]

Load(r) ==
  /\ GoTo(r, "load", "apply")
  /\ \/ cached # NoIndex /\ idx' = [idx EXCEPT ![r] = cached] /\ UNCHANGED store
     \/ /\ cached = NoIndex /\ ~Unreadable
        /\ heap' = [heap EXCEPT ![r] = Loaded]
        /\ cached' = r
        /\ idx' = [idx EXCEPT ![r] = r]
  /\ UNCHANGED <<files, call, left, minted, faults, ghost>>

LoadFails(r) ==
  /\ cached = NoIndex
  /\ GoTo(r, "load", "failed")
  /\ \/ Unreadable /\ UNCHANGED faults
     \/ Fault
  /\ Forget(r)
  /\ UNCHANGED <<store, files, minted, ghost>>

-----------------------------------------------------------------------------
(* Upsert, Delete and Search of the index.                                 *)

\* Delete: what chunkToKey says of c goes from the graph and from both maps.
Without(x, c) ==
  LET keys == {p[2] : p \in {q \in x.chunkToKey : q[1] = c}} IN
  [graph      |-> {n \in x.graph : n[1] \notin keys},
   keyToChunk |-> {p \in x.keyToChunk : p[1] \notin keys},
   chunkToKey |-> {p \in x.chunkToKey : p[1] # c},
   nextKey    |-> x.nextKey]

\* Mutant of With: the key is not cut to its width.
WithWide(x, c) ==
  LET y == Without(x, c)
      k == x.nextKey
  IN  [graph      |-> {n \in y.graph : n[1] # k} \cup {<<k, c>>},
       keyToChunk |-> {p \in y.keyToChunk : p[1] # k} \cup {<<k, c>>},
       chunkToKey |-> y.chunkToKey \cup {<<c, k>>},
       nextKey    |-> k + 1]

\* Upsert: a new node under the next key, which takes the place of any that has it.
With(x, c) ==
  LET y == Without(x, c)
      k == x.nextKey
  IN  [graph      |-> {n \in y.graph : n[1] # k} \cup {<<k, c>>},
       keyToChunk |-> {p \in y.keyToChunk : p[1] # k} \cup {<<k, c>>},
       chunkToKey |-> y.chunkToKey \cup {<<c, k>>},
       nextKey    |-> (k + 1) % KeySpace]

\* Under the write lock: no save is going on.
Apply(r) ==
  /\ call[r] # <<"search">>
  /\ \A s \in Requests : pc[s] \notin Holding
  /\ GoTo(r, "apply", "save")
  /\ heap' = [heap EXCEPT ![idx[r]] =
                IF call[r][1] = "upsert" THEN With(@, call[r][2]) ELSE Without(@, call[r][2])]
  /\ minted' = IF call[r][1] = "upsert" THEN minted + 1 ELSE minted
  /\ alone' = IF Writers = {} THEN {r} ELSE {}
  /\ settled' = FALSE
  /\ UNCHANGED <<cached, files, call, idx, left, faults>>

\* The chunks that a search can answer with: all of them when its topK is large enough,
\* or none, when the library panics after a deletion and the search recovers from it
\* (MemorySearch has both answers).
Known(x) == {p[2] : p \in {q \in x.keyToChunk : \E n \in x.graph : n[1] = q[1]}}

\* Whatever it answers, a search changes nothing.
Search(r) ==
  /\ call[r] = <<"search">>
  /\ GoTo(r, "apply", "done")
  /\ Forget(r)
  /\ UNCHANGED <<store, files, minted, faults, ghost>>

-----------------------------------------------------------------------------
(* Save.                                                                   *)

\* The read lock is taken and os.Create empties ids.gob.
CreateIds(r) ==
  /\ GoTo(r, "save", "writeIds")
  /\ ids' = Torn
  /\ UNCHANGED <<store, graphBin, call, idx, left, minted, faults, ghost>>

WriteIds(r) ==
  /\ GoTo(r, "writeIds", "createGraph")
  /\ ids' = [Absent EXCEPT !.state = "whole", !.maps = [heap[idx[r]] EXCEPT !.graph = {}]]
  /\ UNCHANGED <<store, graphBin, call, idx, left, minted, faults, ghost>>

Contents(nodes) ==
  [Absent EXCEPT !.state = IF \E i \in DOMAIN nodes : nodes[i] = Hole THEN "torn" ELSE "whole",
                 !.nodes = nodes]

Return(r) ==
  /\ settled' \in BOOLEAN /\ (settled' <=> r \in alone)
  /\ Forget(r)

\* os.Create empties graph.bin and Export begins, with the number of nodes.
CreateGraph(r) ==
  LET nodes == heap[idx[r]].graph IN
  /\ GoTo(r, "createGraph", IF nodes = {} THEN "done" ELSE "export")
  /\ graphBin' = Contents([i \in 1 .. Cardinality(nodes) |-> Hole])
  /\ IF nodes = {} THEN Return(r)
     ELSE left' = [left EXCEPT ![r] = nodes] /\ UNCHANGED <<call, idx, settled>>
  /\ UNCHANGED <<store, ids, minted, faults, alone>>

\* Mutant of ExportNode: Export stops one node early.
ExportShort(r) ==
  \E n \in left[r] :
    LET place == Cardinality(heap[idx[r]].graph) - Cardinality(left[r]) + 1
        last  == Cardinality(left[r]) <= 2
    IN
    /\ GoTo(r, "export", IF last THEN "done" ELSE "export")
    /\ graphBin' = Contents([graphBin.nodes EXCEPT ![place] = n])
    /\ IF last THEN Return(r)
       ELSE left' = [left EXCEPT ![r] = @ \ {n}] /\ UNCHANGED <<call, idx, settled>>
    /\ UNCHANGED <<store, ids, minted, faults, alone>>

\* Export writes its next node where its own position in the file is.
ExportNode(r) ==
  \E n \in left[r] :
    LET place == Cardinality(heap[idx[r]].graph) - Cardinality(left[r]) + 1
        last  == left[r] = {n}
    IN
    /\ GoTo(r, "export", IF last THEN "done" ELSE "export")
    /\ graphBin' = Contents([graphBin.nodes EXCEPT ![place] = n])
    /\ IF last THEN Return(r)
       ELSE left' = [left EXCEPT ![r] = @ \ {n}] /\ UNCHANGED <<call, idx, settled>>
    /\ UNCHANGED <<store, ids, minted, faults, alone>>

SaveFails(r) ==
  /\ Fault
  /\ r \in Writers
  /\ pc' = [pc EXCEPT ![r] = "failed"]
  /\ Forget(r)
  /\ UNCHANGED <<store, files, minted, ghost>>

\* The process dies: the files stay as they are.
Crash ==
  /\ Fault
  /\ cached' = NoIndex
  /\ pc' = [r \in Requests |-> IF pc[r] \in {"idle", "done", "failed"} THEN pc[r] ELSE "failed"]
  /\ heap' = [o \in Requests |-> Empty]
  /\ call' = [r \in Requests |-> <<>>]
  /\ idx' = [r \in Requests |-> NoIndex]
  /\ left' = [r \in Requests |-> {}]
  /\ UNCHANGED <<files, minted, ghost>>

Request(r) ==
  \/ \E c \in Calls : Lookup(r, c)
  \/ Load(r) \/ LoadFails(r) \/ Apply(r) \/ Search(r)
  \/ CreateIds(r) \/ WriteIds(r) \/ CreateGraph(r) \/ ExportNode(r) \/ SaveFails(r)

Next == (\E r \in Requests : Request(r)) \/ Crash

Spec == Init /\ [][Next]_vars

-----------------------------------------------------------------------------
Index == [graph : SUBSET Nodes, keyToChunk : SUBSET Nodes,
          chunkToKey : SUBSET (Chunks \X Keys), nextKey : Keys]

TypeOK ==
  /\ heap \in [Requests -> Index]
  /\ cached \in Requests \cup {NoIndex}
  /\ ids.state \in {"absent", "torn", "whole"} /\ ids.maps \in Index
  /\ graphBin.state \in {"absent", "torn", "whole"}
  /\ \A i \in DOMAIN graphBin.nodes : graphBin.nodes[i] \in Nodes \cup {Hole}
  /\ pc \in [Requests -> {"idle", "load", "apply", "save", "done", "failed"} \cup Holding]
  /\ call \in [Requests -> Calls \cup {<<>>}]
  /\ idx \in [Requests -> Requests \cup {NoIndex}]
  /\ left \in [Requests -> SUBSET Nodes]

\* The index that a request works on, now or after loading the files.
Current == IF cached # NoIndex THEN heap[cached] ELSE IF Unreadable THEN Empty ELSE Loaded

\* As long as no more keys are given out than there are, the maps are inverse to one
\* another, across any restart: chunkToKey never leads Delete or Upsert to the node
\* of another chunk.
MapsAreInverse ==
  minted <= KeySpace =>
    /\ Current.chunkToKey = {<<p[2], p[1]>> : p \in Current.keyToChunk}
    /\ \A p, q \in Current.keyToChunk : p[1] = q[1] \/ p[2] = q[2] => p = q

\* A search that reaches a node answers with the chunk whose vector the node holds,
\* even when a crash or two saves at once left maps and graph of different ages.
HitsAreTheirOwn ==
  minted <= KeySpace =>
    \A n \in Current.graph, p \in Current.keyToChunk : n[1] = p[1] => n = p

Entries == Known(Current)

\* Every caller sees one set of entries, and a change saved by a writer that no other
\* overlapped outlives any crash.
Promise == INSTANCE DurableIndex WITH entries <- Entries

ImplementsPromise == Promise!Spec

-----------------------------------------------------------------------------
(* The inductive invariant behind MapsAreInverse and HitsAreTheirOwn.       *)

\* A request that works on an index works on the cached one, and knows what to do.
Engaged ==
  /\ \A r \in Requests : pc[r] \in {"apply", "save"} \cup Holding =>
       idx[r] = cached /\ cached # NoIndex
  /\ \A r \in Requests : pc[r] \in {"load", "apply"} => call[r] \in Calls
  /\ \A r \in Requests : pc[r] = "export" => left[r] \subseteq heap[cached].graph

\* graph.bin comes after ids.gob, no change falls between the two, and a whole
\* graph.bin has no hole.
FilesInOrder ==
  /\ ids.state = "absent" => graphBin.nodes = <<>> /\ \A r \in Requests : pc[r] \notin Holding
  /\ \A r \in Requests : pc[r] \in {"createGraph", "export"} /\ ids.state = "whole" =>
       ids.maps = [heap[cached] EXCEPT !.graph = {}]
  /\ graphBin.state = "whole" => \A i \in DOMAIN graphBin.nodes : graphBin.nodes[i] # Hole

Paired(x) ==
  /\ \A c \in Chunks, k \in Keys : <<c, k>> \in x.chunkToKey <=> <<k, c>> \in x.keyToChunk
  /\ \A p, q \in x.keyToChunk : p[1] = q[1] \/ p[2] = q[2] => p = q

\* What is kept of keys: in the cached index, and in the files, whatever their age.
PairsOnDisk ==
  ({graphBin.nodes[i] : i \in DOMAIN graphBin.nodes} \ {Hole})
    \cup (IF ids.state = "whole" THEN ids.maps.keyToChunk ELSE {})
PairsInHeap == IF cached = NoIndex THEN {} ELSE heap[cached].graph \cup heap[cached].keyToChunk
Pairs       == PairsInHeap \cup PairsOnDisk

\* Whatever is kept of a key is of one chunk.
OneChunkPerKey ==
  minted <= KeySpace =>
    /\ cached # NoIndex => Paired(heap[cached])
    /\ ids.state = "whole" => Paired(ids.maps)
    /\ \A p, q \in Pairs : p[1] = q[1] => p = q

\* The next key of an index is beyond every key that it, or a restart from its files,
\* could meet.
NextKeyIsFree ==
  minted < KeySpace =>
    /\ cached # NoIndex =>
         heap[cached].nextKey <= minted /\ \A p \in Pairs : p[1] < heap[cached].nextKey
    /\ ids.state = "whole" =>
         ids.maps.nextKey <= minted /\ \A p \in PairsOnDisk : p[1] < ids.maps.nextKey

IInv ==
  /\ TypeOK /\ minted \in Nat
  /\ Engaged /\ FilesInOrder
  /\ OneChunkPerKey /\ NextKeyIsFree

-----------------------------------------------------------------------------
(* What ImplementsPromise needs beside it.                                  *)

\* A writer that has had the index to itself finds its own maps in ids.gob, and the
\* nodes that are not left to export at the front of graph.bin.
Alone ==
  /\ Writers # {} => ~settled
  /\ \A r \in alone \cap Writers :
       /\ Writers = {r}
       /\ pc[r] \in {"createGraph", "export"} => ids.state = "whole"
       /\ pc[r] = "export" =>
            LET g == heap[cached].graph
                N == Cardinality(g)
            IN  /\ left[r] # {}
                /\ graphBin.nodes \in [1 .. N -> Nodes \cup {Hole}]
                /\ g \ left[r] = {graphBin.nodes[i] : i \in 1 .. N - Cardinality(left[r])}

\* What has settled is on disk as it is in memory.
OnDisk == settled => ~Unreadable /\ (cached # NoIndex => heap[cached] = Loaded)

RInv == Alone /\ OnDisk
=============================================================================
