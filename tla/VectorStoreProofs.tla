-------------------------- MODULE VectorStoreProofs --------------------------
(***************************************************************************)
(* For any number of requests, chunks and keys: as long as no key is given *)
(* out twice the maps of an index are inverse to one another, and a node   *)
(* answers for its own chunk, whatever saves overlapped or died before.    *)
(*                                                                         *)
(* Two files of different ages make this more than a fact about the index: *)
(* OneChunkPerKey extends it to every pair left in either file, and        *)
(* NextKeyIsFree is what the saved next key is for.  With them, and with   *)
(* Alone and OnDisk about the writer that no other overlaps, the store     *)
(* implements DurableIndex.                                                *)
(***************************************************************************)
EXTENDS VectorStore, FiniteSetTheorems, TLAPS

\* Delete leaves an index whose maps are inverse, without anything of the chunk.
LEMMA WithoutInverse ==
  ASSUME NEW x \in Index, NEW c \in Chunks
  PROVE  /\ Without(x, c) \in Index
         /\ Without(x, c).nextKey = x.nextKey
         /\ Without(x, c).graph \subseteq x.graph
         /\ Without(x, c).keyToChunk \subseteq x.keyToChunk
         /\ Paired(x) => /\ Paired(Without(x, c))
                          /\ \A p \in Without(x, c).keyToChunk : p[2] # c
<1> DEFINE y    == Without(x, c)
           keys == {p[2] : p \in {q \in x.chunkToKey : q[1] = c}}
<1>2. /\ y.graph = {n \in x.graph : n[1] \notin keys}
      /\ y.keyToChunk = {p \in x.keyToChunk : p[1] \notin keys}
      /\ y.chunkToKey = {p \in x.chunkToKey : p[1] # c}
      /\ y.nextKey = x.nextKey
  BY DEF Without
<1>3. y \in Index
  BY DEF Index, Without
<1>4. ASSUME Paired(x) PROVE Paired(y) /\ \A p \in y.keyToChunk : p[2] # c
  <2>1. \A k \in Keys : k \in keys <=> <<k, c>> \in x.keyToChunk
    <3>1. \A k \in Keys : k \in keys <=> <<c, k>> \in x.chunkToKey
      <4> HIDE DEF y
      <4>1. ASSUME NEW k \in Keys, <<c, k>> \in x.chunkToKey PROVE k \in keys
        <5>1. <<c, k>> \in {q \in x.chunkToKey : q[1] = c} /\ k = <<c, k>>[2]
          BY <4>1
        <5> QED BY <5>1
      <4>2. ASSUME NEW k \in Keys, k \in keys PROVE <<c, k>> \in x.chunkToKey
        <5>1. PICK q \in x.chunkToKey : q[1] = c /\ k = q[2]
          BY <4>2
        <5>2. q \in Chunks \X Keys
          BY DEF Index
        <5>3. q = <<c, k>>
          BY <5>1, <5>2
        <5> QED BY <5>3
      <4> QED BY <4>1, <4>2
    <3> QED BY <1>4, <3>1 DEF Paired
  <2> HIDE DEF y, keys
  <2>2. \A p \in y.keyToChunk : p[2] # c
    BY <1>2, <2>1 DEF Index, Nodes
  <2>3. \A p, q \in y.keyToChunk : p[1] = q[1] \/ p[2] = q[2] => p = q
    BY <1>2, <1>4 DEF Paired
  <2>4. \A d \in Chunks, k \in Keys : <<k, d>> \in y.keyToChunk <=> d # c /\ <<k, d>> \in x.keyToChunk
    <3> SUFFICES ASSUME NEW d \in Chunks, NEW k \in Keys
                 PROVE  <<k, d>> \in y.keyToChunk <=> d # c /\ <<k, d>> \in x.keyToChunk
      OBVIOUS
    <3>1. <<k, d>> \in y.keyToChunk <=> <<k, d>> \in x.keyToChunk /\ k \notin keys
      BY <1>2
    <3>2. <<k, d>> \in x.keyToChunk /\ <<k, c>> \in x.keyToChunk => d = c
      BY <1>4 DEF Paired
    <3> QED BY <2>1, <3>1, <3>2
  <2>5. \A d \in Chunks, k \in Keys : <<d, k>> \in y.chunkToKey <=> d # c /\ <<d, k>> \in x.chunkToKey
    BY <1>2
  <2>6. \A d \in Chunks, k \in Keys : <<d, k>> \in y.chunkToKey <=> <<k, d>> \in y.keyToChunk
    BY <1>4, <2>4, <2>5 DEF Paired
  <2> QED BY <2>2, <2>3, <2>6 DEF Paired
<1> HIDE DEF y, keys
<1>5. y.graph \subseteq x.graph /\ y.keyToChunk \subseteq x.keyToChunk
  BY <1>2
<1> QED BY <1>2, <1>3, <1>4, <1>5 DEF y

\* Upsert under a key that the maps do not have adds one pair, and nothing else.
LEMMA WithInverse ==
  ASSUME NEW x \in Index, NEW c \in Chunks
  PROVE  /\ With(x, c) \in Index
         /\ With(x, c).nextKey = (x.nextKey + 1) % KeySpace
         /\ With(x, c).graph \subseteq x.graph \cup {<<x.nextKey, c>>}
         /\ With(x, c).keyToChunk \subseteq x.keyToChunk \cup {<<x.nextKey, c>>}
         /\ Paired(x) /\ (\A p \in x.keyToChunk : p[1] # x.nextKey) => Paired(With(x, c))
<1> DEFINE y == Without(x, c)
           k == x.nextKey
           z == With(x, c)
<1>1. /\ y \in Index
      /\ y.nextKey = k
      /\ y.graph \subseteq x.graph
      /\ y.keyToChunk \subseteq x.keyToChunk
      /\ Paired(x) => /\ Paired(y)
                       /\ \A p \in y.keyToChunk : p[2] # c
  BY WithoutInverse
<1>2. /\ z.graph = {n \in y.graph : n[1] # k} \cup {<<k, c>>}
      /\ z.keyToChunk = {p \in y.keyToChunk : p[1] # k} \cup {<<k, c>>}
      /\ z.chunkToKey = y.chunkToKey \cup {<<c, k>>}
      /\ z.nextKey = (k + 1) % KeySpace
  BY DEF With
<1>3. k \in Keys /\ (k + 1) % KeySpace \in Keys
  BY KeySpaceAssumption DEF Index, Keys
<1>4. z \in Index
  <2> HIDE DEF y
  <2>1. /\ {n \in y.graph : n[1] # k} \cup {<<k, c>>} \in SUBSET Nodes
        /\ {p \in y.keyToChunk : p[1] # k} \cup {<<k, c>>} \in SUBSET Nodes
        /\ y.chunkToKey \cup {<<c, k>>} \in SUBSET (Chunks \X Keys)
    BY <1>1, <1>3 DEF Index, Nodes
  <2> HIDE DEF k
  <2> QED BY <1>3, <2>1 DEF With, Index, y, k
<1>5. ASSUME Paired(x), \A p \in x.keyToChunk : p[1] # k
      PROVE  Paired(z)
  <2> HIDE DEF y, z, k
  <2>1. z.keyToChunk = y.keyToChunk \cup {<<k, c>>}
    BY <1>1, <1>2, <1>5
  <2>2. \A p \in y.keyToChunk : p[1] # k /\ p[2] # c
    BY <1>1, <1>5
  <2>3. \A p, q \in z.keyToChunk : p[1] = q[1] \/ p[2] = q[2] => p = q
    BY <1>1, <1>5, <2>1, <2>2 DEF Paired
  <2>4. \A d \in Chunks, j \in Keys : <<d, j>> \in z.chunkToKey <=> <<j, d>> \in z.keyToChunk
    BY <1>1, <1>2, <1>5, <2>1 DEF Paired
  <2> QED BY <2>3, <2>4 DEF Paired
<1> HIDE DEF y, z
<1>6. /\ z.graph \subseteq x.graph \cup {<<k, c>>}
      /\ z.keyToChunk \subseteq x.keyToChunk \cup {<<k, c>>}
  BY <1>1, <1>2
<1> QED BY <1>2, <1>4, <1>5, <1>6 DEF z

\* The empty index has the type of one, and its maps are inverse.
LEMMA EmptyIndex == Empty \in Index /\ Paired(Empty)
<1>1. 0 \in Keys
  BY KeySpaceAssumption DEF Keys
<1> QED BY <1>1 DEF Empty, Index, Paired

-----------------------------------------------------------------------------
\* Everything kept of keys is a key with a chunk.
LEMMA PairTypes ==
  ASSUME IInv
  PROVE  Pairs \subseteq Nodes /\ PairsOnDisk \subseteq Nodes
<1>1. PairsOnDisk \subseteq Nodes
  BY DEF IInv, TypeOK, PairsOnDisk, Index
<1>2. PairsInHeap \subseteq Nodes
  <2>1. CASE cached = NoIndex
    BY <2>1 DEF PairsInHeap
  <2>2. CASE cached # NoIndex
    <3>1. heap[cached] \in Index
      BY <2>2 DEF IInv, TypeOK
    <3>2. heap[cached].graph \subseteq Nodes /\ heap[cached].keyToChunk \subseteq Nodes
      BY <3>1 DEF Index
    <3> QED BY <2>2, <3>2 DEF PairsInHeap
  <2> QED BY <2>1, <2>2
<1> QED BY <1>1, <1>2 DEF Pairs

\* Nothing is kept of any key at first.
LEMMA InitIInv == Init => IInv
<1> SUFFICES ASSUME Init PROVE IInv
  OBVIOUS
<1>1. TypeOK /\ minted \in Nat
  BY EmptyIndex DEF Init, TypeOK, Absent
<1>2. Engaged /\ FilesInOrder
  BY DEF Init, Engaged, FilesInOrder, Holding, Absent
<1>3. Pairs = {}
  BY DEF Init, Pairs, PairsInHeap, PairsOnDisk, Absent
<1>4. OneChunkPerKey /\ NextKeyIsFree
  BY <1>3 DEF Init, OneChunkPerKey, NextKeyIsFree, Absent
<1> QED BY <1>1, <1>2, <1>4 DEF IInv

\* Pairs and next keys are in the index and the files.
LEMMA QuietPairs ==
  OneChunkPerKey /\ NextKeyIsFree /\ UNCHANGED <<store, files, minted>>
    => (OneChunkPerKey /\ NextKeyIsFree)'
BY DEF OneChunkPerKey, NextKeyIsFree, Pairs, PairsInHeap, PairsOnDisk, store, files

\* A request that comes to nothing, or ends, leaves the files to the others.
LEMMA LeaveStep ==
  ASSUME IInv, NEW r \in Requests, UNCHANGED <<store, files, minted>>, Forget(r),
         pc' = [pc EXCEPT ![r] = "done"] \/ pc' = [pc EXCEPT ![r] = "failed"]
  PROVE  IInv'
<1>1. pc'[r] \in {"done", "failed"} /\ \A s \in Requests \ {r} : pc'[s] = pc[s]
  BY DEF IInv, TypeOK
<1>2. /\ call' = [call EXCEPT ![r] = <<>>]
      /\ idx' = [idx EXCEPT ![r] = NoIndex]
      /\ left' = [left EXCEPT ![r] = {}]
  BY DEF Forget
<1>3. TypeOK'
  <2>1. pc' \in [Requests -> {"idle", "load", "apply", "save", "done", "failed"} \cup Holding]
    BY DEF IInv, TypeOK
  <2>2. call' \in [Requests -> Calls \cup {<<>>}]
    BY <1>2 DEF IInv, TypeOK
  <2>3. idx' \in [Requests -> Requests \cup {NoIndex}]
    BY <1>2 DEF IInv, TypeOK
  <2>4. left' \in [Requests -> SUBSET Nodes]
    BY <1>2 DEF IInv, TypeOK
  <2> QED BY <2>1, <2>2, <2>3, <2>4 DEF IInv, TypeOK, store, files
<1>4. Engaged'
  BY <1>1, <1>2 DEF IInv, TypeOK, Engaged, Holding, store
<1>5. FilesInOrder'
  BY <1>1 DEF IInv, FilesInOrder, Holding, store, files
<1> QED BY <1>3, <1>4, <1>5, QuietPairs DEF IInv

\* Whether the index is found or is to be loaded, it is not touched yet.
LEMMA LookupStep ==
  ASSUME IInv, NEW r \in Requests, NEW c \in Calls, Lookup(r, c)
  PROVE  IInv'
<1>1. /\ UNCHANGED <<store, files, left, minted>>
      /\ pc[r] = "idle"
      /\ pc' = [pc EXCEPT ![r] = IF cached = NoIndex THEN "load" ELSE "apply"]
      /\ call' = [call EXCEPT ![r] = c]
      /\ idx' = [idx EXCEPT ![r] = cached]
  BY DEF Lookup, GoTo
<1>2. TypeOK'
  <2>1. pc' \in [Requests -> {"idle", "load", "apply", "save", "done", "failed"} \cup Holding]
    BY <1>1 DEF IInv, TypeOK
  <2>2. call' \in [Requests -> Calls \cup {<<>>}]
    BY <1>1 DEF IInv, TypeOK
  <2>3. idx' \in [Requests -> Requests \cup {NoIndex}]
    BY <1>1 DEF IInv, TypeOK
  <2> QED BY <1>1, <2>1, <2>2, <2>3 DEF IInv, TypeOK, store, files
<1>3. Engaged'
  BY <1>1 DEF IInv, TypeOK, Engaged, Holding, store
<1>4. FilesInOrder'
  BY <1>1 DEF IInv, TypeOK, FilesInOrder, Holding, store, files
<1> QED BY <1>1, <1>2, <1>3, <1>4, QuietPairs DEF IInv

\* What a restart reads is an index like any other: its keys are all in the files, and
\* its next key is beyond them.
LEMMA LoadedIndex ==
  ASSUME IInv, ~Unreadable
  PROVE  /\ Loaded \in Index
         /\ Loaded.graph \cup Loaded.keyToChunk \subseteq PairsOnDisk
         /\ minted <= KeySpace => Paired(Loaded)
         /\ minted < KeySpace => /\ Loaded.nextKey <= minted
                                 /\ \A p \in PairsOnDisk : p[1] < Loaded.nextKey
<1>1. CASE ids.state = "absent"
  <2>1. Loaded = Empty
    BY <1>1 DEF Loaded
  <2>2. PairsOnDisk = {}
    BY <1>1 DEF IInv, FilesInOrder, PairsOnDisk
  <2>3. Empty.nextKey = 0 /\ Empty.graph = {} /\ Empty.keyToChunk = {}
    BY DEF Empty
  <2> QED BY <2>1, <2>2, <2>3, EmptyIndex DEF IInv
<1>2. CASE ids.state # "absent"
  <2>1. ids.state = "whole" /\ graphBin.state = "whole"
    BY <1>2 DEF IInv, TypeOK, Unreadable
  <2> DEFINE nodes == {graphBin.nodes[i] : i \in DOMAIN graphBin.nodes}
  <2>2. Hole \notin nodes /\ nodes \subseteq Nodes
    BY <2>1 DEF IInv, TypeOK, FilesInOrder
  <2>3. Loaded = [ids.maps EXCEPT !.graph = nodes]
    BY <2>1 DEF Loaded
  <2> HIDE DEF nodes
  <2>4. /\ Loaded \in Index
        /\ Loaded.graph = nodes
        /\ Loaded.keyToChunk = ids.maps.keyToChunk
        /\ Loaded.chunkToKey = ids.maps.chunkToKey
        /\ Loaded.nextKey = ids.maps.nextKey
    BY <2>2, <2>3 DEF IInv, TypeOK, Index
  <2>5. nodes \subseteq PairsOnDisk /\ ids.maps.keyToChunk \subseteq PairsOnDisk
    BY <2>1, <2>2 DEF PairsOnDisk, nodes
  <2>6. minted <= KeySpace => Paired(Loaded)
    BY <2>1, <2>4 DEF IInv, OneChunkPerKey, Paired
  <2>7. minted < KeySpace => /\ Loaded.nextKey <= minted
                             /\ \A p \in PairsOnDisk : p[1] < Loaded.nextKey
    BY <2>1, <2>4 DEF IInv, NextKeyIsFree
  <2> QED BY <2>4, <2>5, <2>6, <2>7
<1> QED BY <1>1, <1>2

\* A request finds the index that another has loaded, or loads it.
LEMMA LoadStep ==
  ASSUME IInv, NEW r \in Requests, Load(r)
  PROVE  IInv'
<1>1. /\ UNCHANGED <<files, call, left, minted>>
      /\ pc[r] = "load" /\ pc' = [pc EXCEPT ![r] = "apply"]
  BY DEF Load, GoTo
<1>2. pc' \in [Requests -> {"idle", "load", "apply", "save", "done", "failed"} \cup Holding]
  BY <1>1 DEF IInv, TypeOK
<1>3. CASE cached # NoIndex /\ idx' = [idx EXCEPT ![r] = cached] /\ UNCHANGED store
  <2>1. TypeOK'
    <3>1. idx' \in [Requests -> Requests \cup {NoIndex}]
      BY <1>3 DEF IInv, TypeOK
    <3> QED BY <1>1, <1>2, <1>3, <3>1 DEF IInv, TypeOK, store, files
  <2>2. Engaged'
    BY <1>1, <1>3 DEF IInv, TypeOK, Engaged, Holding, store
  <2>3. FilesInOrder'
    BY <1>1, <1>3 DEF IInv, TypeOK, FilesInOrder, Holding, store, files
  <2> QED BY <1>1, <1>3, <2>1, <2>2, <2>3, QuietPairs DEF IInv
<1>4. CASE /\ cached = NoIndex /\ ~Unreadable
           /\ heap' = [heap EXCEPT ![r] = Loaded]
           /\ cached' = r
           /\ idx' = [idx EXCEPT ![r] = r]
  <2>1. /\ heap'[cached'] = Loaded /\ cached' = r
        /\ cached' # NoIndex /\ PairsOnDisk' = PairsOnDisk
    BY <1>1, <1>4, NoIndexAssumption DEF IInv, TypeOK, PairsOnDisk, files
  <2>2. \A s \in Requests : pc[s] \notin {"apply", "save"} \cup Holding
    BY <1>4 DEF IInv, Engaged
  <2>3. \A s \in Requests : pc'[s] \in {"apply", "save"} \cup Holding => s = r /\ pc'[s] = "apply"
    BY <1>1, <2>2 DEF IInv, TypeOK
  <2>4. TypeOK'
    <3>1. idx' \in [Requests -> Requests \cup {NoIndex}]
      BY <1>4 DEF IInv, TypeOK
    <3>2. heap' \in [Requests -> Index]
      BY <1>4, LoadedIndex DEF IInv, TypeOK
    <3> QED BY <1>1, <1>2, <1>4, <3>1, <3>2 DEF IInv, TypeOK, files
  <2>5. call[r] \in Calls
    BY <1>1 DEF IInv, TypeOK, Engaged
  <2>6. Engaged'
    BY <1>1, <1>4, <2>3, <2>5, NoIndexAssumption DEF IInv, TypeOK, Engaged, Holding
  <2>7. FilesInOrder'
    BY <1>1, <2>3 DEF IInv, FilesInOrder, Holding, files
  <2>8. PairsInHeap' \subseteq PairsOnDisk' /\ Pairs' = PairsOnDisk' /\ PairsOnDisk \subseteq Pairs
    BY <1>4, <2>1, LoadedIndex DEF PairsInHeap, Pairs
  <2>9. OneChunkPerKey'
    BY <1>1, <1>4, <2>1, <2>8, LoadedIndex DEF IInv, OneChunkPerKey, files
  <2>10. NextKeyIsFree'
    BY <1>1, <1>4, <2>1, <2>8, LoadedIndex DEF IInv, NextKeyIsFree, files
  <2> QED BY <1>1, <2>4, <2>6, <2>7, <2>9, <2>10 DEF IInv
<1> QED BY <1>3, <1>4 DEF Load

\* Under the write lock no save is between its two files; a new key is beyond all
\* that are kept, or no key is left and nothing is claimed any more.
LEMMA ApplyStep ==
  ASSUME IInv, NEW r \in Requests, Apply(r)
  PROVE  IInv'
<1> DEFINE x == heap[cached]
           c == call[r][2]
           y == IF call[r][1] = "upsert" THEN With(x, c) ELSE Without(x, c)
<1>1. /\ UNCHANGED <<cached, ids, graphBin, call, idx, left>>
      /\ pc[r] = "apply" /\ pc' = [pc EXCEPT ![r] = "save"]
      /\ \A s \in Requests : pc[s] \notin Holding
      /\ call[r] # <<"search">>
      /\ idx[r] = cached /\ cached # NoIndex /\ cached \in Requests
  BY DEF Apply, GoTo, files, IInv, TypeOK, Engaged
<1>2. call[r] \in {"upsert", "delete"} \X Chunks
  BY <1>1 DEF IInv, Engaged, Calls
<1>3. c \in Chunks /\ x \in Index
  BY <1>1, <1>2 DEF IInv, TypeOK
<1>4. /\ heap' = [heap EXCEPT ![cached] = y]
      /\ minted' = IF call[r][1] = "upsert" THEN minted + 1 ELSE minted
  BY <1>1 DEF Apply
<1>5. y \in Index
  BY <1>3, WithInverse, WithoutInverse
<1> HIDE DEF y
<1>6. heap'[cached'] = y /\ PairsOnDisk' = PairsOnDisk
  BY <1>1, <1>4 DEF IInv, TypeOK, PairsOnDisk
<1>7. TypeOK' /\ minted' \in Nat
  <2>1. pc' \in [Requests -> {"idle", "load", "apply", "save", "done", "failed"} \cup Holding]
    BY <1>1 DEF IInv, TypeOK
  <2>2. heap' \in [Requests -> Index]
    BY <1>4, <1>5 DEF IInv, TypeOK
  <2> QED BY <1>1, <1>4, <2>1, <2>2 DEF IInv, TypeOK
<1>8. \A s \in Requests : pc'[s] \notin Holding
  BY <1>1 DEF IInv, TypeOK, Holding
<1>9. Engaged'
  BY <1>1, <1>8 DEF IInv, TypeOK, Engaged, Holding
<1>10. FilesInOrder'
  BY <1>1, <1>8 DEF IInv, FilesInOrder, Holding
<1>11. PairsInHeap = x.graph \cup x.keyToChunk /\ PairsInHeap' = y.graph \cup y.keyToChunk
  BY <1>1, <1>6 DEF PairsInHeap
<1>12. Pairs \subseteq Nodes /\ PairsOnDisk \subseteq Nodes
  BY PairTypes
<1>13. CASE call[r][1] = "upsert"
  <2> DEFINE k == x.nextKey
  <2>1. y = With(x, c) /\ minted' = minted + 1
    BY <1>4, <1>13 DEF y
  <2>2. /\ y.nextKey = (k + 1) % KeySpace
        /\ y.graph \subseteq x.graph \cup {<<k, c>>}
        /\ y.keyToChunk \subseteq x.keyToChunk \cup {<<k, c>>}
        /\ Paired(x) /\ (\A p \in x.keyToChunk : p[1] # k) => Paired(y)
    BY <1>3, <2>1, WithInverse
  <2>3. k \in Nat /\ k \in Keys
    BY <1>3 DEF Index, Keys
  <2>4. Pairs' \subseteq Pairs \cup {<<k, c>>}
    BY <1>6, <1>11, <2>2 DEF Pairs
  <2>5. SUFFICES ASSUME minted < KeySpace
                 PROVE  OneChunkPerKey' /\ NextKeyIsFree'
    BY <1>1, <1>7, <1>9, <1>10, <2>1, KeySpaceAssumption DEF IInv, OneChunkPerKey, NextKeyIsFree
  <2> HIDE DEF x, c, k
  <2>6. /\ Paired(x)
        /\ ids.state = "whole" => Paired(ids.maps)
        /\ \A p, q \in Pairs : p[1] = q[1] => p = q
    <3>1. minted <= KeySpace
      BY <2>5, KeySpaceAssumption DEF IInv
    <3> QED BY <1>1, <3>1 DEF IInv, OneChunkPerKey, x
  <2>7. k <= minted /\ \A p \in Pairs : p[1] < k
    BY <1>1, <2>5 DEF IInv, NextKeyIsFree, x, k
  <2>8. \A p \in Pairs : p[1] # k
    BY <1>12, <2>3, <2>7 DEF Nodes, Keys
  <2>9. Paired(y)
    <3>1. x.keyToChunk \subseteq Pairs
      BY <1>11 DEF Pairs
    <3> QED BY <2>2, <2>6, <2>8, <3>1
  <2>10. OneChunkPerKey'
    <3>1. \A p, q \in Pairs' : p[1] = q[1] => p = q
      BY <2>4, <2>6, <2>8
    <3> QED BY <1>1, <1>6, <2>6, <2>9, <3>1 DEF OneChunkPerKey
  <2>11. NextKeyIsFree'
    <3>1. ASSUME minted' < KeySpace
          PROVE  y.nextKey <= minted' /\ \A p \in Pairs' : p[1] < y.nextKey
      <4>1. (k + 1) % KeySpace = k + 1
        BY <2>1, <2>3, <2>7, <3>1, KeySpaceAssumption DEF IInv
      <4>2. \A p \in Pairs : p[1] < k + 1
        BY <1>12, <2>3, <2>7 DEF Nodes, Keys
      <4> QED BY <2>1, <2>2, <2>3, <2>4, <2>7, <4>1, <4>2 DEF IInv
    <3>2. ids'.state = "whole" => /\ ids'.maps.nextKey <= minted'
                                  /\ \A p \in PairsOnDisk' : p[1] < ids'.maps.nextKey
      <4>1. ids.maps.nextKey \in Nat
        BY DEF IInv, TypeOK, Index, Keys
      <4> QED BY <1>1, <1>6, <2>1, <2>5, <4>1 DEF IInv, NextKeyIsFree
    <3> QED BY <1>6, <3>1, <3>2 DEF NextKeyIsFree
  <2> QED BY <2>10, <2>11
<1>14. CASE call[r][1] # "upsert"
  <2>1. y = Without(x, c) /\ minted' = minted
    BY <1>4, <1>14 DEF y
  <2>2. /\ y.nextKey = x.nextKey
        /\ y.graph \subseteq x.graph
        /\ y.keyToChunk \subseteq x.keyToChunk
        /\ Paired(x) => Paired(y)
    BY <1>3, <2>1, WithoutInverse
  <2> HIDE DEF c
  <2>3. Pairs' \subseteq Pairs
    BY <1>6, <1>11, <2>2 DEF Pairs
  <2>4. OneChunkPerKey'
    BY <1>1, <1>6, <2>1, <2>2, <2>3 DEF IInv, OneChunkPerKey
  <2>5. NextKeyIsFree'
    BY <1>1, <1>6, <2>1, <2>2, <2>3 DEF IInv, NextKeyIsFree
  <2> QED BY <1>7, <1>9, <1>10, <2>4, <2>5 DEF IInv
<1> QED BY <1>13, <1>14

-----------------------------------------------------------------------------
\* A save begins by emptying the file of the maps, which are then in no file.
LEMMA CreateIdsStep ==
  ASSUME IInv, NEW r \in Requests, CreateIds(r)
  PROVE  IInv'
<1>1. /\ UNCHANGED <<heap, cached, graphBin, call, idx, left, minted>>
      /\ pc[r] = "save" /\ pc' = [pc EXCEPT ![r] = "writeIds"]
      /\ ids'.state = "torn" /\ ids'.maps = Empty
  BY DEF CreateIds, GoTo, store, Torn, Absent
<1>2. \A s \in Requests : pc'[s] # pc[s] => s = r
  BY <1>1 DEF IInv, TypeOK
<1>3. TypeOK'
  <2>1. pc' \in [Requests -> {"idle", "load", "apply", "save", "done", "failed"} \cup Holding]
    BY <1>1 DEF IInv, TypeOK, Holding
  <2> QED BY <1>1, <2>1, EmptyIndex DEF IInv, TypeOK
<1>4. Engaged'
  BY <1>1 DEF IInv, TypeOK, Engaged, Holding
<1>5. FilesInOrder'
  BY <1>1 DEF IInv, FilesInOrder
<1>6. Pairs' \subseteq Pairs
  BY <1>1 DEF Pairs, PairsInHeap, PairsOnDisk
<1>7. OneChunkPerKey' /\ NextKeyIsFree'
  BY <1>1, <1>6 DEF IInv, OneChunkPerKey, NextKeyIsFree
<1> QED BY <1>1, <1>3, <1>4, <1>5, <1>7 DEF IInv

\* The saved next key is beyond every pair that graph.bin still holds.
LEMMA WriteIdsStep ==
  ASSUME IInv, NEW r \in Requests, WriteIds(r)
  PROVE  IInv'
<1> DEFINE x == heap[cached]
<1>1. /\ UNCHANGED <<heap, cached, graphBin, call, idx, left, minted>>
      /\ pc[r] = "writeIds" /\ pc' = [pc EXCEPT ![r] = "createGraph"]
      /\ idx[r] = cached /\ cached # NoIndex /\ cached \in Requests
  BY DEF WriteIds, GoTo, store, IInv, TypeOK, Engaged, Holding
<1>2. ids'.state = "whole" /\ ids'.maps = [x EXCEPT !.graph = {}]
  BY <1>1 DEF WriteIds, Absent
<1>3. x \in Index
  BY <1>1 DEF IInv, TypeOK
<1> HIDE DEF x
<1>4. /\ ids'.maps \in Index
      /\ ids'.maps.keyToChunk = x.keyToChunk
      /\ ids'.maps.chunkToKey = x.chunkToKey
      /\ ids'.maps.nextKey = x.nextKey
  BY <1>2, <1>3 DEF Index
<1>5. TypeOK'
  <2>1. pc' \in [Requests -> {"idle", "load", "apply", "save", "done", "failed"} \cup Holding]
    BY <1>1 DEF IInv, TypeOK, Holding
  <2> QED BY <1>1, <1>2, <1>4, <2>1 DEF IInv, TypeOK
<1>6. Engaged'
  BY <1>1 DEF IInv, TypeOK, Engaged, Holding
<1>7. FilesInOrder'
  BY <1>1, <1>2 DEF IInv, FilesInOrder, x
<1>8. x.keyToChunk \subseteq PairsInHeap /\ PairsInHeap' = PairsInHeap
  BY <1>1 DEF PairsInHeap, x
<1>9. PairsOnDisk' \subseteq PairsOnDisk \cup x.keyToChunk
  BY <1>1, <1>4 DEF PairsOnDisk
<1>10. Pairs' \subseteq Pairs /\ PairsOnDisk' \subseteq Pairs
  BY <1>8, <1>9 DEF Pairs
<1>11. OneChunkPerKey'
  BY <1>1, <1>2, <1>4, <1>10 DEF IInv, OneChunkPerKey, Paired, x
<1>12. NextKeyIsFree'
  BY <1>1, <1>2, <1>4, <1>10 DEF IInv, NextKeyIsFree, x
<1> QED BY <1>1, <1>5, <1>6, <1>7, <1>11, <1>12 DEF IInv

\* Writing graph.bin touches neither the maps nor the next keys; what it leaves there
\* was there before or is of the index.
LEMMA GraphPairs ==
  ASSUME IInv, cached # NoIndex, UNCHANGED <<heap, cached, ids, minted>>,
         NEW nodes, graphBin' = Contents(nodes),
         \A i \in DOMAIN nodes : \/ nodes[i] = Hole
                                 \/ i \in DOMAIN graphBin.nodes /\ nodes[i] = graphBin.nodes[i]
                                 \/ nodes[i] \in heap[cached].graph,
         ids.state = "whole" =>
           \/ ids.maps = [heap[cached] EXCEPT !.graph = {}]
           \/ \A i \in DOMAIN nodes : nodes[i] = Hole
  PROVE  /\ (OneChunkPerKey /\ NextKeyIsFree)'
         /\ graphBin'.state \in {"whole", "torn"}
         /\ graphBin'.state = "whole" => \A i \in DOMAIN nodes : nodes[i] # Hole
         /\ graphBin'.nodes = nodes
         /\ \A i \in DOMAIN nodes : nodes[i] \in Nodes \cup {Hole}
<1>1. /\ graphBin'.nodes = nodes
      /\ graphBin'.state \in {"whole", "torn"}
      /\ graphBin'.state = "whole" => \A i \in DOMAIN nodes : nodes[i] # Hole
  BY DEF Contents, Absent
<1>2. heap[cached] \in Index
  BY DEF IInv, TypeOK
<1>3. \A i \in DOMAIN nodes : nodes[i] \in Nodes \cup {Hole}
  BY <1>2 DEF IInv, TypeOK, Index
<1>4. PairsInHeap' = PairsInHeap /\ heap[cached].graph \subseteq PairsInHeap
  BY DEF PairsInHeap
<1>5. PairsOnDisk' \subseteq PairsOnDisk \cup heap[cached].graph
  BY <1>1 DEF PairsOnDisk
<1>6. Pairs' \subseteq Pairs /\ PairsOnDisk' \subseteq Pairs
  BY <1>4, <1>5 DEF Pairs
<1>7. OneChunkPerKey'
  BY <1>6 DEF IInv, OneChunkPerKey
<1>8. ASSUME minted < KeySpace, ids.state = "whole"
      PROVE  \A p \in PairsOnDisk' : p[1] < ids.maps.nextKey
  <2>1. CASE ids.maps = [heap[cached] EXCEPT !.graph = {}]
    <3>1. ids.maps.nextKey = heap[cached].nextKey
      BY <1>2, <2>1 DEF Index
    <3> QED BY <1>6, <1>8, <3>1 DEF IInv, NextKeyIsFree
  <2>2. CASE \A i \in DOMAIN nodes : nodes[i] = Hole
    <3>1. PairsOnDisk' \subseteq PairsOnDisk
      BY <1>1, <2>2 DEF PairsOnDisk
    <3> QED BY <1>8, <3>1 DEF IInv, NextKeyIsFree
  <2> QED BY <1>8, <2>1, <2>2
<1>9. NextKeyIsFree'
  BY <1>6, <1>8 DEF IInv, NextKeyIsFree
<1> QED BY <1>1, <1>3, <1>7, <1>9

\* Export makes room for its nodes.
LEMMA CreateGraphStep ==
  ASSUME IInv, NEW r \in Requests, CreateGraph(r)
  PROVE  IInv'
<1> DEFINE x     == heap[cached].graph
           nodes == [i \in 1 .. Cardinality(x) |-> Hole]
<1>1. /\ UNCHANGED <<heap, cached, ids, minted>>
      /\ pc[r] = "createGraph" /\ idx[r] = cached /\ cached # NoIndex /\ cached \in Requests
  BY DEF CreateGraph, GoTo, store, IInv, TypeOK, Engaged, Holding
<1>2. /\ graphBin' = Contents(nodes)
      /\ pc' = [pc EXCEPT ![r] = IF x = {} THEN "done" ELSE "export"]
      /\ IF x = {} THEN Forget(r)
         ELSE left' = [left EXCEPT ![r] = x] /\ UNCHANGED <<call, idx>>
  BY <1>1 DEF CreateGraph, GoTo, Return
<1>3. \A i \in DOMAIN nodes : nodes[i] = Hole
  OBVIOUS
<1> HIDE DEF nodes
<1>4. /\ (OneChunkPerKey /\ NextKeyIsFree)'
      /\ graphBin'.state \in {"whole", "torn"}
      /\ graphBin'.state = "whole" => \A i \in DOMAIN nodes : nodes[i] # Hole
      /\ graphBin'.nodes = nodes
      /\ \A i \in DOMAIN nodes : nodes[i] \in Nodes \cup {Hole}
  <2>1. cached # NoIndex /\ UNCHANGED <<heap, cached, ids, minted>> /\ graphBin' = Contents(nodes)
    BY <1>1, <1>2
  <2> QED BY <1>3, <2>1, GraphPairs
<1>5. x \subseteq Nodes
  <2>1. heap[cached] \in Index
    BY <1>1 DEF IInv, TypeOK
  <2> QED BY <2>1 DEF Index
<1>6. TypeOK'
  <2>1. pc' \in [Requests -> {"idle", "load", "apply", "save", "done", "failed"} \cup Holding]
    BY <1>2 DEF IInv, TypeOK, Holding
  <2>2. call' \in [Requests -> Calls \cup {<<>>}]
    BY <1>2 DEF IInv, TypeOK, Forget
  <2>3. idx' \in [Requests -> Requests \cup {NoIndex}]
    BY <1>2 DEF IInv, TypeOK, Forget
  <2>4. left' \in [Requests -> SUBSET Nodes]
    <3> HIDE DEF x
    <3> QED BY <1>2, <1>5 DEF IInv, TypeOK, Forget
  <2> QED BY <1>1, <1>4, <2>1, <2>2, <2>3, <2>4 DEF IInv, TypeOK
<1>7. /\ pc'[r] = IF x = {} THEN "done" ELSE "export"
      /\ \A s \in Requests \ {r} :
           pc'[s] = pc[s] /\ call'[s] = call[s] /\ idx'[s] = idx[s] /\ left'[s] = left[s]
      /\ x # {} => idx'[r] = idx[r] /\ left'[r] = x
  <2> HIDE DEF x
  <2> QED BY <1>2 DEF IInv, TypeOK, Forget
<1>8. Engaged'
  BY <1>1, <1>7 DEF IInv, TypeOK, Engaged, Holding
<1>9. FilesInOrder'
  BY <1>1, <1>4, <1>7 DEF IInv, FilesInOrder, Holding
<1> QED BY <1>1, <1>4, <1>6, <1>8, <1>9 DEF IInv

\* Export writes one more of its nodes.
LEMMA ExportNodeStep ==
  ASSUME IInv, NEW r \in Requests, ExportNode(r)
  PROVE  IInv'
<1>1. PICK n \in left[r] :
        LET place == Cardinality(heap[idx[r]].graph) - Cardinality(left[r]) + 1
            last  == left[r] = {n}
        IN
        /\ GoTo(r, "export", IF last THEN "done" ELSE "export")
        /\ graphBin' = Contents([graphBin.nodes EXCEPT ![place] = n])
        /\ IF last THEN Return(r)
           ELSE left' = [left EXCEPT ![r] = @ \ {n}] /\ UNCHANGED <<call, idx, settled>>
        /\ UNCHANGED <<store, ids, minted, faults, alone>>
  BY DEF ExportNode
<1> DEFINE place == Cardinality(heap[idx[r]].graph) - Cardinality(left[r]) + 1
           nodes == [graphBin.nodes EXCEPT ![place] = n]
           last  == left[r] = {n}
<1>2. /\ UNCHANGED <<heap, cached, ids, minted>>
      /\ pc[r] = "export" /\ pc' = [pc EXCEPT ![r] = IF last THEN "done" ELSE "export"]
      /\ graphBin' = Contents(nodes)
      /\ IF last THEN Forget(r)
         ELSE left' = [left EXCEPT ![r] = @ \ {n}] /\ UNCHANGED <<call, idx>>
  BY <1>1 DEF GoTo, Return, store
<1>3. /\ idx[r] = cached /\ cached # NoIndex /\ cached \in Requests
      /\ left[r] \subseteq heap[cached].graph
  BY <1>2 DEF IInv, TypeOK, Engaged, Holding
<1>4. DOMAIN nodes = DOMAIN graphBin.nodes
  OBVIOUS
<1>5. \A i \in DOMAIN nodes : nodes[i] = n \/ nodes[i] = graphBin.nodes[i]
  OBVIOUS
<1>6. ids.state = "whole" => ids.maps = [heap[cached] EXCEPT !.graph = {}]
  BY <1>2 DEF IInv, FilesInOrder
<1> HIDE DEF nodes
<1>7. /\ (OneChunkPerKey /\ NextKeyIsFree)'
      /\ graphBin'.state \in {"whole", "torn"}
      /\ graphBin'.state = "whole" => \A i \in DOMAIN nodes : nodes[i] # Hole
      /\ graphBin'.nodes = nodes
      /\ \A i \in DOMAIN nodes : nodes[i] \in Nodes \cup {Hole}
  <2> HIDE DEF place, last
  <2>1. cached # NoIndex /\ UNCHANGED <<heap, cached, ids, minted>> /\ graphBin' = Contents(nodes)
    BY <1>2, <1>3
  <2>2. n \in heap[cached].graph
    BY <1>3
  <2>3. \A i \in DOMAIN nodes : \/ nodes[i] = Hole
                                \/ i \in DOMAIN graphBin.nodes /\ nodes[i] = graphBin.nodes[i]
                                \/ nodes[i] \in heap[cached].graph
    BY <1>4, <1>5, <2>2
  <2> QED BY <1>6, <2>1, <2>3, GraphPairs
<1>8. TypeOK'
  <2>1. pc' \in [Requests -> {"idle", "load", "apply", "save", "done", "failed"} \cup Holding]
    BY <1>2 DEF IInv, TypeOK, Holding
  <2>2. call' \in [Requests -> Calls \cup {<<>>}]
    BY <1>2 DEF IInv, TypeOK, Forget
  <2>3. idx' \in [Requests -> Requests \cup {NoIndex}]
    BY <1>2 DEF IInv, TypeOK, Forget
  <2>4. left' \in [Requests -> SUBSET Nodes]
    BY <1>2 DEF IInv, TypeOK, Forget
  <2> QED BY <1>2, <1>7, <2>1, <2>2, <2>3, <2>4 DEF IInv, TypeOK
<1>9. /\ pc'[r] = IF last THEN "done" ELSE "export"
      /\ \A s \in Requests \ {r} :
           pc'[s] = pc[s] /\ call'[s] = call[s] /\ idx'[s] = idx[s] /\ left'[s] = left[s]
      /\ ~last => idx'[r] = idx[r] /\ left'[r] \subseteq left[r]
  BY <1>2 DEF IInv, TypeOK, Forget
<1>10. Engaged'
  BY <1>2, <1>3, <1>9 DEF IInv, TypeOK, Engaged, Holding
<1>11. FilesInOrder'
  BY <1>2, <1>7, <1>9 DEF IInv, FilesInOrder, Holding
<1> QED BY <1>2, <1>7, <1>8, <1>10, <1>11 DEF IInv

\* After a crash there is nothing but the files.
LEMMA CrashStep ==
  ASSUME IInv, Crash
  PROVE  IInv'
<1>1. /\ UNCHANGED <<ids, graphBin, minted>>
      /\ cached' = NoIndex
      /\ pc' = [r \in Requests |-> IF pc[r] \in {"idle", "done", "failed"} THEN pc[r] ELSE "failed"]
      /\ heap' = [o \in Requests |-> Empty]
      /\ call' = [r \in Requests |-> <<>>]
      /\ idx' = [r \in Requests |-> NoIndex]
      /\ left' = [r \in Requests |-> {}]
  BY DEF Crash, files
<1>2. \A r \in Requests : pc'[r] \in {"idle", "done", "failed"}
  BY <1>1
<1>3. TypeOK'
  BY <1>1, EmptyIndex DEF IInv, TypeOK
<1>4. Engaged' /\ FilesInOrder'
  BY <1>1, <1>2 DEF IInv, Engaged, FilesInOrder, Holding
<1>5. Pairs' \subseteq Pairs /\ PairsOnDisk' = PairsOnDisk
  BY <1>1 DEF Pairs, PairsInHeap, PairsOnDisk
<1>6. OneChunkPerKey' /\ NextKeyIsFree'
  BY <1>1, <1>5 DEF IInv, OneChunkPerKey, NextKeyIsFree
<1> QED BY <1>1, <1>3, <1>4, <1>6 DEF IInv

\* Every step preserves the invariant.
LEMMA NextIInv == IInv /\ [Next]_vars => IInv'
<1> SUFFICES ASSUME IInv, [Next]_vars PROVE IInv'
  OBVIOUS
<1>1. ASSUME NEW r \in Requests, Request(r) PROVE IInv'
  <2>1. CASE LoadFails(r)
    BY <2>1, LeaveStep DEF LoadFails, GoTo
  <2>2. CASE Search(r)
    BY <2>2, LeaveStep DEF Search, GoTo
  <2>3. CASE SaveFails(r)
    BY <2>3, LeaveStep DEF SaveFails
  <2> QED BY <1>1, <2>1, <2>2, <2>3, LookupStep, LoadStep, ApplyStep, CreateIdsStep,
             WriteIdsStep, CreateGraphStep, ExportNodeStep DEF Request
<1>2. CASE UNCHANGED vars
  <2>1. TypeOK' /\ minted' \in Nat
    BY <1>2 DEF IInv, TypeOK, vars, store, files
  <2>2. Engaged' /\ FilesInOrder'
    BY <1>2 DEF IInv, Engaged, FilesInOrder, vars, store, files
  <2> QED BY <1>2, <2>1, <2>2, QuietPairs DEF IInv, vars
<1> QED BY <1>1, <1>2, CrashStep DEF Next

\* The inductive invariant of the vector index.
THEOREM Invariance == Spec => []IInv
BY InitIInv, NextIInv, PTL DEF Spec

-----------------------------------------------------------------------------
\* The variables keep their types.
THEOREM TypeCorrect == Spec => []TypeOK
<1>1. IInv => TypeOK
  BY DEF IInv
<1> QED BY <1>1, Invariance, PTL

\* The index of Current is the cached one or the one a restart would load.
LEMMA CurrentIndex ==
  ASSUME IInv, minted <= KeySpace
  PROVE  /\ Current \in Index
         /\ Paired(Current)
         /\ Current.graph \cup Current.keyToChunk \subseteq Pairs
<1>1. CASE cached # NoIndex
  <2>1. Current = heap[cached] /\ heap[cached] \in Index /\ Paired(heap[cached])
    BY <1>1 DEF Current, IInv, TypeOK, OneChunkPerKey
  <2> QED BY <1>1, <2>1 DEF Pairs, PairsInHeap
<1>2. CASE cached = NoIndex /\ Unreadable
  BY <1>2, EmptyIndex DEF Current, Empty
<1>3. CASE cached = NoIndex /\ ~Unreadable
  BY <1>3, LoadedIndex DEF Current, Pairs
<1> QED BY <1>1, <1>2, <1>3

\* For any number of requests, chunks and keys: while keys are not given out twice,
\* chunkToKey and keyToChunk are inverse to one another, whatever failed or died
\* between the writes of the two files (HNSWIndex.Upsert, Delete, Save and Load).
THEOREM Maps == Spec => []MapsAreInverse
<1>1. IInv => MapsAreInverse
  <2> SUFFICES ASSUME IInv, minted <= KeySpace
               PROVE  /\ Current.chunkToKey = {<<p[2], p[1]>> : p \in Current.keyToChunk}
                      /\ \A p, q \in Current.keyToChunk : p[1] = q[1] \/ p[2] = q[2] => p = q
    BY DEF MapsAreInverse
  <2>1. Current \in Index /\ Paired(Current)
    BY CurrentIndex
  <2> HIDE DEF Current
  <2>2. Current.keyToChunk \subseteq Keys \X Chunks /\ Current.chunkToKey \subseteq Chunks \X Keys
    BY <2>1 DEF Index, Nodes
  <2>3. ASSUME NEW t \in Current.chunkToKey
        PROVE  t \in {<<p[2], p[1]>> : p \in Current.keyToChunk}
    <3>1. PICK c \in Chunks, k \in Keys : t = <<c, k>>
      BY <2>2, <2>3
    <3>2. <<k, c>> \in Current.keyToChunk
      BY <2>1, <2>3, <3>1 DEF Paired
    <3>3. t = <<(<<k, c>>)[2], (<<k, c>>)[1]>>
      BY <3>1
    <3> QED BY <3>2, <3>3
  <2>4. ASSUME NEW p \in Current.keyToChunk
        PROVE  <<p[2], p[1]>> \in Current.chunkToKey
    <3>1. PICK c \in Chunks, k \in Keys : p = <<k, c>>
      BY <2>2, <2>4
    <3> QED BY <2>1, <2>4, <3>1 DEF Paired
  <2> QED BY <2>1, <2>3, <2>4 DEF Paired
<1> QED BY <1>1, Invariance, PTL

\* For any number of requests, chunks and keys: while keys are not given out twice, a
\* node that a search reaches is answered by the chunk it was made for, even when the
\* maps and the graph that were loaded are of different ages (HNSWIndex.Search after Load).
THEOREM Hits == Spec => []HitsAreTheirOwn
<1>1. IInv => HitsAreTheirOwn
  <2> SUFFICES ASSUME IInv, minted <= KeySpace,
                      NEW n \in Current.graph, NEW p \in Current.keyToChunk, n[1] = p[1]
               PROVE  n = p
    BY DEF HitsAreTheirOwn
  <2>1. n \in Pairs /\ p \in Pairs
    BY CurrentIndex
  <2> QED BY <2>1 DEF IInv, OneChunkPerKey
<1> QED BY <1>1, Invariance, PTL

-----------------------------------------------------------------------------
(* That the index keeps the promise of DurableIndex.                        *)

\* Delete takes its chunk from what is known, and no other.
LEMMA KnownWithout ==
  ASSUME NEW x \in Index, NEW c \in Chunks, Paired(x)
  PROVE  Known(Without(x, c)) = Known(x) \ {c}
<1> DEFINE y    == Without(x, c)
           keys == {p[2] : p \in {q \in x.chunkToKey : q[1] = c}}
<1>1. /\ y.graph = {n \in x.graph : n[1] \notin keys}
      /\ y.keyToChunk = {p \in x.keyToChunk : p[1] \notin keys}
  BY DEF Without
<1>2. \A k \in keys : <<k, c>> \in x.keyToChunk
  <2>1. ASSUME NEW q \in x.chunkToKey, q[1] = c PROVE <<q[2], c>> \in x.keyToChunk
    <3>1. PICK d \in Chunks, k \in Keys : q = <<d, k>>
      BY DEF Index
    <3> QED BY <2>1, <3>1 DEF Paired
  <2> QED BY <2>1
<1>3. \A p \in y.keyToChunk : p \in x.keyToChunk /\ p[2] # c
  BY WithoutInverse
<1>4. \A p \in x.keyToChunk : p[2] # c => p[1] \notin keys
  <2> HIDE DEF keys
  <2>1. \A p \in x.keyToChunk, k \in keys : p[1] = k => p = <<k, c>>
    BY <1>2 DEF Paired
  <2> QED BY <2>1
<1> HIDE DEF y, keys
<1>5. \A d : d \in Known(y) <=> \E p \in y.keyToChunk : d = p[2] /\ \E n \in y.graph : n[1] = p[1]
  BY DEF Known
<1>6. \A d : d \in Known(x) <=> \E p \in x.keyToChunk : d = p[2] /\ \E n \in x.graph : n[1] = p[1]
  BY DEF Known
<1>7. ASSUME NEW d, d \in Known(y) PROVE d \in Known(x) \ {c}
  BY <1>1, <1>3, <1>5, <1>6, <1>7
<1>8. ASSUME NEW d, d \in Known(x) \ {c} PROVE d \in Known(y)
  <2>1. PICK p \in x.keyToChunk, n \in x.graph : d = p[2] /\ n[1] = p[1]
    BY <1>6, <1>8
  <2>2. p \in y.keyToChunk /\ n \in y.graph
    BY <1>1, <1>4, <1>8, <2>1
  <2> QED BY <1>5, <2>1, <2>2
<1> QED BY <1>7, <1>8 DEF y

\* Upsert under a free key adds its chunk to what is known, and takes none from it.
LEMMA KnownWith ==
  ASSUME NEW x \in Index, NEW c \in Chunks, Paired(x),
         \A p \in x.graph \cup x.keyToChunk : p[1] # x.nextKey
  PROVE  Known(With(x, c)) = Known(x) \cup {c}
<1> DEFINE y == Without(x, c)
           k == x.nextKey
           z == With(x, c)
<1>1. /\ z.graph = {n \in y.graph : n[1] # k} \cup {<<k, c>>}
      /\ z.keyToChunk = {p \in y.keyToChunk : p[1] # k} \cup {<<k, c>>}
  BY DEF With
<1>2. Known(y) = Known(x) \ {c}
  BY KnownWithout
<1>3. \A p \in y.graph \cup y.keyToChunk : p[1] # k
  BY WithoutInverse
<1> HIDE DEF y, z, k
<1>4. z.graph = y.graph \cup {<<k, c>>} /\ z.keyToChunk = y.keyToChunk \cup {<<k, c>>}
  BY <1>1, <1>3
<1>5. \A d : d \in Known(y) <=> \E p \in y.keyToChunk : d = p[2] /\ \E n \in y.graph : n[1] = p[1]
  BY DEF Known
<1>6. \A d : d \in Known(z) <=> \E p \in z.keyToChunk : d = p[2] /\ \E n \in z.graph : n[1] = p[1]
  BY DEF Known
<1>7. ASSUME NEW d, d \in Known(z) PROVE d \in Known(y) \cup {c}
  <2>1. PICK p \in z.keyToChunk, n \in z.graph : d = p[2] /\ n[1] = p[1]
    BY <1>6, <1>7
  <2>2. CASE p = <<k, c>>
    BY <2>1, <2>2
  <2>3. CASE p # <<k, c>>
    <3>1. p \in y.keyToChunk /\ p[1] # k
      BY <1>3, <1>4, <2>3
    <3>2. n \in y.graph
      BY <1>4, <2>1, <3>1
    <3> QED BY <1>5, <2>1, <3>1, <3>2
  <2> QED BY <2>2, <2>3
<1>8. c \in Known(z)
  <2>1. (<<k, c>>)[2] = c /\ <<k, c>> \in z.keyToChunk /\ <<k, c>> \in z.graph
    BY <1>4
  <2> QED BY <1>6, <2>1
<1>9. Known(y) \subseteq Known(z)
  BY <1>4, <1>5, <1>6
<1> QED BY <1>2, <1>7, <1>8, <1>9 DEF z

\* What an index knows is chunks.
LEMMA KnownType == ASSUME NEW x \in Index PROVE Known(x) \subseteq Chunks
BY DEF Known, Index, Nodes

\* The graph of the cached index is finite.
LEMMA FiniteGraph ==
  ASSUME IsFiniteSet(Chunks), NEW x \in Index, NEW S \in SUBSET x.graph
  PROVE  IsFiniteSet(S) /\ Cardinality(S) \in Nat
<1>1. KeySpace - 1 \in Int /\ 0 \in Int
  BY KeySpaceAssumption
<1>2. IsFiniteSet(Keys)
  BY <1>1, FS_Interval DEF Keys
<1>3. IsFiniteSet(Nodes)
  BY <1>2, FS_Product DEF Nodes
<1>4. S \in SUBSET Nodes
  BY DEF Index
<1> QED BY <1>3, <1>4, FS_Subset, FS_CardinalityType

\* At first there is nothing to promise.
LEMMA InitRInv == Init => RInv
BY DEF Init, RInv, Alone, OnDisk, Writers, Holding, Absent, Unreadable, Loaded

\* A step that writes no file, loads nothing and makes no one a writer settles nothing.
LEMMA QuietRInv ==
  ASSUME IInv, RInv, UNCHANGED <<files, ghost, heap, cached>>,
         Writers' \subseteq Writers,
         \A s \in Writers' : pc'[s] = pc[s] /\ left'[s] = left[s]
  PROVE  RInv'
BY DEF RInv, Alone, OnDisk, Unreadable, Loaded, files, ghost

\* Loading a file that has settled brings back what was saved.
LEMMA LoadRInv ==
  ASSUME IInv, RInv, NEW r \in Requests, Load(r)
  PROVE  RInv'
<1>1. /\ UNCHANGED <<files, left, ghost>> /\ r \notin Writers
      /\ pc[r] = "load" /\ pc' = [pc EXCEPT ![r] = "apply"]
  BY DEF Load, GoTo, Writers, Holding
<1>2. Writers' = Writers /\ \A s \in Writers : pc'[s] = pc[s]
  BY <1>1 DEF IInv, TypeOK, Writers, Holding
<1>3. CASE UNCHANGED store
  BY <1>1, <1>2, <1>3, QuietRInv DEF store
<1>4. CASE cached = NoIndex /\ heap' = [heap EXCEPT ![r] = Loaded] /\ cached' = r
  <2>1. Writers = {}
    BY <1>4 DEF IInv, Engaged, Writers
  <2>2. heap'[cached'] = Loaded /\ Loaded' = Loaded /\ Unreadable' = Unreadable
    BY <1>1, <1>4 DEF IInv, TypeOK, Loaded, Unreadable, files
  <2> HIDE DEF Loaded, Unreadable
  <2> QED BY <1>1, <1>2, <2>1, <2>2 DEF RInv, Alone, OnDisk, ghost
<1> QED BY <1>3, <1>4 DEF Load

\* A change unsettles the index; its writer is alone unless another is at work.
LEMMA ApplyRInv ==
  ASSUME IInv, RInv, NEW r \in Requests, Apply(r)
  PROVE  RInv'
<1>1. /\ UNCHANGED <<cached, files, left>> /\ settled' = FALSE
      /\ alone' = IF Writers = {} THEN {r} ELSE {}
      /\ pc[r] = "apply" /\ pc' = [pc EXCEPT ![r] = "save"]
  BY DEF Apply, GoTo
<1>2. Writers' = Writers \cup {r} /\ pc'[r] = "save"
  BY <1>1 DEF IInv, TypeOK, Writers, Holding
<1> QED BY <1>1, <1>2 DEF RInv, Alone, OnDisk

\* A writer that has been alone still is.
LEMMA WriterStep ==
  ASSUME IInv, RInv, NEW r \in Requests, pc[r] \in {"save"} \cup Holding,
         NEW to \in Holding, pc' = [pc EXCEPT ![r] = to]
  PROVE  /\ Writers' = Writers /\ r \in Writers /\ ~settled
         /\ pc'[r] = to
         /\ r \in alone => Writers = {r}
         /\ \A s \in alone \cap Writers : s = r
<1>1. Writers' = Writers /\ r \in Writers /\ pc'[r] = to
  BY DEF IInv, TypeOK, Writers
<1> QED BY <1>1 DEF RInv, Alone

\* The file of identifiers is emptied before the maps are written to it.
LEMMA CreateIdsRInv ==
  ASSUME IInv, RInv, NEW r \in Requests, CreateIds(r)
  PROVE  RInv'
<1>1. /\ UNCHANGED ghost
      /\ pc[r] = "save" /\ pc' = [pc EXCEPT ![r] = "writeIds"]
  BY DEF CreateIds, GoTo
<1>2. /\ Writers' = Writers /\ r \in Writers /\ ~settled
      /\ pc'[r] = "writeIds"
      /\ r \in alone => Writers = {r}
      /\ \A s \in alone \cap Writers : s = r
  BY <1>1, WriterStep DEF Holding
<1> QED BY <1>1, <1>2 DEF RInv, Alone, OnDisk, ghost

\* The maps that a lone writer has written are those it goes on with.
LEMMA WriteIdsRInv ==
  ASSUME IInv, RInv, NEW r \in Requests, WriteIds(r)
  PROVE  RInv'
<1>1. /\ UNCHANGED ghost /\ ids'.state = "whole"
      /\ pc[r] = "writeIds" /\ pc' = [pc EXCEPT ![r] = "createGraph"]
  BY DEF WriteIds, GoTo, Absent
<1>2. /\ Writers' = Writers /\ r \in Writers /\ ~settled
      /\ pc'[r] = "createGraph"
      /\ r \in alone => Writers = {r}
      /\ \A s \in alone \cap Writers : s = r
  BY <1>1, WriterStep DEF Holding
<1> QED BY <1>1, <1>2 DEF RInv, Alone, OnDisk, ghost

\* When the last node is written, what a restart would load is the index itself.
LEMMA ReturnRInv ==
  ASSUME IInv, RInv, NEW r \in Requests, pc[r] \in Holding,
         UNCHANGED <<heap, cached, ids, alone>>, Return(r),
         pc' = [pc EXCEPT ![r] = "done"],
         r \in alone =>
           /\ graphBin'.state = "whole" /\ ids.state = "whole"
           /\ heap[cached].graph = {graphBin'.nodes[i] : i \in DOMAIN graphBin'.nodes}
           /\ ids.maps = [heap[cached] EXCEPT !.graph = {}]
  PROVE  RInv'
<1>1. settled' <=> r \in alone
  BY DEF Return
<1>2. r \in Writers /\ Writers' = Writers \ {r} /\ \A s \in Writers' : pc'[s] = pc[s]
  BY DEF IInv, TypeOK, Writers, Holding
<1>3. \A s \in alone \cap Writers : Writers = {s}
  BY DEF RInv, Alone
<1>4. Alone'
  BY <1>1, <1>2, <1>3 DEF Alone
<1>5. ASSUME r \in alone PROVE ~Unreadable' /\ heap'[cached'] = Loaded'
  <2>1. heap[cached] \in Index
    BY DEF IInv, TypeOK, Engaged
  <2> DEFINE g == {graphBin'.nodes[i] : i \in DOMAIN graphBin'.nodes}
  <2>2. Loaded' = [ids.maps EXCEPT !.graph = g]
    BY <1>5 DEF Loaded
  <2>3. ids.maps = [heap[cached] EXCEPT !.graph = {}] /\ g = heap[cached].graph
    BY <1>5
  <2> HIDE DEF g
  <2>4. Loaded' = heap[cached]
    BY <2>1, <2>2, <2>3 DEF Index
  <2> QED BY <1>5, <2>4 DEF Unreadable
<1>6. OnDisk'
  BY <1>1, <1>5 DEF OnDisk
<1> QED BY <1>4, <1>6 DEF RInv

\* An index without nodes is saved at once, any other has them all left to export.
LEMMA CreateGraphRInv ==
  ASSUME IsFiniteSet(Chunks), IInv, RInv, NEW r \in Requests, CreateGraph(r)
  PROVE  RInv'
<1> DEFINE x     == heap[cached].graph
           nodes == [i \in 1 .. Cardinality(x) |-> Hole]
<1>1. /\ UNCHANGED <<heap, cached, ids, alone>>
      /\ pc[r] = "createGraph" /\ idx[r] = cached /\ cached # NoIndex /\ cached \in Requests
      /\ heap[cached] \in Index
  BY DEF CreateGraph, GoTo, store, IInv, TypeOK, Engaged, Holding
<1>2. /\ graphBin' = Contents(nodes)
      /\ pc' = [pc EXCEPT ![r] = IF x = {} THEN "done" ELSE "export"]
      /\ IF x = {} THEN Return(r)
         ELSE left' = [left EXCEPT ![r] = x] /\ UNCHANGED settled
  BY <1>1 DEF CreateGraph, GoTo
<1>3. IsFiniteSet(x) /\ Cardinality(x) \in Nat
  BY <1>1, FiniteGraph
<1>4. r \in alone => ids.state = "whole" /\ ids.maps = [heap[cached] EXCEPT !.graph = {}]
  <2>1. r \in Writers
    BY <1>1 DEF Writers, Holding
  <2> QED BY <1>1, <2>1 DEF RInv, Alone, IInv, FilesInOrder
<1>5. nodes \in [1 .. Cardinality(x) -> Nodes \cup {Hole}]
  OBVIOUS
<1> HIDE DEF nodes, x
<1>6. graphBin'.nodes = nodes
  BY <1>2 DEF Contents, Absent
<1>7. CASE x = {}
  <2>1. Cardinality(x) = 0
    BY <1>7, FS_EmptySet
  <2>2. DOMAIN nodes = {}
    BY <1>5, <2>1
  <2>3. graphBin'.state = "whole" /\ {graphBin'.nodes[i] : i \in DOMAIN graphBin'.nodes} = {}
    BY <1>2, <1>6, <2>2 DEF Contents, Absent
  <2> QED BY <1>1, <1>2, <1>4, <1>7, <2>3, ReturnRInv DEF Holding, x
<1>8. CASE x # {}
  <2>1. /\ Writers' = Writers /\ r \in Writers /\ ~settled
        /\ pc'[r] = "export"
        /\ r \in alone => Writers = {r}
        /\ \A s \in alone \cap Writers : s = r
    BY <1>1, <1>2, <1>8, WriterStep DEF Holding
  <2>2. left'[r] = x
    BY <1>2, <1>8 DEF IInv, TypeOK
  <2>3. x \ left'[r] = {} /\ Cardinality(x) - Cardinality(left'[r]) = 0
    BY <1>3, <2>2
  <2>4. {graphBin'.nodes[i] : i \in 1 .. Cardinality(x) - Cardinality(left'[r])} = {}
    BY <2>3
  <2>5. x' = x
    BY <1>1 DEF x
  <2>6. Alone'
    BY <1>1, <1>2, <1>4, <1>5, <1>6, <1>8, <2>1, <2>2, <2>3, <2>4, <2>5 DEF Alone, x
  <2> QED BY <1>2, <1>8, <2>1, <2>6 DEF RInv, OnDisk
<1> QED BY <1>7, <1>8

\* Each node that a lone writer exports comes after those already in the file.
LEMMA ExportNodeRInv ==
  ASSUME IsFiniteSet(Chunks), IInv, RInv, NEW r \in Requests, ExportNode(r)
  PROVE  RInv'
<1>1. PICK n \in left[r] :
        LET place == Cardinality(heap[idx[r]].graph) - Cardinality(left[r]) + 1
            last  == left[r] = {n}
        IN
        /\ GoTo(r, "export", IF last THEN "done" ELSE "export")
        /\ graphBin' = Contents([graphBin.nodes EXCEPT ![place] = n])
        /\ IF last THEN Return(r)
           ELSE left' = [left EXCEPT ![r] = @ \ {n}] /\ UNCHANGED <<call, idx, settled>>
        /\ UNCHANGED <<store, ids, minted, faults, alone>>
  BY DEF ExportNode
<1> DEFINE x     == heap[cached].graph
           N     == Cardinality(x)
           done  == N - Cardinality(left[r])
           nodes == [graphBin.nodes EXCEPT ![done + 1] = n]
           last  == left[r] = {n}
<1>2. /\ UNCHANGED <<heap, cached, ids, alone>>
      /\ pc[r] = "export" /\ idx[r] = cached /\ cached # NoIndex /\ cached \in Requests
      /\ heap[cached] \in Index /\ left[r] \subseteq x
  BY <1>1 DEF GoTo, store, IInv, TypeOK, Engaged, Holding
<1>3. /\ graphBin' = Contents(nodes)
      /\ pc' = [pc EXCEPT ![r] = IF last THEN "done" ELSE "export"]
      /\ IF last THEN Return(r)
         ELSE left' = [left EXCEPT ![r] = @ \ {n}] /\ UNCHANGED settled
  BY <1>1, <1>2 DEF GoTo
<1>4. /\ IsFiniteSet(left[r]) /\ N \in Nat /\ Cardinality(left[r]) \in Nat
      /\ Cardinality(left[r]) <= N
  <2> HIDE DEF x
  <2>1. IsFiniteSet(x) /\ N \in Nat
    BY <1>2, FiniteGraph DEF x
  <2> QED BY <1>2, <2>1, FS_Subset, FS_CardinalityType
<1>5. /\ Cardinality(left[r] \ {n}) = Cardinality(left[r]) - 1
      /\ Cardinality(left[r] \ {n}) \in Nat
      /\ last => Cardinality(left[r] \ {n}) = 0
  <2>1. IsFiniteSet(left[r] \ {n}) /\ Cardinality(left[r] \ {n}) = Cardinality(left[r]) - 1
    BY <1>4, FS_RemoveElement
  <2>2. last => left[r] \ {n} = {}
    OBVIOUS
  <2> QED BY <2>1, <2>2, FS_CardinalityType, FS_EmptySet
<1>6. done \in Nat /\ done + 1 \in 1 .. N /\ N - Cardinality(left[r] \ {n}) = done + 1
  BY <1>4, <1>5
<1>7. n \in Nodes /\ n # Hole
  <2>1. n \in Nodes
    BY <1>2 DEF Index
  <2>2. Nodes \subseteq Nat \X Chunks
    BY KeySpaceAssumption DEF Nodes, Keys
  <2> QED BY <2>1, <2>2, HoleAssumption
<1>8. graphBin'.nodes = nodes
  BY <1>3 DEF Contents, Absent
<1>9. ASSUME r \in alone
      PROVE  /\ Writers = {r} /\ ids.state = "whole"
             /\ ids.maps = [heap[cached] EXCEPT !.graph = {}]
             /\ nodes \in [1 .. N -> Nodes \cup {Hole}]
             /\ x \ (left[r] \ {n}) = {nodes[i] : i \in 1 .. done + 1}
  <2>1. r \in alone \cap Writers
    BY <1>2, <1>9 DEF Writers, Holding
  <2>2. /\ Writers = {r} /\ ids.state = "whole"
        /\ graphBin.nodes \in [1 .. N -> Nodes \cup {Hole}]
        /\ x \ left[r] = {graphBin.nodes[i] : i \in 1 .. done}
    BY <1>2, <2>1 DEF RInv, Alone
  <2>3. ids.maps = [heap[cached] EXCEPT !.graph = {}]
    BY <1>2, <2>2 DEF IInv, FilesInOrder
  <2> HIDE DEF x, N, done
  <2>4. nodes \in [1 .. N -> Nodes \cup {Hole}] /\ nodes[done + 1] = n
    BY <1>6, <1>7, <2>2
  <2>5. \A i \in 1 .. done : nodes[i] = graphBin.nodes[i]
    BY <1>6, <2>2
  <2> HIDE DEF nodes
  <2>6. {nodes[i] : i \in 1 .. done + 1} = {graphBin.nodes[i] : i \in 1 .. done} \cup {n}
    <3>1. 1 .. done + 1 = (1 .. done) \cup {done + 1}
      BY <1>6
    <3> QED BY <2>4, <2>5, <3>1
  <2>7. x \ (left[r] \ {n}) = (x \ left[r]) \cup {n}
    BY <1>2 DEF x
  <2> QED BY <2>2, <2>3, <2>4, <2>6, <2>7
<1> HIDE DEF nodes, last, done, N
<1>10. CASE last
  <2>1. left[r] \ {n} = {} /\ N = done + 1
    BY <1>4, <1>5, <1>6, <1>10 DEF last
  <2>2. ASSUME r \in alone
        PROVE  /\ x = {nodes[i] : i \in DOMAIN nodes}
               /\ \A i \in DOMAIN nodes : nodes[i] # Hole
    <3>1. DOMAIN nodes = 1 .. done + 1 /\ x = {nodes[i] : i \in DOMAIN nodes}
      BY <1>9, <2>1, <2>2
    <3>2. x \subseteq Nat \X Chunks
      BY <1>2, KeySpaceAssumption DEF Index, Nodes, Keys
    <3> HIDE DEF x
    <3> QED BY <3>1, <3>2, HoleAssumption
  <2>3. ASSUME r \in alone PROVE graphBin'.state = "whole"
    BY <1>3, <2>2, <2>3 DEF Contents, Absent
  <2>4. ASSUME r \in alone
        PROVE  /\ graphBin'.state = "whole" /\ ids.state = "whole"
               /\ heap[cached].graph = {graphBin'.nodes[i] : i \in DOMAIN graphBin'.nodes}
               /\ ids.maps = [heap[cached] EXCEPT !.graph = {}]
    BY <1>8, <1>9, <2>2, <2>3, <2>4
  <2>5. pc' = [pc EXCEPT ![r] = "done"] /\ Return(r) /\ pc[r] \in Holding
    BY <1>2, <1>3, <1>10 DEF Holding
  <2> HIDE DEF x
  <2> QED BY <1>2, <2>4, <2>5, ReturnRInv
<1>11. CASE ~last
  <2>1. /\ Writers' = Writers /\ r \in Writers /\ ~settled
        /\ pc'[r] = "export"
        /\ r \in alone => Writers = {r}
        /\ \A s \in alone \cap Writers : s = r
    BY <1>2, <1>3, <1>11, WriterStep DEF Holding
  <2>2. left'[r] = left[r] \ {n} /\ left'[r] # {}
    BY <1>3, <1>11 DEF IInv, TypeOK, last
  <2>3. Cardinality(x) = N /\ N - Cardinality(left'[r]) = done + 1
    BY <1>6, <2>2 DEF N
  <2>4. Alone'
    <3>1. x' = x
      BY <1>2
    <3> HIDE DEF x
    <3>2. r \in alone => graphBin'.nodes \in [1 .. Cardinality(x) -> Nodes \cup {Hole}]
                         /\ x \ left'[r] = {graphBin'.nodes[i] : i \in 1 .. Cardinality(x) - Cardinality(left'[r])}
      BY <1>8, <1>9, <2>2, <2>3
    <3> QED BY <1>2, <1>3, <1>9, <1>11, <2>1, <2>2, <3>1, <3>2 DEF Alone, x
  <2> QED BY <1>3, <1>11, <2>1, <2>4 DEF RInv, OnDisk
<1> QED BY <1>10, <1>11

\* After a crash no one writes and nothing is cached.
LEMMA CrashRInv ==
  ASSUME IInv, RInv, Crash
  PROVE  RInv'
<1>1. UNCHANGED <<files, ghost>> /\ cached' = NoIndex /\ Writers' = {}
  BY DEF Crash, Writers, Holding
<1> QED BY <1>1 DEF RInv, Alone, OnDisk, Unreadable, files, ghost

\* Every step preserves what the refinement needs.
LEMMA NextRInv == ASSUME IsFiniteSet(Chunks) PROVE IInv /\ RInv /\ [Next]_vars => RInv'
<1> SUFFICES ASSUME IInv, RInv, [Next]_vars PROVE RInv'
  OBVIOUS
<1>1. ASSUME NEW r \in Requests, Request(r) PROVE RInv'
  <2>1. ASSUME NEW c \in Calls, Lookup(r, c) PROVE RInv'
    <3>1. Writers' = Writers /\ r \notin Writers /\ \A s \in Writers : pc'[s] = pc[s]
      BY <2>1 DEF Lookup, GoTo, IInv, TypeOK, Writers, Holding
    <3> QED BY <2>1, <3>1, QuietRInv DEF Lookup, store
  <2>2. CASE LoadFails(r) \/ Search(r) \/ SaveFails(r)
    <3>1. /\ pc' = [pc EXCEPT ![r] = "done"] \/ pc' = [pc EXCEPT ![r] = "failed"]
          /\ left' = [left EXCEPT ![r] = {}] /\ UNCHANGED <<files, ghost, store>>
      BY <2>2 DEF LoadFails, Search, SaveFails, GoTo, Forget
    <3>2. /\ r \notin Writers' /\ Writers' \subseteq Writers
          /\ \A s \in Writers' : pc'[s] = pc[s] /\ left'[s] = left[s]
      BY <3>1 DEF IInv, TypeOK, Writers, Holding
    <3> QED BY <3>1, <3>2, QuietRInv DEF store
  <2> QED BY <1>1, <2>1, <2>2, LoadRInv, ApplyRInv, CreateIdsRInv, WriteIdsRInv,
             CreateGraphRInv, ExportNodeRInv DEF Request
<1>2. CASE UNCHANGED vars
  <2>1. Writers' = Writers
    BY <1>2 DEF vars, Writers
  <2> QED BY <1>2, <2>1, QuietRInv DEF vars, store
<1> QED BY <1>1, <1>2, CrashRInv DEF Next

\* While keys are not given out twice, every step is a step of the promise, or changes
\* nothing that it speaks of.
LEMMA PromiseStep ==
  IInv /\ RInv /\ (minted <= KeySpace)' /\ [Next]_vars => [Promise!Next]_<<Entries, settled>>
<1> SUFFICES ASSUME IInv, RInv, minted' <= KeySpace, [Next]_vars
             PROVE  [Promise!Next]_<<Entries, settled>>
  OBVIOUS
<1>1. UNCHANGED <<cached, heap, ids, graphBin>> => Entries' = Entries
  BY DEF Entries, Current, Unreadable, Loaded
<1>2. ASSUME NEW r \in Requests, Request(r) PROVE [Promise!Next]_<<Entries, settled>>
  <2>1. ASSUME NEW c \in Calls, Lookup(r, c) PROVE UNCHANGED <<Entries, settled>>
    BY <1>1, <2>1 DEF Lookup, store, files, ghost
  <2>2. CASE LoadFails(r) \/ Search(r) \/ SaveFails(r)
    BY <1>1, <2>2 DEF LoadFails, Search, SaveFails, store, files, ghost
  <2>3. ASSUME Load(r) PROVE UNCHANGED <<Entries, settled>>
    <3>1. UNCHANGED <<ids, graphBin, settled>>
      BY <2>3 DEF Load, files, ghost
    <3>2. CASE UNCHANGED store
      BY <1>1, <3>1, <3>2 DEF store
    <3>3. CASE cached = NoIndex /\ ~Unreadable /\ heap' = [heap EXCEPT ![r] = Loaded] /\ cached' = r
      BY <3>1, <3>3, NoIndexAssumption DEF IInv, TypeOK, Entries, Current
    <3> QED BY <2>3, <3>2, <3>3 DEF Load
  <2>4. ASSUME Apply(r) PROVE Promise!Change
    <3> DEFINE x == heap[cached]
    <3>1. /\ idx[r] = cached /\ cached # NoIndex /\ cached \in Requests
          /\ x \in Index /\ UNCHANGED cached /\ settled' = FALSE
          /\ call[r] \in {"upsert", "delete"} \X Chunks
          /\ minted' = IF call[r][1] = "upsert" THEN minted + 1 ELSE minted
      BY <2>4 DEF Apply, GoTo, IInv, TypeOK, Engaged, Calls
    <3>2. heap'[cached] = IF call[r][1] = "upsert" THEN With(x, call[r][2])
                          ELSE Without(x, call[r][2])
      BY <2>4, <3>1 DEF Apply, IInv, TypeOK
    <3>3. Entries = Known(x) /\ Entries' = Known(heap'[cached])
      BY <3>1 DEF Entries, Current
    <3>4. minted <= KeySpace /\ Paired(x)
      BY <3>1, KeySpaceAssumption DEF IInv, OneChunkPerKey
    <3>5. CASE call[r][1] = "upsert"
      <4>1. \A p \in x.graph \cup x.keyToChunk : p[1] < x.nextKey
        BY <3>1, <3>5, KeySpaceAssumption DEF IInv, NextKeyIsFree, Pairs, PairsInHeap
      <4>2. \A p \in x.graph \cup x.keyToChunk : p[1] # x.nextKey
        BY <3>1, <4>1, KeySpaceAssumption DEF Index, Nodes, Keys
      <4> HIDE DEF x
      <4>3. Known(With(x, call[r][2])) = Known(x) \cup {call[r][2]}
        BY <3>1, <3>4, <4>2, KnownWith
      <4> QED BY <3>1, <3>2, <3>3, <3>5, <4>3 DEF Promise!Change
    <3>6. CASE call[r][1] # "upsert"
      <4> HIDE DEF x
      <4>1. Known(Without(x, call[r][2])) = Known(x) \ {call[r][2]}
        BY <3>1, <3>4, KnownWithout
      <4> QED BY <3>1, <3>2, <3>3, <3>6, <4>1 DEF Promise!Change
    <3> QED BY <3>5, <3>6
  <2>5. ASSUME CreateIds(r) \/ WriteIds(r) \/ CreateGraph(r) \/ ExportNode(r)
        PROVE  Promise!Settle \/ UNCHANGED <<Entries, settled>>
    <3>1. UNCHANGED <<heap, cached>> /\ r \in Writers
      BY <2>5 DEF CreateIds, WriteIds, CreateGraph, ExportNode, GoTo, store, Writers, Holding
    <3>2. cached # NoIndex /\ settled = FALSE
      BY <3>1 DEF IInv, TypeOK, Engaged, RInv, Alone, Writers, Holding
    <3>3. Entries' = Entries
      BY <3>1, <3>2 DEF Entries, Current
    <3>4. settled' \in BOOLEAN \/ UNCHANGED settled
      BY <2>5 DEF CreateIds, WriteIds, CreateGraph, ExportNode, Return, ghost
    <3> QED BY <3>2, <3>3, <3>4 DEF Promise!Settle
  <2> QED BY <1>2, <2>1, <2>2, <2>3, <2>4, <2>5 DEF Request, Promise!Next
<1>3. ASSUME Crash PROVE [Promise!Next]_<<Entries, settled>>
  <2>1. cached' = NoIndex /\ UNCHANGED <<ids, graphBin, settled>>
    BY <1>3 DEF Crash, files, ghost
  <2>2. Entries' = Known(IF Unreadable THEN Empty ELSE Loaded)
    BY <2>1 DEF Entries, Current, Unreadable, Loaded
  <2>3. Entries' \in SUBSET Chunks
    BY <2>2, LoadedIndex, EmptyIndex, KnownType
  <2>4. settled => Entries' = Entries
    BY <2>2 DEF RInv, OnDisk, Entries, Current
  <2> QED BY <2>1, <2>3, <2>4 DEF Promise!Next, Promise!Restart
<1>4. CASE UNCHANGED vars
  BY <1>1, <1>4 DEF vars, store, files, ghost
<1> QED BY <1>2, <1>3, <1>4 DEF Next

\* As long as no more keys are given out than there are, the vector store implements
\* DurableIndex for any number of requests: one set of entries for every caller, and no
\* crash undoes a change that a lone writer has saved (HNSWStore over HNSWIndex.Save
\* and Load).
THEOREM Refinement ==
  ASSUME IsFiniteSet(Chunks) PROVE Spec /\ [](minted <= KeySpace) => ImplementsPromise
<1>1. Init => Promise!Init
  BY DEF Init, Promise!Init, Entries, Current, Unreadable, Loaded, Absent, Empty, Known
<1>2. IInv /\ RInv /\ [Next]_vars => RInv'
  BY NextRInv
<1> QED
  BY <1>1, <1>2, InitRInv, PromiseStep, Invariance, PTL DEF Spec, ImplementsPromise, Promise!Spec
=============================================================================
