---------------------------- MODULE KeywordProofs -----------------------------
(***************************************************************************)
(* Proofs about the keyword index, for any requests, chunks, words, texts  *)
(* and faults: the counts that a search relies on are right (KeywordIndex),*)
(* no two copies of an index are ever in use, and the store keeps the      *)
(* promise of DurableIndex (KeywordStore).                                 *)
(***************************************************************************)
EXTENDS KeywordIndex, KeywordStore, FiniteSetTheorems, TLAPS

(* The statistics of an index.                                             *)

\* A new index has nothing and counts nothing.
LEMMA NewIsExact == NewBM25Index \in Index /\ Exact(NewBM25Index)
<1> DEFINE x == NewBM25Index
<1>1. DOMAIN x.docs = {} /\ x.n = 0 /\ x.totalLength = 0 /\ x.df = [t \in Terms |-> 0]
  BY DEF NewBM25Index
<1>2. Places(x) = {} /\ \A t \in Terms : Having(x, t) = {}
  BY <1>1 DEF Places, Having
<1>3. Exact(x)
  BY <1>1, <1>2, FS_EmptySet DEF Exact
<1>4. x.docs \in [{} -> Texts]
  BY DEF NewBM25Index
<1>5. x \in Index
  BY <1>1, <1>4 DEF NewBM25Index, Index
<1> QED
  BY <1>3, <1>5

\* What an index of this type is made of.
LEMMA IndexForm ==
  ASSUME NEW x \in Index
  PROVE  /\ DOMAIN x.docs \subseteq ChunkIDs
         /\ x.docs \in [DOMAIN x.docs -> Texts]
         /\ x.df \in [Terms -> Nat] /\ x.n \in Nat /\ x.totalLength \in Nat
         /\ \A c \in DOMAIN x.docs : /\ Len(x.docs[c]) \in Nat
                                     /\ DOMAIN x.docs[c] = 1 .. Len(x.docs[c])
<1>1. PICK S \in SUBSET ChunkIDs : x.docs \in [S -> Texts]
  BY DEF Index
<1>2. \A c \in S : x.docs[c] \in Seq(Terms)
  BY <1>1, TextAssumption
<1>3. DOMAIN x.docs = S
  BY <1>1
<1> QED
  BY <1>1, <1>2, <1>3 DEF Index

\* A chunk has as many places as words.
LEMMA PlacesOfOne ==
  ASSUME NEW c, NEW n \in Nat
  PROVE  IsFiniteSet({c} \X (1 .. n)) /\ Cardinality({c} \X (1 .. n)) = n
<1> DEFINE f == [i \in 1 .. n |-> <<c, i>>]
<1>1. f \in Bijection(1 .. n, {c} \X (1 .. n))
  <2>1. f \in [1 .. n -> {c} \X (1 .. n)]
    OBVIOUS
  <2>2. \A i, j \in 1 .. n : f[i] = f[j] => i = j
    OBVIOUS
  <2>3. \A t \in {c} \X (1 .. n) : \E i \in 1 .. n : f[i] = t
    OBVIOUS
  <2> QED
    BY <2>1, <2>2, <2>3 DEF Bijection, Injection, Surjection, IsInjective
<1>2. ExistsBijection(1 .. n, {c} \X (1 .. n))
  BY <1>1 DEF ExistsBijection
<1>3. IsFiniteSet(1 .. n) /\ Cardinality(1 .. n) = n
  BY FS_Interval
<1> QED
  BY <1>2, <1>3, FS_Bijection

\* A chunk that is removed takes its words and itself out of every total.
LEMMA RemovedIsExact ==
  ASSUME NEW x \in Index, Exact(x), NEW c \in DOMAIN x.docs
  PROVE  Removed(x, c) \in Index /\ Exact(Removed(x, c)) /\ c \notin DOMAIN Removed(x, c).docs
<1> DEFINE y == Removed(x, c)
           D == DOMAIN x.docs
           N == Len(x.docs[c])
<1>0. /\ D \subseteq ChunkIDs /\ x.docs \in [D -> Texts] /\ N \in Nat
      /\ DOMAIN x.docs[c] = 1 .. N
      /\ x.df \in [Terms -> Nat] /\ x.n \in Nat /\ x.totalLength \in Nat
  BY IndexForm
<1>1. /\ y.docs = [d \in D \ {c} |-> x.docs[d]] /\ DOMAIN y.docs = D \ {c}
      /\ y.n = x.n - 1 /\ y.totalLength = x.totalLength - N
      /\ y.df = [t \in Terms |->
                   IF t \notin Range(x.docs[c]) THEN x.df[t]
                   ELSE IF x.df[t] <= 1 THEN 0 ELSE x.df[t] - 1]
      /\ y = [docs |-> y.docs, df |-> y.df, n |-> y.n, totalLength |-> y.totalLength]
  BY DEF Removed
<1> HIDE DEF y
<1>2. IsFiniteSet(DOMAIN y.docs) /\ y.n = Cardinality(DOMAIN y.docs) /\ y.n \in Nat
  <2>1. IsFiniteSet(D) /\ x.n = Cardinality(D)
    BY DEF Exact
  <2>2. IsFiniteSet(D \ {c}) /\ Cardinality(D \ {c}) = Cardinality(D) - 1
    BY <2>1, FS_RemoveElement
  <2>3. Cardinality(D \ {c}) \in Nat
    BY <2>2, FS_CardinalityType
  <2> QED
    BY <1>1, <2>1, <2>2, <2>3
<1>3. IsFiniteSet(Places(y)) /\ y.totalLength = Cardinality(Places(y)) /\ y.totalLength \in Nat
  <2> DEFINE P == {c} \X (1 .. N)
  <2>1. IsFiniteSet(Places(x)) /\ x.totalLength = Cardinality(Places(x))
    BY DEF Exact
  <2>2. P \subseteq Places(x)
    BY <1>0 DEF Places
  <2>3. Places(y) = Places(x) \ P
    <3>1. Places(y) = UNION {{d} \X DOMAIN y.docs[d] : d \in D \ {c}}
      BY <1>1 DEF Places
    <3>2. \A d \in D \ {c} : {d} \X DOMAIN y.docs[d] = {d} \X DOMAIN x.docs[d]
      BY <1>1
    <3>3. Places(y) = UNION {{d} \X DOMAIN x.docs[d] : d \in D \ {c}}
      BY <3>1, <3>2
    <3>4. {c} \X DOMAIN x.docs[c] = P
      BY <1>0
    <3> QED
      BY <3>3, <3>4 DEF Places
  <2>4. Places(x) \cap P = P
    BY <2>2
  <2>5. Cardinality(P) = N
    BY <1>0, PlacesOfOne
  <2>6. /\ IsFiniteSet(Places(x) \ P)
        /\ Cardinality(Places(x) \ P) = Cardinality(Places(x)) - Cardinality(Places(x) \cap P)
    BY <2>1, FS_Difference
  <2>7. Cardinality(Places(x) \ P) \in Nat
    BY <2>6, FS_CardinalityType
  <2>8. y.totalLength = x.totalLength - N
    BY <1>1
  <2> QED
    BY <2>1, <2>3, <2>4, <2>5, <2>6, <2>7, <2>8
<1>4. ASSUME NEW t \in Terms
      PROVE  y.df[t] = Cardinality(Having(y, t)) /\ y.df[t] \in Nat
  <2>1. Having(y, t) = Having(x, t) \ {c}
    BY <1>1 DEF Having
  <2>2. IsFiniteSet(Having(x, t)) /\ x.df[t] = Cardinality(Having(x, t))
    <3>1. IsFiniteSet(D) /\ Having(x, t) \in SUBSET D
      BY DEF Exact, Having
    <3> QED
      BY <3>1, FS_Subset DEF Exact
  <2>3. CASE t \notin Range(x.docs[c])
    <3>1. Having(y, t) = Having(x, t)
      BY <2>1, <2>3 DEF Having
    <3> QED
      BY <1>0, <1>1, <2>2, <2>3, <3>1
  <2>4. CASE t \in Range(x.docs[c])
    <3>1. c \in Having(x, t)
      BY <2>4 DEF Having
    <3>2. IsFiniteSet(Having(y, t)) /\ Cardinality(Having(y, t)) = Cardinality(Having(x, t)) - 1
      BY <2>1, <2>2, <3>1, FS_RemoveElement
    <3>3. Cardinality(Having(y, t)) \in Nat
      BY <3>2, FS_CardinalityType
    <3>4. x.df[t] \in Nat
      BY <1>0
    <3>5. y.df[t] = IF x.df[t] <= 1 THEN 0 ELSE x.df[t] - 1
      BY <1>1, <2>4
    <3> QED
      BY <2>2, <3>2, <3>3, <3>4, <3>5
  <2> QED
    BY <2>3, <2>4
<1>5. y \in Index
  <2>1. y.docs \in [D \ {c} -> Texts] /\ D \ {c} \in SUBSET ChunkIDs
    BY <1>0, <1>1
  <2>2. y.df \in [Terms -> Nat]
    BY <1>1, <1>4
  <2>3. y.docs \in UNION {[S -> Texts] : S \in SUBSET ChunkIDs}
    BY <2>1
  <2> QED
    BY <1>1, <1>2, <1>3, <2>2, <2>3 DEF Index
<1> QED
  BY <1>1, <1>2, <1>3, <1>4, <1>5 DEF Exact, y

\* A chunk that is entered, and was not there, counts once for each of its words.
LEMMA EnteredIsExact ==
  ASSUME NEW x \in Index, Exact(x), NEW c \in ChunkIDs, c \notin DOMAIN x.docs, NEW tokens \in Texts
  PROVE  Entered(x, c, tokens) \in Index /\ Exact(Entered(x, c, tokens))
<1> DEFINE y == Entered(x, c, tokens)
           D == DOMAIN x.docs
           N == Len(tokens)
<1>0. /\ D \subseteq ChunkIDs /\ x.docs \in [D -> Texts] /\ N \in Nat
      /\ DOMAIN tokens = 1 .. N
      /\ x.df \in [Terms -> Nat] /\ x.n \in Nat /\ x.totalLength \in Nat
  BY IndexForm, TextAssumption
<1>1. /\ y.docs = [d \in D \cup {c} |-> IF d = c THEN tokens ELSE x.docs[d]]
      /\ DOMAIN y.docs = D \cup {c} /\ y.docs[c] = tokens
      /\ y.n = x.n + 1 /\ y.totalLength = x.totalLength + N
      /\ y.df = [t \in Terms |-> IF t \in Range(tokens) THEN x.df[t] + 1 ELSE x.df[t]]
      /\ y = [docs |-> y.docs, df |-> y.df, n |-> y.n, totalLength |-> y.totalLength]
      /\ \A d \in D : y.docs[d] = x.docs[d]
  BY DEF Entered
<1> HIDE DEF y
<1>2. IsFiniteSet(DOMAIN y.docs) /\ y.n = Cardinality(DOMAIN y.docs) /\ y.n \in Nat
  <2>1. IsFiniteSet(D) /\ x.n = Cardinality(D)
    BY DEF Exact
  <2>2. y.n = x.n + 1 /\ x.n \in Nat /\ DOMAIN y.docs = D \cup {c} /\ c \notin D
    BY <1>0, <1>1
  <2>3. IsFiniteSet(D \cup {c}) /\ Cardinality(D \cup {c}) = Cardinality(D) + 1
    BY <2>1, <2>2, FS_AddElement
  <2> QED
    BY <2>1, <2>2, <2>3
<1>3. IsFiniteSet(Places(y)) /\ y.totalLength = Cardinality(Places(y)) /\ y.totalLength \in Nat
  <2> DEFINE P == {c} \X (1 .. N)
  <2>1. IsFiniteSet(Places(x)) /\ x.totalLength = Cardinality(Places(x))
    BY DEF Exact
  <2>2. Places(x) \cap P = {}
    BY DEF Places
  <2>3. Places(y) = Places(x) \cup P
    <3>1. Places(y) = UNION {{d} \X DOMAIN y.docs[d] : d \in D \cup {c}}
      BY <1>1 DEF Places
    <3>2. {c} \X DOMAIN y.docs[c] = P
      BY <1>0, <1>1
    <3>3. \A d \in D : {d} \X DOMAIN y.docs[d] = {d} \X DOMAIN x.docs[d]
      BY <1>1
    <3> QED
      BY <3>1, <3>2, <3>3 DEF Places
  <2>4. IsFiniteSet(P) /\ Cardinality(P) = N
    BY <1>0, PlacesOfOne
  <2>5. /\ IsFiniteSet(Places(x) \cup P)
        /\ Cardinality(Places(x) \cup P)
             = Cardinality(Places(x)) + Cardinality(P) - Cardinality(Places(x) \cap P)
    BY <2>1, <2>4, FS_Union
  <2>6. y.totalLength = x.totalLength + N /\ x.totalLength \in Nat /\ N \in Nat
    BY <1>0, <1>1
  <2>7. Cardinality(Places(x) \cap P) = 0
    BY <2>2, FS_EmptySet
  <2> QED
    BY <2>1, <2>3, <2>4, <2>5, <2>6, <2>7
<1>4. ASSUME NEW t \in Terms
      PROVE  y.df[t] = Cardinality(Having(y, t)) /\ y.df[t] \in Nat
  <2>1. IsFiniteSet(Having(x, t)) /\ x.df[t] = Cardinality(Having(x, t)) /\ c \notin Having(x, t)
    <3>1. IsFiniteSet(D) /\ Having(x, t) \in SUBSET D
      BY DEF Exact, Having
    <3> QED
      BY <3>1, FS_Subset DEF Exact
  <2>2. CASE t \in Range(tokens)
    <3>1. Having(y, t) = Having(x, t) \cup {c}
      BY <1>1, <2>2 DEF Having
    <3>2. y.df[t] = x.df[t] + 1 /\ x.df[t] \in Nat
      BY <1>0, <1>1, <2>2
    <3>3. Cardinality(Having(x, t) \cup {c}) = Cardinality(Having(x, t)) + 1
      BY <2>1, FS_AddElement
    <3> QED
      BY <2>1, <3>1, <3>2, <3>3
  <2>3. CASE t \notin Range(tokens)
    <3>1. Having(y, t) = Having(x, t)
      BY <1>1, <2>3 DEF Having
    <3> QED
      BY <1>0, <1>1, <2>1, <2>3, <3>1
  <2> QED
    BY <2>2, <2>3
<1>5. y \in Index
  <2>1. y.docs \in [D \cup {c} -> Texts] /\ D \cup {c} \in SUBSET ChunkIDs
    BY <1>0, <1>1
  <2>2. y.df \in [Terms -> Nat]
    BY <1>1, <1>4
  <2>3. y.docs \in UNION {[S -> Texts] : S \in SUBSET ChunkIDs}
    BY <2>1
  <2> QED
    BY <1>1, <1>2, <1>3, <2>2, <2>3 DEF Index
<1> QED
  BY <1>2, <1>3, <1>4, <1>5 DEF Exact, y

\* Every step leaves both indexes exact.
LEMMA IndexStep == IndexInv /\ [INext]_ivars => IndexInv'
<1> SUFFICES ASSUME IndexInv, [INext]_ivars PROVE IndexInv'
  OBVIOUS
<1>1. ASSUME NEW c \in ChunkIDs, Delete(c) PROVE IndexInv'
  BY <1>1, RemovedIsExact DEF Delete, Has, IndexInv
<1>2. ASSUME NEW c \in ChunkIDs, NEW tokens \in Texts, Add(c, tokens) PROVE IndexInv'
  <2>1. CASE Has(index, c)
    <3>1. /\ Removed(index, c) \in Index /\ Exact(Removed(index, c))
          /\ c \notin DOMAIN Removed(index, c).docs
      BY <2>1, RemovedIsExact DEF Has, IndexInv
    <3>2. index' = Entered(Removed(index, c), c, tokens) /\ saved' = saved
      BY <1>2, <2>1 DEF Add, Added
    <3> QED
      BY <3>1, <3>2, EnteredIsExact DEF IndexInv
  <2>2. CASE ~Has(index, c)
    <3>1. index' = Entered(index, c, tokens) /\ saved' = saved
      BY <1>2, <2>2 DEF Add, Added
    <3> QED
      BY <2>2, <3>1, EnteredIsExact DEF Has, IndexInv
  <2> QED
    BY <2>1, <2>2
<1>3. CASE Save \/ Restart \/ UNCHANGED ivars
  BY <1>3 DEF Save, Restart, ivars, IndexInv
<1> QED
  BY <1>1, <1>2, <1>3 DEF INext

\* The index in memory and the one on disk are exact in every behaviour.
THEOREM IndexInvariance == ISpec => []IndexInv
<1>1. IInit => IndexInv
  BY NewIsExact DEF IInit, IndexInv
<1> QED
  BY <1>1, IndexStep, PTL DEF ISpec

\* For any chunks, words and texts: the number of chunks, the sum of their lengths and
\* the number of chunks with each word are what the index says they are, whatever was
\* added, replaced, deleted, saved and loaded (BM25Index.addDocLocked, removeDocLocked).
THEOREM Statistics == ISpec => []StatisticsAreExact
<1>1. IndexInv => StatisticsAreExact
  BY IndexForm DEF IndexInv, Exact, StatisticsAreExact
<1> QED
  BY <1>1, IndexInvariance, PTL

\* For any chunks, words and texts: a chunk with a word of the query is found, for the
\* counts on which Search skips a word, or everything, are right.
THEOREM EveryMatch == ISpec => []SearchFindsEveryMatch
<1>1. ASSUME IndexInv, NEW query \in Texts
      PROVE  Hits(index, query) =
               {c \in DOMAIN index.docs : Range(query) \cap Range(index.docs[c]) # {}}
  <2>1. index \in Index /\ Exact(index)
    BY <1>1 DEF IndexInv
  <2>2. Range(query) \subseteq Terms
    BY TextAssumption DEF Range
  <2>3. index.n = 0 => DOMAIN index.docs = {}
    BY <2>1, FS_EmptySet DEF Exact
  <2>4. ASSUME NEW c \in DOMAIN index.docs, NEW t \in Range(query), t \in Range(index.docs[c])
        PROVE  index.df[t] # 0
    <3>1. t \in Terms /\ c \in Having(index, t) /\ Having(index, t) \in SUBSET DOMAIN index.docs
      BY <2>2, <2>4 DEF Having
    <3>2. IsFiniteSet(Having(index, t)) /\ index.df[t] = Cardinality(Having(index, t))
      BY <2>1, <3>1, FS_Subset DEF Exact
    <3> QED
      BY <3>1, <3>2, FS_EmptySet
  <2> QED
    BY <2>3, <2>4 DEF Hits
<1>2. IndexInv => SearchFindsEveryMatch
  BY <1>1 DEF SearchFindsEveryMatch
<1> QED
  BY <1>2, IndexInvariance, PTL

-----------------------------------------------------------------------------
(* The cache and the file around it.                                       *)

\* Init satisfies the inductive invariant.
LEMMA InitIInv == Init => IInv
BY DEF Init, IInv, TypeOK, Called, OneIndex, Alone, OnDisk, Writers, Absent, Torn

\* Every step of the store, failing or not, keeps the invariant.
LEMMA IInvStep == IInv /\ [Next]_vars => IInv'
<1> SUFFICES ASSUME IInv, [Next]_vars PROVE IInv'
  OBVIOUS
<1> USE NoIndexAssumption DEF IInv, TypeOK, Called, OneIndex, Alone, OnDisk, Writers, GoTo, Forget
<1>0. CASE UNCHANGED vars
  BY <1>0 DEF vars
<1>1. ASSUME NEW r \in Requests, NEW c \in Calls, Lookup(r, c) PROVE IInv'
  BY <1>1 DEF Lookup
<1>2. ASSUME NEW r \in Requests, Load(r) PROVE IInv'
  BY <1>2 DEF Load, Whole, Absent, Torn
<1>3. ASSUME NEW r \in Requests, LoadFails(r) PROVE IInv'
  BY <1>3 DEF LoadFails
<1>4. ASSUME NEW r \in Requests, Apply(r) PROVE IInv'
  <2>1. call[r] \in {"add", "delete"} \X Chunks /\ idx[r] = cached /\ cached \in Requests
    BY <1>4 DEF Apply, Calls
  <2>2. heap' \in [Requests -> SUBSET Chunks]
    BY <1>4, <2>1 DEF Apply
  <2>3. TypeOK'
    BY <1>4, <2>2 DEF Apply
  <2>4. Called' /\ OneIndex' /\ OnDisk'
    BY <1>4, <2>1 DEF Apply
  <2>5. Alone'
    BY <1>4 DEF Apply
  <2> QED
    BY <2>3, <2>4, <2>5
<1>5. ASSUME NEW r \in Requests, Search(r) PROVE IInv'
  BY <1>5 DEF Search
<1>6. ASSUME NEW r \in Requests, Encode(r) PROVE IInv'
  BY <1>6 DEF Encode
<1>7. ASSUME NEW r \in Requests, Truncate(r) PROVE IInv'
  BY <1>7 DEF Truncate
<1>8. ASSUME NEW r \in Requests, Write(r) PROVE IInv'
  <2>1. settled' \in BOOLEAN /\ (settled' <=> r \in alone)
    BY <1>8 DEF Write
  <2>2. file' = Whole(data[r]) /\ data[r] \in SUBSET Chunks /\ UNCHANGED <<heap, cached, faults, alone>>
    BY <1>8 DEF Write
  <2>3. TypeOK' /\ Called' /\ OneIndex'
    BY <1>8, <2>1, <2>2 DEF Write
  <2>4. r \in alone => Writers' = {} /\ data[r] = heap[cached]
    BY <1>8 DEF Write
  <2>5. OnDisk'
    BY <2>1, <2>2, <2>4 DEF Whole, Torn
  <2>6. Alone'
    BY <1>8, <2>2 DEF Write
  <2> QED
    BY <2>3, <2>5, <2>6
<1>9. ASSUME NEW r \in Requests, WriteFails(r) PROVE IInv'
  BY <1>9 DEF WriteFails
<1>10. CASE Crash
  BY <1>10 DEF Crash
<1> QED
  BY <1>0, <1>1, <1>2, <1>3, <1>4, <1>5, <1>6, <1>7, <1>8, <1>9, <1>10 DEF Next, Request

\* The invariant holds of every behaviour of the store.
THEOREM Invariance == Spec => []IInv
BY InitIInv, IInvStep, PTL DEF Spec

\* The index in memory, its file and every caller keep their types.
THEOREM TypeCorrect == Spec => []TypeOK
<1>1. IInv => TypeOK
  BY DEF IInv
<1> QED
  BY <1>1, Invariance, PTL

\* Two requests that find the store unloaded at once end up with one index: the
\* check under the write lock of getOrLoad is enough.
THEOREM SingleIndex == Spec => []OneIndex
<1>1. IInv => OneIndex
  BY DEF IInv
<1> QED
  BY <1>1, Invariance, PTL

\* Every step of the store is a step of the promise or changes nothing it speaks of.
LEMMA PromiseStep == IInv /\ [Next]_vars => [Promise!Next]_<<Entries, settled>>
<1> SUFFICES ASSUME IInv, [Next]_vars PROVE [Promise!Next]_<<Entries, settled>>
  OBVIOUS
<1> USE NoIndexAssumption DEF IInv, TypeOK, OneIndex, GoTo, Entries
<1>0. CASE UNCHANGED vars
  BY <1>0 DEF vars
<1>1. ASSUME NEW r \in Requests, NEW c \in Calls, Lookup(r, c)
      PROVE  UNCHANGED <<Entries, settled>>
  BY <1>1 DEF Lookup
<1>2. ASSUME NEW r \in Requests, Load(r)
      PROVE  UNCHANGED <<Entries, settled>>
  BY <1>2 DEF Load
<1>3. ASSUME NEW r \in Requests, LoadFails(r) \/ Search(r) \/ Encode(r) \/ WriteFails(r)
      PROVE  UNCHANGED <<Entries, settled>>
  BY <1>3 DEF LoadFails, Search, Encode, WriteFails
<1>4. ASSUME NEW r \in Requests, Apply(r) PROVE Promise!Change
  <2>1. call[r] \in {"add", "delete"} \X Chunks /\ idx[r] = cached /\ cached \in Requests
    BY <1>4 DEF Apply, Calls, Called
  <2>2. Entries' \in {Entries \cup {call[r][2]}, Entries \ {call[r][2]}}
    BY <1>4, <2>1 DEF Apply
  <2> QED
    BY <1>4, <2>1, <2>2 DEF Apply, Promise!Change
<1>5. ASSUME NEW r \in Requests, Truncate(r)
      PROVE  UNCHANGED <<Entries, settled>>
  BY <1>5 DEF Truncate
<1>6. ASSUME NEW r \in Requests, Write(r)
      PROVE  Promise!Settle \/ UNCHANGED <<Entries, settled>>
  <2>1. Entries' = Entries
    BY <1>6 DEF Write
  <2>2. settled = FALSE
    BY <1>6 DEF Write, OnDisk, Writers
  <2>3. settled' = TRUE \/ settled' = FALSE
    BY <1>6 DEF Write
  <2> QED
    BY <2>1, <2>2, <2>3 DEF Promise!Settle
<1>7. CASE Crash
  <2>1. Entries' = file.docs /\ settled' = settled
    BY <1>7 DEF Crash
  <2>2. file.docs \in SUBSET Chunks
    BY DEF Absent, Torn, Whole
  <2>3. settled => Entries' = Entries
    BY <2>1 DEF OnDisk
  <2> QED
    BY <2>1, <2>2, <2>3 DEF Promise!Restart, Promise!Next
<1> QED
  BY <1>0, <1>1, <1>2, <1>3, <1>4, <1>5, <1>6, <1>7 DEF Next, Request, Promise!Next

\* The keyword store implements DurableIndex: one set of entries for every caller,
\* and no crash undoes a change that a lone writer has written.
THEOREM Refinement == Spec => ImplementsPromise
<1>1. Init => Promise!Init
  BY NoIndexAssumption DEF Init, Promise!Init, Entries, Absent
<1> QED
  BY <1>1, PromiseStep, Invariance, PTL DEF Spec, ImplementsPromise, Promise!Spec
===============================================================================
