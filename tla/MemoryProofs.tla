----------------------------- MODULE MemoryProofs -----------------------------
(***************************************************************************)
(* Proofs about MemoryService and MemorySearch, for every set of requests, *)
(* contents, searches and faults, and every way of cutting contents into   *)
(* chunks: first the writers alone, then what searches see of them.        *)
(***************************************************************************)
EXTENDS MemorySearch, TLAPS

(* Save, Update and Delete.                                                *)

\* Init satisfies each part of the inductive invariant.
LEMMA InitIInv == Init => IInv
<1> SUFFICES ASSUME Init PROVE IInv
  OBVIOUS
<1> USE DEF Init, Memories
<1>1. TypeOK
  BY FaultAssumption DEF TypeOK, Handlers
<1>2. \A r \in Requests : ~Active(r)
  BY DEF Active, Steps
<1>3. \A m \in Memories : EntriesOf(m) = {}
  BY DEF EntriesOf
<1>4. Control /\ Unborn /\ Ownership /\ Solitude /\ AllProgress
  BY <1>2 DEF Control, Unborn, Ownership, Solitude, AllProgress
<1>5. QuietMemoriesAreCoherent /\ EntriesAreReachable
  BY <1>3 DEF QuietMemoriesAreCoherent, EntriesAreReachable, Coherent
<1> QED
  BY <1>1, <1>4, <1>5 DEF IInv

\* The chunks a request builds are chunk identifiers, once its text is known.
LEMMA ChunksTyped ==
  ASSUME NEW r \in Requests, text[r] \in Contents
  PROVE  Chunks(r) \subseteq ChunkIds
BY ContentAssumption DEF Chunks, ChunkIds

\* The indexes in use are among those there are.
LEMMA IndexedKinds == Indexed \subseteq Kinds
BY DEF Indexed, Kinds

\* Type correctness is inductive once one knows that a request that builds chunks
\* has a text to build them from.
LEMMA TypeStep == TypeOK /\ Control /\ [Next]_vars => TypeOK'
<1> SUFFICES ASSUME TypeOK, Control, [Next]_vars PROVE TypeOK'
  OBVIOUS
<1> USE DEF TypeOK, Memories
<1>0. CASE UNCHANGED vars
  BY <1>0 DEF vars, files, locals, history
<1>1. ASSUME NEW r \in Requests, SaveStep(r) PROVE TypeOK'
  BY <1>1 DEF SaveStep, Save, Begin, Steps, Handlers, files
<1>2. ASSUME NEW r \in Requests, UpdateStep(r) PROVE TypeOK'
  BY <1>2 DEF UpdateStep, Update, Begin, Steps, Handlers, files
<1>3. ASSUME NEW r \in Requests, DeleteStep(r) PROVE TypeOK'
  BY <1>3 DEF DeleteStep, Delete, Begin, Steps, Handlers, files
<1>4. ASSUME NEW r \in Requests, Refuse(r) PROVE TypeOK'
  BY <1>4 DEF Refuse, files, locals, history
<1>5. ASSUME NEW r \in Requests, GetChunks(r) PROVE TypeOK'
  <2>1. Kinds \X chunkFile[mem[r]] \subseteq Kinds \X ChunkIds
    OBVIOUS
  <2> QED
    BY <1>5, <2>1 DEF GetChunks, GoTo, AfterUnindex, Steps, files, locals, history
<1>6. ASSUME NEW r \in Requests, Unindex(r) PROVE TypeOK'
  BY <1>6 DEF Unindex, GoTo, AfterUnindex, Steps, files, locals, history
<1>7. ASSUME NEW r \in Requests, DropChunks(r) PROVE TypeOK'
  BY <1>7 DEF DropChunks, GoTo, Steps, locals, history
<1>8. ASSUME NEW r \in Requests, SaveChunks(r) PROVE TypeOK'
  <2>1. text[r] \in Contents
    BY <1>8 DEF SaveChunks, Control, Active, Steps
  <2>2. Chunks(r) \in SUBSET ChunkIds /\ Indexed \X Chunks(r) \in SUBSET (Kinds \X ChunkIds)
    BY <2>1, ChunksTyped, IndexedKinds
  <2>3. chunkFile' \in [Memories -> SUBSET ChunkIds]
    BY <1>8, <2>2 DEF SaveChunks
  <2>4. todo' \in [Requests -> SUBSET (Kinds \X ChunkIds)]
    BY <1>8, <2>2 DEF SaveChunks
  <2> QED
    BY <1>8, <2>3, <2>4 DEF SaveChunks, GoTo, AfterIndex, Steps, locals, history
<1>9. ASSUME NEW r \in Requests, Index(r) PROVE TypeOK'
  BY <1>9 DEF Index, GoTo, AfterIndex, Steps, files, locals, history
<1>10. ASSUME NEW r \in Requests, WriteRecord(r) PROVE TypeOK'
  BY <1>10 DEF WriteRecord, GoTo, Steps, locals
<1>11. ASSUME NEW r \in Requests, DropRecord(r) PROVE TypeOK'
  BY <1>11 DEF DropRecord, GoTo, Steps, locals
<1>12. ASSUME NEW r \in Requests, Failure(r) PROVE TypeOK'
  <2>1. faults' \in 0 .. MaxFaults
    BY <1>12, FaultAssumption DEF Failure, Fail, GetChunksFails, IndexCallFails, Fault
  <2>2. CASE Fail(r)
    BY <2>1, <2>2 DEF Fail, files, locals
  <2>3. CASE GetChunksFails(r)
    BY <2>1, <2>3 DEF GetChunksFails, GoTo, Steps, files, locals
  <2>4. CASE IndexCallFails(r)
    BY <2>1, <2>4 DEF IndexCallFails, GoTo, AfterUnindex, AfterIndex, Steps, files, locals
  <2> QED
    BY <1>12, <2>2, <2>3, <2>4 DEF Failure
<1>13. CASE Crash
  <2>1. faults' \in 0 .. MaxFaults
    BY <1>13, FaultAssumption DEF Crash, Fault
  <2> QED
    BY <1>13, <2>1 DEF Crash, files, locals
<1> QED
  BY <1>0, <1>1, <1>2, <1>3, <1>4, <1>5, <1>6, <1>7, <1>8, <1>9, <1>10, <1>11, <1>12, <1>13
     DEF Next, Request, Call

\* Which calls a handler reaches depends on its own variables only.
LEMMA ControlStep == TypeOK /\ Control /\ [Next]_vars => Control'
<1> SUFFICES ASSUME TypeOK, Control, [Next]_vars PROVE Control'
  OBVIOUS
<1> USE DEF TypeOK, Control, Active, Steps, Memories
<1>0. CASE UNCHANGED vars
  BY <1>0 DEF vars, files, locals, history
<1>1. ASSUME NEW r \in Requests, SaveStep(r) \/ DeleteStep(r) \/ Refuse(r) PROVE Control'
  BY <1>1 DEF SaveStep, Save, DeleteStep, Delete, Refuse, Begin, locals
<1>2. ASSUME NEW r \in Requests, UpdateStep(r) PROVE Control'
  <2>1. PICK m \in Memories, c \in Contents : Update(r, m, c)
    BY <1>2 DEF UpdateStep
  <2>2. CASE c = record[m]
    <3>1. Begin(r, "update", m, c, FALSE, "writeRecord")
      BY <2>1, <2>2 DEF Update
    <3> QED
      BY <3>1 DEF Begin
  <2>3. CASE c # record[m]
    <3>1. Begin(r, "update", m, c, TRUE, "getChunks")
      BY <2>1, <2>3 DEF Update
    <3> QED
      BY <3>1 DEF Begin
  <2> QED
    BY <2>2, <2>3
<1>3. ASSUME NEW r \in Requests, Call(r) PROVE Control'
  <2>1. CASE GetChunks(r) \/ Unindex(r)
    BY <2>1 DEF GetChunks, Unindex, GoTo, AfterUnindex, locals
  <2>2. CASE DropChunks(r)
    BY <2>2 DEF DropChunks, GoTo, locals, Handlers
  <2>3. CASE SaveChunks(r) \/ Index(r)
    BY <2>3 DEF SaveChunks, Index, GoTo, AfterIndex, locals, Handlers
  <2>4. CASE WriteRecord(r) \/ DropRecord(r)
    BY <2>4 DEF WriteRecord, DropRecord, GoTo, locals
  <2> QED
    BY <1>3, <2>1, <2>2, <2>3, <2>4 DEF Call
<1>4. ASSUME NEW r \in Requests, Failure(r) PROVE Control'
  <2>1. CASE Fail(r)
    BY <2>1 DEF Fail, locals
  <2>2. CASE GetChunksFails(r)
    BY <2>2 DEF GetChunksFails, GoTo, locals
  <2>3. CASE IndexCallFails(r)
    BY <2>3 DEF IndexCallFails, GoTo, AfterUnindex, AfterIndex, locals, Handlers
  <2> QED
    BY <1>4, <2>1, <2>2, <2>3 DEF Failure
<1>5. CASE Crash
  BY <1>5 DEF Crash, locals
<1> QED
  BY <1>0, <1>1, <1>2, <1>3, <1>4, <1>5 DEF Next, Request

-----------------------------------------------------------------------------
\* Save, Update and Delete all begin in the same way: on the memory the request
\* names itself, or on one that is there.
Begins(r, m) ==
  /\ pc[r] = "idle"
  /\ m = r \/ record[m] # NoContent
  /\ \E next \in {"writeRecord", "getChunks"} : pc' = [pc EXCEPT ![r] = next]
  /\ \E c \in Contents : text' = [text EXCEPT ![r] = c]
  /\ mem' = [mem EXCEPT ![r] = m]
  /\ \A s \in Requests \ {r} : op'[s] = op[s] /\ rebuild'[s] = rebuild[s]
  /\ overlap' = IF Busy(m) THEN overlap \cup {m} ELSE overlap
  /\ UNCHANGED <<record, chunkFile, index, todo, lost, damaged>>

\* Save, Update and Delete begin alike, whatever they are asked for.
LEMMA StartForm ==
  ASSUME TypeOK, NEW r \in Requests, SaveStep(r) \/ UpdateStep(r) \/ DeleteStep(r)
  PROVE  \E m \in Memories : Begins(r, m)
<1> USE DEF Begins, Begin, Steps, files, TypeOK, Memories
<1>1. CASE SaveStep(r)
  BY <1>1 DEF SaveStep, Save
<1>2. CASE UpdateStep(r)
  BY <1>2 DEF UpdateStep, Update
<1>3. CASE DeleteStep(r)
  BY <1>3 DEF DeleteStep, Delete
<1> QED
  BY <1>1, <1>2, <1>3

\* A step that begins nothing gives no request another memory or text, wakes no
\* request up, and takes one that has begun no further back than its first call.
Later ==
  \/ \E r \in Requests : Refuse(r) \/ Call(r) \/ Failure(r)
  \/ Crash

\* Later is what its comment says.
LEMMA LaterSteps ==
  ASSUME TypeOK, Later
  PROVE  /\ UNCHANGED <<mem, text, op, rebuild, overlap>>
         /\ \A s \in Requests : pc'[s] = "idle" => pc[s] = "idle"
         /\ \A s \in Requests : Active(s)' => Active(s)
<1> USE DEF TypeOK, Active, Steps, locals, history, Later
<1>1. CASE \E r \in Requests : Refuse(r)
  BY <1>1 DEF Refuse
<1>2. CASE \E r \in Requests : Call(r)
  <2>1. CASE \E r \in Requests : GetChunks(r) \/ Unindex(r)
    BY <2>1 DEF GetChunks, Unindex, GoTo, AfterUnindex
  <2>2. CASE \E r \in Requests : SaveChunks(r) \/ Index(r)
    BY <2>2 DEF SaveChunks, Index, GoTo, AfterIndex
  <2>3. CASE \E r \in Requests : DropChunks(r) \/ WriteRecord(r) \/ DropRecord(r)
    BY <2>3 DEF DropChunks, WriteRecord, DropRecord, GoTo
  <2> QED
    BY <1>2, <2>1, <2>2, <2>3 DEF Call
<1>3. CASE \E r \in Requests : Failure(r)
  <2>1. CASE \E r \in Requests : Fail(r)
    BY <2>1 DEF Fail
  <2>2. CASE \E r \in Requests : GetChunksFails(r)
    BY <2>2 DEF GetChunksFails, GoTo
  <2>3. CASE \E r \in Requests : IndexCallFails(r)
    BY <2>3 DEF IndexCallFails, GoTo, AfterUnindex, AfterIndex
  <2> QED
    BY <1>3, <2>1, <2>2, <2>3 DEF Failure
<1>4. CASE Crash
  BY <1>4 DEF Crash
<1> QED
  BY <1>1, <1>2, <1>3, <1>4

\* Every step begins a handler or comes later.
LEMMA NextForm ==
  ASSUME Next
  PROVE  Later \/ \E r \in Requests : SaveStep(r) \/ UpdateStep(r) \/ DeleteStep(r)
BY DEF Next, Request, Later

\* Requests meet only where overlap says so.
LEMMA SolitudeStep == TypeOK /\ Solitude /\ [Next]_vars => Solitude'
<1> SUFFICES ASSUME TypeOK, Solitude, [Next]_vars PROVE Solitude'
  OBVIOUS
<1> USE DEF TypeOK, Memories
<1>1. CASE UNCHANGED vars
  BY <1>1 DEF vars, locals, history, Solitude, Active
<1>2. CASE Later
  BY <1>2, LaterSteps DEF Solitude
<1>3. ASSUME NEW r \in Requests, SaveStep(r) \/ UpdateStep(r) \/ DeleteStep(r)
      PROVE  Solitude'
  <2>1. PICK m \in Memories : Begins(r, m)
    BY <1>3, StartForm
  <2>2. \A s \in Requests \ {r} : mem'[s] = mem[s] /\ (Active(s)' <=> Active(s))
    BY <2>1 DEF Begins, Active
  <2>3. mem'[r] = m /\ overlap \subseteq overlap' /\ (Busy(m) => m \in overlap')
    BY <2>1 DEF Begins
  <2> QED
    BY <2>2, <2>3 DEF Solitude, Busy
<1> QED
  BY <1>1, <1>2, <1>3, NextForm

\* A call touches only the memory its request works on.
Untouched(m) ==
  /\ record'[m] = record[m] /\ chunkFile'[m] = chunkFile[m]
  /\ EntriesOf(m)' = EntriesOf(m)
  /\ m \in damaged' <=> m \in damaged
  /\ m \in lost' <=> m \in lost

\* A request that is at work touches no memory but its own.
LEMMA Footprint ==
  ASSUME TypeOK, Ownership, NEW r \in Requests, Call(r) \/ Failure(r)
  PROVE  Active(r) /\ \A m \in Memories \ {mem[r]} : Untouched(m)
<1> USE DEF TypeOK, Memories, Untouched, Active, Steps, EntriesOf, locals, files, history
<1>1. CASE GetChunks(r)
  BY <1>1 DEF GetChunks, GoTo
<1>2. CASE Unindex(r)
  BY <1>2 DEF Unindex, GoTo, Ownership
<1>3. CASE DropChunks(r)
  BY <1>3 DEF DropChunks, GoTo
<1>4. CASE SaveChunks(r)
  BY <1>4 DEF SaveChunks, GoTo
<1>5. CASE Index(r)
  BY <1>5 DEF Index, GoTo, Ownership
<1>6. CASE WriteRecord(r)
  BY <1>6 DEF WriteRecord, GoTo
<1>7. CASE DropRecord(r)
  BY <1>7 DEF DropRecord, GoTo
<1>8. CASE Fail(r)
  BY <1>8 DEF Fail
<1>9. CASE GetChunksFails(r)
  BY <1>9 DEF GetChunksFails, GoTo
<1>10. CASE IndexCallFails(r)
  BY <1>10 DEF IndexCallFails, GoTo
<1> QED
  BY <1>1, <1>2, <1>3, <1>4, <1>5, <1>6, <1>7, <1>8, <1>9, <1>10 DEF Call, Failure

\* What exists belongs to requests that have begun.
LEMMA OriginStep ==
  TypeOK /\ Control /\ Unborn /\ Ownership /\ [Next]_vars => Unborn' /\ Ownership'
<1> SUFFICES ASSUME TypeOK, Control, Unborn, Ownership, [Next]_vars
             PROVE  Unborn' /\ Ownership'
  OBVIOUS
<1> USE DEF TypeOK, Memories
<1>1. CASE UNCHANGED vars
  BY <1>1 DEF vars, files, locals, history, Unborn, Ownership
<1>2. ASSUME NEW r \in Requests, SaveStep(r) \/ UpdateStep(r) \/ DeleteStep(r)
      PROVE  Unborn' /\ Ownership'
  <2>1. PICK m \in Memories : Begins(r, m)
    BY <1>2, StartForm
  <2>2. \A s \in Requests \ {r} : mem'[s] = mem[s] /\ pc'[s] = pc[s]
    BY <2>1 DEF Begins
  <2>3. pc[r] = "idle" /\ pc'[r] \in {"writeRecord", "getChunks"}
    BY <2>1 DEF Begins
  <2>4. UNCHANGED <<record, chunkFile, index, todo, damaged>> /\ mem'[r] = m
    BY <2>1 DEF Begins
  <2>5. Unborn'
    <3>1. \A s \in Requests : pc'[s] = "idle" => s # r /\ s # m
      BY <2>1, <2>2, <2>3 DEF Begins, Unborn, Steps
    <3> QED
      BY <2>2, <2>3, <2>4, <3>1 DEF Unborn
  <2>6. Ownership'
    <3>1. \A b \in Requests : pc[b] # "idle" => pc'[b] # "idle" /\ mem'[b] = mem[b]
      BY <2>2, <2>3
    <3>2. \A s \in Requests : pc'[s] \in {"unindex", "index"} => s # r /\ pc[s] = pc'[s]
      BY <2>2, <2>3
    <3> QED
      BY <2>2, <2>3, <2>4, <3>1, <3>2 DEF Ownership, ChunkIds
  <2> QED
    BY <2>5, <2>6
<1>3. CASE Later
  <2>1. UNCHANGED <<mem, text>>
    BY <1>3, LaterSteps
  <2>2. \A s \in Requests : pc'[s] = "idle" => pc[s] = "idle"
    BY <1>3, LaterSteps
  <2>3. ASSUME NEW r \in Requests, Call(r) \/ Failure(r) PROVE Unborn' /\ Ownership'
    <3>1. Unborn'
      <4>1. \A s \in Requests : pc[s] = "idle" => s # mem[r]
        BY <2>3, Footprint DEF Unborn, Active, Steps
      <4> QED
        BY <2>1, <2>2, <2>3, <4>1, Footprint DEF Unborn, Untouched
    <3>2. \A b \in Requests : pc[b] # "idle" => pc'[b] # "idle" /\ mem'[b] = mem[b]
      BY <2>1, <2>2
    <3>3. r \in Requests /\ mem[r] \in Memories /\ pc[r] # "idle"
      BY <2>3, Footprint DEF Active, Steps
    <3>4. \A e \in index' : pc'[e[2][1]] # "idle"
      <4>1. \A e \in index' : e \in index \/ (pc[r] = "index" /\ e \in todo[r])
        BY <2>3 DEF Call, GetChunks, Unindex, DropChunks, SaveChunks, Index, WriteRecord,
                    DropRecord, Failure, Fail, GetChunksFails, IndexCallFails, GoTo
      <4> QED
        BY <4>1, <3>2 DEF Ownership, ChunkIds
    <3>5. \A m \in Memories : \A c \in chunkFile'[m] : mem'[c[1]] = m /\ pc'[c[1]] # "idle"
      <4>1. \A c \in chunkFile'[mem[r]] : c \in chunkFile[mem[r]] \/ c \in Chunks(r)
        BY <2>3 DEF Call, GetChunks, Unindex, DropChunks, SaveChunks, Index, WriteRecord,
                    DropRecord, Failure, Fail, GetChunksFails, IndexCallFails, GoTo, files
      <4>2. \A c \in Chunks(r) : c[1] = r
        BY DEF Chunks
      <4> QED
        BY <2>3, <3>2, <3>3, <4>1, <4>2, Footprint DEF Ownership, Untouched, ChunkIds
    <3>6. \A s \in Requests : pc'[s] \in {"unindex", "index"} =>
            \A e \in todo'[s] : mem'[e[2][1]] = mem'[s] /\ pc'[e[2][1]] # "idle"
      <4>1. \A s \in Requests \ {r} : todo'[s] = todo[s] /\ pc'[s] = pc[s]
        BY <2>3 DEF Call, GetChunks, Unindex, DropChunks, SaveChunks, Index, WriteRecord,
                    DropRecord, Failure, Fail, GetChunksFails, IndexCallFails, GoTo
      <4>2. pc'[r] \in {"unindex", "index"} =>
              \/ pc[r] \in {"unindex", "index"} /\ todo'[r] \subseteq todo[r]
              \/ todo'[r] = Kinds \X chunkFile[mem[r]]
              \/ todo'[r] = Indexed \X Chunks(r)
        <5>1. CASE GetChunks(r) \/ SaveChunks(r)
          BY <5>1 DEF GetChunks, SaveChunks
        <5>2. CASE Unindex(r) \/ Index(r) \/ IndexCallFails(r)
          <6>1. pc[r] \in {"unindex", "index"}
            BY <5>2 DEF Unindex, Index, IndexCallFails, GoTo
          <6>2. \E e : todo' = [todo EXCEPT ![r] = todo[r] \ {e}]
            BY <5>2 DEF Unindex, Index, IndexCallFails
          <6> QED
            BY <6>1, <6>2
        <5>3. CASE DropChunks(r) \/ WriteRecord(r) \/ DropRecord(r)
          BY <5>3 DEF DropChunks, WriteRecord, DropRecord, GoTo
        <5>4. CASE Fail(r) \/ GetChunksFails(r)
          BY <5>4 DEF Fail, GetChunksFails, GoTo
        <5> QED
          BY <2>3, <5>1, <5>2, <5>3, <5>4 DEF Call, Failure
      <4>3. \A c \in Chunks(r) : c[1] = r
        BY DEF Chunks
      <4>4. pc'[r] \in {"unindex", "index"} =>
              \A e \in todo'[r] : mem[e[2][1]] = mem[r] /\ pc[e[2][1]] # "idle" /\ e[2][1] \in Requests
        BY <3>3, <4>2, <4>3 DEF Ownership, ChunkIds
      <4>5. \A s \in Requests \ {r} : pc'[s] \in {"unindex", "index"} =>
              \A e \in todo'[s] : mem[e[2][1]] = mem[s] /\ pc[e[2][1]] # "idle" /\ e[2][1] \in Requests
        BY <4>1 DEF Ownership, ChunkIds
      <4> QED
        BY <2>1, <3>2, <4>4, <4>5
    <3>7. Ownership'
      BY <3>4, <3>5, <3>6 DEF Ownership
    <3> QED
      BY <3>1, <3>7
  <2>4. ASSUME NEW r \in Requests, Refuse(r) PROVE Unborn' /\ Ownership'
    BY <2>4 DEF Refuse, files, locals, history, Unborn, Ownership
  <2>5. CASE Crash
    <3>1. UNCHANGED <<record, chunkFile, index, todo>>
      BY <2>5 DEF Crash, files
    <3>2. \A s \in Requests : s \in damaged' => s \in damaged \/ Busy(s)
      BY <2>5 DEF Crash, Busy
    <3>3. \A s \in Requests : pc[s] = "idle" => ~Busy(s)
      BY DEF Unborn, Busy, Active, Steps
    <3>4. \A s \in Requests : pc'[s] \in {"unindex", "index"} => pc[s] = pc'[s]
      BY <2>5 DEF Crash
    <3>5. Unborn'
      BY <2>1, <2>2, <3>1, <3>2, <3>3 DEF Unborn
    <3>6. Ownership'
      BY <2>1, <2>2, <3>1, <3>4 DEF Ownership, ChunkIds
    <3> QED
      BY <3>5, <3>6
  <2> QED
    BY <1>3, <2>3, <2>4, <2>5 DEF Later
<1> QED
  BY <1>1, <1>2, <1>3, NextForm

-----------------------------------------------------------------------------
\* What is known of a memory and of a request depends on their own state only.
LEMMA CoherentFrame ==
  ASSUME TypeOK, Unborn, NEW m \in Memories, Coherent(m),
         record'[m] = record[m], chunkFile'[m] = chunkFile[m], EntriesOf(m)' = EntriesOf(m),
         \A b \in Requests : pc[b] # "idle" => mem'[b] = mem[b] /\ text'[b] = text[b]
  PROVE  Coherent(m)'
<1>1. CASE record[m] = NoContent
  BY <1>1 DEF Coherent
<1>2. CASE record[m] # NoContent
  <2>1. PICK b \in Requests : mem[b] = m /\ text[b] = record[m] /\ chunkFile[m] = Chunks(b)
    BY <1>2 DEF Coherent
  <2>2. pc[b] # "idle"
    BY <1>2, <2>1 DEF Unborn, Memories
  <2>3. mem'[b] = m /\ text'[b] = record'[m] /\ chunkFile'[m] = Chunks(b)'
    BY <2>1, <2>2 DEF Chunks
  <2>4. EntriesOf(m)' = (Indexed \X chunkFile[m])'
    BY <1>2 DEF Coherent, Indexed, Kinds
  <2> QED
    BY <1>2, <2>3, <2>4 DEF Coherent
<1> QED
  BY <1>1, <1>2

\* The progress of a request on a memory is not undone by a step that leaves both alone.
LEMMA ProgressFrame ==
  ASSUME TypeOK, Unborn, NEW r \in Requests, NEW m \in Memories, Active(r), Progress(r, m),
         record'[m] = record[m], chunkFile'[m] = chunkFile[m], EntriesOf(m)' = EntriesOf(m),
         m \in damaged => m \in damaged',
         pc'[r] = pc[r], op'[r] = op[r], rebuild'[r] = rebuild[r], todo'[r] = todo[r],
         \A b \in Requests : pc[b] # "idle" => mem'[b] = mem[b] /\ text'[b] = text[b]
  PROVE  Progress(r, m)'
<1>1. text'[r] = text[r] /\ Chunks(r)' = Chunks(r) /\ Indexed' = Indexed
  BY DEF Active, Steps, Chunks, Indexed, Kinds
<1>2. Coherent(m) => Coherent(m)'
  BY CoherentFrame
<1> QED
  BY <1>1, <1>2 DEF Progress, Active, Steps

\* The invariant of one memory, apart from what its requests have made of it.
Reach(m) == EntriesOf(m) \subseteq Kinds \X chunkFile[m]
Rest(m)  == ~Busy(m) /\ m \notin damaged => Coherent(m)

Facts == AllProgress /\ QuietMemoriesAreCoherent /\ EntriesAreReachable

\* The facts, memory by memory and request by request.
LEMMA FactsForm ==
  Facts <=> /\ \A r \in Requests : Active(r) /\ Untainted(mem[r]) => Progress(r, mem[r])
            /\ \A m \in Memories : Untainted(m) => Reach(m) /\ Rest(m)
BY DEF Facts, AllProgress, QuietMemoriesAreCoherent, EntriesAreReachable, Untainted, Reach, Rest

\* What a step of r must establish about the memory it works on.
Own(r, m) ==
  /\ Reach(m)
  /\ IF Active(r) THEN Progress(r, m) ELSE m \notin damaged => Coherent(m)

\* It is enough to look there.
LEMMA CallFrame ==
  ASSUME TypeOK, Unborn, Ownership, Solitude, Facts,
         NEW r \in Requests, Call(r) \/ Failure(r),
         Untainted(mem[r])' => Own(r, mem[r])'
  PROVE  Facts'
<1> USE DEF Memories
<1>1. Active(r) /\ mem[r] \in Memories /\ \A m \in Memories \ {mem[r]} : Untouched(m)
  BY Footprint DEF TypeOK
<1>2. Later
  BY DEF Later
<1>3. /\ UNCHANGED <<mem, text, op, rebuild, overlap>>
      /\ \A s \in Requests : Active(s)' => Active(s)
  BY <1>2, LaterSteps
<1>4. \A s \in Requests \ {r} : pc'[s] = pc[s] /\ todo'[s] = todo[s]
  BY DEF TypeOK, Call, GetChunks, Unindex, DropChunks, SaveChunks, Index, WriteRecord,
         DropRecord, Failure, Fail, GetChunksFails, IndexCallFails, GoTo
<1>5. \A m \in Memories \ {mem[r]} : Untainted(m)' => Untainted(m)
  BY <1>1, <1>3 DEF Untainted, Untouched
<1>6. ASSUME NEW s \in Requests, Active(s)', Untainted(mem[s])'
      PROVE  Progress(s, mem[s])'
  <2>1. CASE s = r
    BY <1>6, <2>1 DEF Own
  <2>2. CASE s # r
    <3>1. Active(s) /\ mem'[s] = mem[s] /\ mem[s] \in Memories
      BY <1>3, <1>6 DEF TypeOK
    <3>2. mem[s] # mem[r]
      BY <1>1, <1>3, <1>6, <2>2, <3>1 DEF Solitude, Untainted
    <3>3. Untouched(mem[s]) /\ Progress(s, mem[s])
      BY <1>1, <1>5, <1>6, <3>1, <3>2, FactsForm
    <3> QED
      BY <1>3, <1>4, <2>2, <3>1, <3>3, ProgressFrame DEF Untouched
  <2> QED
    BY <2>1, <2>2
<1>7. ASSUME NEW m \in Memories, Untainted(m)'
      PROVE  Reach(m)' /\ Rest(m)'
  <2>1. CASE m = mem[r]
    BY <1>3, <1>7, <2>1 DEF Own, Rest, Busy
  <2>2. CASE m # mem[r]
    <3>1. Reach(m) /\ Rest(m) /\ Untouched(m)
      BY <1>1, <1>5, <1>7, <2>2, FactsForm
    <3>2. Reach(m)'
      BY <3>1 DEF Reach, Untouched, Kinds
    <3>3. Busy(m)' <=> Busy(m)
      BY <1>3, <1>4, <2>2 DEF Busy, Active
    <3>4. Rest(m)'
      BY <1>3, <3>1, <3>3, CoherentFrame DEF Rest, Untouched
    <3> QED
      BY <3>2, <3>4
  <2> QED
    BY <2>1, <2>2
<1> QED
  BY <1>6, <1>7 DEF Facts, AllProgress, QuietMemoriesAreCoherent, EntriesAreReachable,
                    Untainted, Reach, Rest

\* Every call keeps the facts.
LEMMA CallStep ==
  ASSUME TypeOK, Control, Unborn, Ownership, Solitude, Facts,
         NEW r \in Requests, Call(r)
  PROVE  Facts'
<1>1. SUFFICES ASSUME Untainted(mem[r])' PROVE Own(r, mem[r])'
  BY CallFrame
<1>a. Active(r) /\ mem[r] \in Memories
  BY Footprint DEF TypeOK, Memories
<1>b. PICK m \in Memories : m = mem[r]
  BY <1>a
<1>2. Active(r) /\ m \in Memories /\ m \in Requests
  BY <1>a, <1>b DEF Memories
<1>3. Later /\ UNCHANGED <<mem, text, op, rebuild, overlap>>
  BY LaterSteps DEF Later
<1>4. lost' = lost
  BY DEF Call, GetChunks, Unindex, DropChunks, SaveChunks, Index, WriteRecord,
         DropRecord, history
<1>5. Untainted(m) /\ Progress(r, m) /\ Reach(m)
  BY <1>1, <1>2, <1>3, <1>4, <1>b, FactsForm DEF Untainted
<1>6. Chunks(r)' = Chunks(r) /\ Indexed' = Indexed /\ Kinds' = Kinds
  BY <1>3 DEF Chunks, Indexed, Kinds
<1>7. text[r] \in Contents /\ text[r] # NoContent
  BY <1>2, ContentAssumption DEF Control
<1>8. mem[r] = m /\ mem'[r] = m
  BY <1>3, <1>b
<1>9. \A b \in Requests : mem'[b] = mem[b] /\ text'[b] = text[b]
  BY <1>3
<1>0. SUFFICES Reach(m)' /\ IF Active(r)' THEN Progress(r, m)' ELSE m \notin damaged' => Coherent(m)'
  BY <1>8 DEF Own
<1> USE DEF TypeOK, Memories
<1>10. CASE GetChunks(r)
  <2>1. UNCHANGED <<record, chunkFile, index, damaged>> /\ EntriesOf(m)' = EntriesOf(m)
    BY <1>3, <1>10 DEF GetChunks, files, history, EntriesOf
  <2>2. todo'[r] = Kinds \X chunkFile[m] /\ pc'[r] = AfterUnindex(Kinds \X chunkFile[m])
    BY <1>8, <1>10 DEF GetChunks, GoTo
  <2>3. Reach(m)'
    BY <1>5, <1>6, <2>1 DEF Reach
  <2>4. CASE Kinds \X chunkFile[m] = {}
    <3>1. EntriesOf(m)' = {} /\ pc'[r] = "dropChunks"
      BY <1>5, <2>1, <2>2, <2>4 DEF Reach, AfterUnindex
    <3> QED
      BY <2>3, <3>1 DEF Progress, Active, Steps
  <2>5. CASE Kinds \X chunkFile[m] # {}
    <3>1. EntriesOf(m)' \subseteq todo'[r] /\ pc'[r] = "unindex"
      BY <1>5, <2>1, <2>2, <2>5 DEF Reach, AfterUnindex
    <3> QED
      BY <2>3, <3>1 DEF Progress, Active, Steps
  <2> QED
    BY <2>4, <2>5
<1>11. CASE Unindex(r)
  <2>1. PICK e \in todo[r] : /\ index' = index \ {e} /\ todo'[r] = todo[r] \ {e}
                             /\ pc[r] = "unindex" /\ pc'[r] = AfterUnindex(todo[r] \ {e})
    BY <1>11 DEF Unindex, GoTo
  <2>2. chunkFile' = chunkFile
    BY <1>11 DEF Unindex, files
  <2>3. EntriesOf(m)' = EntriesOf(m) \ {e}
    BY <1>3, <2>1 DEF EntriesOf
  <2>4. EntriesOf(m) \subseteq todo[r]
    BY <1>5, <2>1 DEF Progress
  <2>5. Reach(m)'
    BY <1>5, <1>6, <2>2, <2>3 DEF Reach
  <2>6. EntriesOf(m)' \subseteq todo'[r]
    BY <2>1, <2>3, <2>4
  <2>7. CASE todo[r] \ {e} = {}
    <3>1. EntriesOf(m)' = {} /\ pc'[r] = "dropChunks"
      BY <2>1, <2>6, <2>7 DEF AfterUnindex
    <3> QED
      BY <2>5, <3>1 DEF Progress, Active, Steps
  <2>8. CASE todo[r] \ {e} # {}
    <3>1. pc'[r] = "unindex"
      BY <2>1, <2>8 DEF AfterUnindex
    <3> QED
      BY <2>5, <2>6, <3>1 DEF Progress, Active, Steps
  <2> QED
    BY <2>7, <2>8
<1>12. CASE DropChunks(r)
  <2>1. pc[r] = "dropChunks" /\ op[r] # "save" /\ op'[r] = op[r]
    BY <1>2, <1>3, <1>12 DEF DropChunks, GoTo, Control
  <2>2. EntriesOf(m) = {} /\ EntriesOf(m)' = EntriesOf(m)
    BY <1>3, <1>5, <1>12, <2>1 DEF DropChunks, EntriesOf, Progress
  <2>3. chunkFile'[m] = {}
    BY <1>2, <1>8, <1>12 DEF DropChunks
  <2>4. pc'[r] = "dropRecord" \/ pc'[r] = "saveChunks"
    BY <1>12 DEF DropChunks, GoTo
  <2> QED
    BY <2>1, <2>2, <2>3, <2>4 DEF Reach, Progress, Active, Steps
<1>13. CASE SaveChunks(r)
  <2> DEFINE T == Indexed \X Chunks(r)
  <2>1. /\ pc[r] = "saveChunks" /\ pc'[r] = AfterIndex(r, T) /\ todo'[r] = T
        /\ chunkFile'[m] = Chunks(r)
    BY <1>2, <1>8, <1>13 DEF SaveChunks, GoTo
  <2>2. record' = record /\ EntriesOf(m)' = EntriesOf(m) /\ op' = op /\ rebuild' = rebuild
    BY <1>3, <1>13 DEF SaveChunks, EntriesOf
  <2>3. EntriesOf(m) = {} /\ (op[r] = "save" => record[m] = text[r])
    BY <1>5, <2>1 DEF Progress
  <2>4. op[r] # "delete" /\ (op[r] = "update" => rebuild[r])
    BY <1>2, <2>1 DEF Control
  <2>5. Reach(m)'
    BY <2>2, <2>3 DEF Reach
  <2>6. CASE T # {}
    <3>1. pc'[r] = "index"
      BY <2>1, <2>6 DEF AfterIndex
    <3>2. EntriesOf(m)' \cup todo'[r] = Indexed' \X Chunks(r)'
      BY <1>6, <2>1, <2>2, <2>3
    <3> QED
      BY <1>3, <1>6, <2>1, <2>2, <2>3, <2>5, <3>1, <3>2 DEF Progress, Active, Steps
  <2>7. CASE T = {}
    <3>1. EntriesOf(m)' = Indexed' \X Chunks(r)'
      BY <1>6, <2>2, <2>3, <2>7
    <3>2. CASE op[r] = "save"
      <4>1. pc'[r] = "done" /\ record'[m] = text'[r]
        BY <1>3, <2>1, <2>2, <2>3, <2>7, <3>2 DEF AfterIndex
      <4> QED
        BY <1>6, <1>7, <1>8, <1>3, <2>1, <2>5, <3>1, <4>1 DEF Coherent, Active, Steps
    <3>3. CASE op[r] # "save"
      <4>1. pc'[r] = "writeRecord" /\ rebuild'[r]
        BY <2>1, <2>2, <2>4, <2>7, <3>3 DEF AfterIndex, Handlers
      <4> QED
        BY <1>6, <2>1, <2>2, <2>5, <3>1, <3>3, <4>1 DEF Progress, Active, Steps
    <3> QED
      BY <3>2, <3>3
  <2> QED
    BY <2>6, <2>7
<1>14. CASE Index(r)
  <2>1. PICK e \in todo[r] : /\ index' = index \cup {e} /\ todo'[r] = todo[r] \ {e}
                             /\ pc[r] = "index" /\ pc'[r] = AfterIndex(r, todo[r] \ {e})
    BY <1>14 DEF Index, GoTo
  <2>2. UNCHANGED <<record, chunkFile, op, rebuild>>
    BY <1>3, <1>14 DEF Index, files
  <2>3. mem[e[2][1]] = m
    BY <1>8, <2>1 DEF Ownership
  <2>4. EntriesOf(m)' = EntriesOf(m) \cup {e}
    BY <1>3, <2>1, <2>3 DEF EntriesOf
  <2>5. /\ chunkFile[m] = Chunks(r) /\ EntriesOf(m) \cup todo[r] = Indexed \X Chunks(r)
        /\ op[r] = "save" => record[m] = text[r]
    BY <1>5, <2>1 DEF Progress
  <2>6. EntriesOf(m)' \cup todo'[r] = Indexed' \X Chunks(r)' /\ chunkFile'[m] = Chunks(r)'
    BY <1>6, <2>1, <2>2, <2>4, <2>5
  <2>7. Reach(m)'
    <3>1. Indexed' \X Chunks(r)' \subseteq Kinds' \X chunkFile'[m]
      BY <1>6, <2>6, IndexedKinds
    <3> QED
      BY <2>6, <3>1 DEF Reach
  <2>8. op[r] # "delete" /\ (op[r] = "update" => rebuild[r])
    BY <1>2, <2>1 DEF Control
  <2>9. CASE todo[r] \ {e} # {}
    <3>1. pc'[r] = "index"
      BY <2>1, <2>9 DEF AfterIndex
    <3> QED
      BY <1>3, <2>2, <2>5, <2>6, <2>7, <3>1 DEF Progress, Active, Steps
  <2>10. CASE todo[r] \ {e} = {}
    <3>1. EntriesOf(m)' = Indexed' \X Chunks(r)'
      BY <2>1, <2>6, <2>10
    <3>2. CASE op[r] = "save"
      <4>1. pc'[r] = "done" /\ record'[m] = text'[r]
        BY <1>3, <2>1, <2>2, <2>5, <2>10, <3>2 DEF AfterIndex
      <4> QED
        BY <1>3, <1>6, <1>7, <1>8, <2>6, <2>7, <3>1, <4>1 DEF Coherent, Active, Steps
    <3>3. CASE op[r] # "save"
      <4>1. pc'[r] = "writeRecord" /\ rebuild'[r]
        BY <2>1, <2>2, <2>8, <2>10, <3>3 DEF AfterIndex, Handlers
      <4> QED
        BY <2>2, <2>6, <2>7, <3>1, <3>3, <4>1 DEF Progress, Active, Steps
    <3> QED
      BY <3>2, <3>3
  <2> QED
    BY <2>9, <2>10
<1>15. CASE WriteRecord(r)
  <2>1. pc[r] = "writeRecord" /\ pc'[r] = (IF op[r] = "save" THEN "saveChunks" ELSE "done")
    BY <1>15 DEF WriteRecord, GoTo
  <2>2. /\ UNCHANGED <<chunkFile, op, rebuild>> /\ EntriesOf(m)' = EntriesOf(m)
        /\ record'[m] = text[r]
    BY <1>2, <1>3, <1>8, <1>15 DEF WriteRecord, EntriesOf
  <2>3. Reach(m)'
    BY <1>5, <1>6, <2>2 DEF Reach
  <2>4. CASE op[r] = "save"
    <3>1. pc'[r] = "saveChunks" /\ EntriesOf(m)' = {} /\ chunkFile'[m] = {}
      BY <1>5, <2>1, <2>2, <2>4 DEF Progress
    <3> QED
      BY <1>3, <2>2, <2>3, <3>1 DEF Progress, Active, Steps
  <2>5. CASE op[r] # "save" /\ rebuild[r]
    <3>1. chunkFile'[m] = Chunks(r) /\ EntriesOf(m)' = Indexed \X Chunks(r) /\ pc'[r] = "done"
      BY <1>5, <2>1, <2>2, <2>5 DEF Progress
    <3>2. Coherent(m)'
      BY <1>3, <1>6, <1>7, <1>8, <2>2, <3>1 DEF Coherent
    <3> QED
      BY <2>3, <3>1, <3>2 DEF Active, Steps
  <2>6. CASE op[r] # "save" /\ ~rebuild[r]
    <3>1. record'[m] = record[m] /\ (m \notin damaged => Coherent(m)) /\ pc'[r] = "done"
      BY <1>5, <2>1, <2>2, <2>6 DEF Progress
    <3>2. damaged' = damaged
      BY <1>15, <2>6 DEF WriteRecord
    <3>3. m \notin damaged' => Coherent(m)'
      BY <1>2, <1>9, <2>2, <3>1, <3>2, CoherentFrame
    <3> QED
      BY <2>3, <3>1, <3>3 DEF Active, Steps
  <2> QED
    BY <2>4, <2>5, <2>6
<1>16. CASE DropRecord(r)
  <2>1. pc[r] = "dropRecord" /\ pc'[r] = "done" /\ chunkFile' = chunkFile
    BY <1>16 DEF DropRecord, GoTo
  <2>2. EntriesOf(m) = {} /\ chunkFile[m] = {}
    BY <1>5, <2>1 DEF Progress
  <2>3. EntriesOf(m)' = {} /\ record'[m] = NoContent
    BY <1>2, <1>3, <1>8, <1>16, <2>2 DEF DropRecord, EntriesOf
  <2> QED
    BY <2>1, <2>2, <2>3 DEF Reach, Coherent, Active, Steps
<1> QED
  BY <1>10, <1>11, <1>12, <1>13, <1>14, <1>15, <1>16 DEF Call

\* A request that has changed nothing leaves behind what it found.
LEMMA HarmlessCoherent ==
  ASSUME NEW r \in Requests, NEW m \in Memories, Active(r), Harmless(r),
         Progress(r, m), m \notin damaged
  PROVE  Coherent(m)
<1>1. CASE pc[r] = "getChunks"
  BY <1>1 DEF Progress
<1>2. CASE pc[r] = "writeRecord" /\ ~rebuild[r]
  BY <1>2 DEF Progress, Coherent
<1> QED
  BY <1>1, <1>2 DEF Harmless

\* A failing call keeps the facts: it damages the memory or loses an index call
\* exactly when it leaves something half done.
LEMMA FailureStep ==
  ASSUME TypeOK, Unborn, Ownership, Solitude, Facts,
         NEW r \in Requests, Failure(r)
  PROVE  Facts'
<1>1. SUFFICES ASSUME Untainted(mem[r])' PROVE Own(r, mem[r])'
  BY CallFrame
<1>2. Active(r) /\ mem[r] \in Memories
  BY Footprint DEF TypeOK, Memories
<1>3. UNCHANGED <<mem, text, overlap>>
  BY LaterSteps DEF Later
<1>4. CASE Fail(r)
  <2>1. UNCHANGED <<record, chunkFile, index, lost>> /\ pc'[r] = "failed"
    BY <1>4 DEF Fail, files, TypeOK
  <2>2. PICK m \in Memories : m = mem[r]
    BY <1>2
  <2>3. Progress(r, m) /\ Reach(m)
    BY <1>1, <1>2, <1>3, <2>1, <2>2, FactsForm DEF Untainted
  <2>4. EntriesOf(m)' = EntriesOf(m)
    BY <1>3, <2>1 DEF EntriesOf
  <2>5. Reach(m)'
    BY <2>1, <2>3, <2>4 DEF Reach, Kinds
  <2>6. m \notin damaged' => Harmless(r) /\ m \notin damaged
    BY <1>4, <2>2 DEF Fail, TypeOK
  <2>7. m \notin damaged' => Coherent(m)'
    BY <1>2, <1>3, <2>1, <2>3, <2>4, <2>6, HarmlessCoherent, CoherentFrame
  <2> QED
    BY <1>3, <2>1, <2>2, <2>5, <2>7 DEF Own, Active, Steps
<1>5. CASE GetChunksFails(r)
  BY <1>1, <1>3, <1>5 DEF GetChunksFails, Untainted
<1>6. CASE IndexCallFails(r)
  BY <1>1, <1>3, <1>6 DEF IndexCallFails, Untainted
<1> QED
  BY <1>4, <1>5, <1>6 DEF Failure

\* The process dies: what its requests had not touched stays as it was.
LEMMA CrashStep ==
  ASSUME TypeOK, Unborn, Facts, Crash
  PROVE  Facts'
<1>1. UNCHANGED <<record, chunkFile, index, mem, text, overlap, lost>>
  BY DEF Crash, files, locals
<1>2. \A s \in Requests : ~Active(s)'
  BY DEF Crash, Active, Steps
<1>3. \A m \in Memories : EntriesOf(m)' = EntriesOf(m)
  BY <1>1 DEF EntriesOf
<1>4. ASSUME NEW m \in Memories, Untainted(m)'
      PROVE  Reach(m)' /\ Rest(m)'
  <2>1. Untainted(m) /\ Reach(m) /\ Rest(m)
    BY <1>1, <1>4, FactsForm DEF Untainted
  <2>2. Reach(m)'
    BY <1>1, <1>3, <2>1 DEF Reach, Kinds
  <2>3. m \notin damaged' => Coherent(m)
    <3>1. CASE Busy(m)
      <4>1. PICK r \in Requests : Active(r) /\ mem[r] = m
        BY <3>1 DEF Busy
      <4>2. Progress(r, m)
        BY <2>1, <4>1, FactsForm
      <4>3. m \notin damaged' => m \notin damaged /\ Harmless(r)
        BY <4>1 DEF Crash
      <4> QED
        BY <4>1, <4>2, <4>3, HarmlessCoherent
    <3>2. CASE ~Busy(m)
      BY <2>1, <3>2 DEF Rest, Crash
    <3> QED
      BY <3>1, <3>2
  <2>4. m \notin damaged' => Coherent(m)'
    BY <1>1, <1>3, <2>3, CoherentFrame
  <2> QED
    BY <2>2, <2>4 DEF Rest
<1> QED
  BY <1>2, <1>4 DEF Facts, AllProgress, QuietMemoriesAreCoherent, EntriesAreReachable,
                    Untainted, Reach, Rest

\* A step that only ends a request that never began changes nothing that counts.
LEMMA IdleFrame ==
  ASSUME TypeOK, Unborn, Facts, UNCHANGED <<files, index, locals, todo, history>>,
         \A s \in Requests : (Active(s)' <=> Active(s)) /\ (Active(s) => pc'[s] = pc[s])
  PROVE  Facts'
<1> USE DEF files, locals, history
<1>1. \A m \in Memories : EntriesOf(m)' = EntriesOf(m)
  BY DEF EntriesOf
<1>2. ASSUME NEW s \in Requests, Active(s)', Untainted(mem[s])'
      PROVE  Progress(s, mem[s])'
  <2>1. PICK m \in Memories : m = mem[s]
    BY DEF TypeOK
  <2>2. Progress(s, m) /\ Active(s) /\ pc'[s] = pc[s]
    BY <1>2, <2>1, FactsForm DEF Untainted
  <2>3. Progress(s, m)'
    BY <1>1, <2>2, ProgressFrame
  <2> QED
    BY <2>1, <2>3
<1>3. ASSUME NEW m \in Memories, Untainted(m)'
      PROVE  Reach(m)' /\ Rest(m)'
  <2>1. Reach(m) /\ Rest(m)
    BY <1>3, FactsForm DEF Untainted
  <2>2. Busy(m)' <=> Busy(m)
    BY DEF Busy
  <2>3. Rest(m)'
    BY <1>1, <2>1, <2>2, CoherentFrame DEF Rest
  <2> QED
    BY <1>1, <2>1, <2>3 DEF Reach, Kinds
<1> QED
  BY <1>2, <1>3 DEF Facts, AllProgress, QuietMemoriesAreCoherent, EntriesAreReachable,
                    Untainted, Reach, Rest

\* A request that begins on a memory at rest starts from what Rest says of it.
LEMMA BeginFrame ==
  ASSUME TypeOK, Unborn, Ownership, Facts,
         NEW r \in Requests, NEW m \in Memories, Begins(r, m),
         ~Busy(m) /\ Untainted(m) => Progress(r, m)'
  PROVE  Facts'
<1> USE DEF Memories
<1>1. pc[r] = "idle" /\ mem'[r] = m /\ UNCHANGED <<record, chunkFile, index, todo, lost, damaged>>
  BY DEF Begins, TypeOK
<1>2. \A s \in Requests \ {r} : /\ pc'[s] = pc[s] /\ mem'[s] = mem[s] /\ text'[s] = text[s]
                                /\ op'[s] = op[s] /\ rebuild'[s] = rebuild[s]
                                /\ (Active(s)' <=> Active(s))
  BY DEF Begins, TypeOK, Active
<1>3. \A b \in Requests : pc[b] # "idle" => mem'[b] = mem[b] /\ text'[b] = text[b]
  BY <1>1, <1>2
<1>4. \A n \in Memories : EntriesOf(n)' = EntriesOf(n)
  BY <1>1, <1>3 DEF EntriesOf, Ownership, TypeOK, ChunkIds
<1>5. \A n \in Memories : Untainted(n)' => Untainted(n)
  BY <1>1 DEF Begins, Untainted
<1>6. ASSUME NEW s \in Requests, Active(s)', Untainted(mem[s])'
      PROVE  Progress(s, mem[s])'
  <2>1. CASE s = r
    <3>1. ~Busy(m)
      BY <1>1, <1>6, <2>1 DEF Begins, Untainted
    <3> QED
      BY <1>1, <1>5, <1>6, <2>1, <3>1
  <2>2. CASE s # r
    <3>1. PICK n \in Memories : n = mem[s]
      BY DEF TypeOK
    <3>2. Progress(s, n) /\ Active(s)
      BY <1>2, <1>5, <1>6, <2>2, <3>1, FactsForm
    <3>3. Progress(s, n)'
      BY <1>1, <1>2, <1>3, <1>4, <2>2, <3>2, ProgressFrame
    <3> QED
      BY <1>2, <2>2, <3>1, <3>3
  <2> QED
    BY <2>1, <2>2
<1>7. ASSUME NEW n \in Memories, Untainted(n)'
      PROVE  Reach(n)' /\ Rest(n)'
  <2>1. Reach(n) /\ Rest(n)
    BY <1>5, <1>7, FactsForm
  <2>2. Busy(n) => Busy(n)'
    BY <1>1, <1>2 DEF Busy, Active, Steps
  <2>3. Rest(n)'
    BY <1>1, <1>3, <1>4, <2>1, <2>2, CoherentFrame DEF Rest
  <2> QED
    BY <1>1, <1>4, <2>1, <2>3 DEF Reach, Kinds
<1> QED
  BY <1>6, <1>7 DEF Facts, AllProgress, QuietMemoriesAreCoherent, EntriesAreReachable,
                    Untainted, Reach, Rest

\* Save, Update and Delete keep the facts when they begin.
LEMMA StartStep ==
  ASSUME TypeOK, Unborn, Ownership, Facts,
         NEW r \in Requests, SaveStep(r) \/ UpdateStep(r) \/ DeleteStep(r)
  PROVE  Facts'
<1> USE DEF Memories
<1>1. CASE SaveStep(r)
  <2>1. PICK c \in Contents : Save(r, c)
    BY <1>1 DEF SaveStep
  <2>2. /\ pc'[r] = "writeRecord" /\ op'[r] = "save"
        /\ UNCHANGED <<record, chunkFile, index>> /\ Begins(r, r)
    BY <2>1 DEF Save, Begin, Begins, files, TypeOK
  <2>3. record[r] = NoContent /\ chunkFile[r] = {} /\ \A s \in Requests : mem'[s] = r => s = r
    BY <2>2 DEF Begins, Unborn, TypeOK
  <2>4. EntriesOf(r)' = {}
    BY <2>2, <2>3 DEF EntriesOf, Ownership, Begins, TypeOK, ChunkIds
  <2>5. Progress(r, r)'
    BY <2>2, <2>3, <2>4 DEF Progress
  <2> QED
    BY <2>2, <2>5, BeginFrame
<1>2. ASSUME NEW m \in Memories, Begins(r, m), UNCHANGED damaged,
             \/ pc'[r] = "getChunks"
             \/ pc'[r] = "writeRecord" /\ op'[r] = "update" /\ ~rebuild'[r] /\ text'[r] = record[m]
      PROVE  Facts'
  <2>1. ASSUME ~Busy(m), Untainted(m) PROVE Progress(r, m)'
    <3>1. m \notin damaged => Coherent(m)
      BY <2>1, FactsForm DEF Rest
    <3>2. UNCHANGED <<record, chunkFile, index>> /\ pc[r] = "idle"
      BY <1>2 DEF Begins
    <3>3. \A b \in Requests : pc[b] # "idle" => mem'[b] = mem[b] /\ text'[b] = text[b]
      BY <1>2 DEF Begins, TypeOK
    <3>4. EntriesOf(m)' = EntriesOf(m)
      BY <3>2, <3>3 DEF EntriesOf, Ownership, TypeOK, ChunkIds
    <3>5. m \notin damaged' => Coherent(m)'
      BY <1>2, <3>1, <3>2, <3>3, <3>4, CoherentFrame
    <3> QED
      BY <1>2, <3>2, <3>5 DEF Progress
  <2> QED
    BY <1>2, <2>1, BeginFrame
<1>3. CASE UpdateStep(r)
  <2>1. PICK m \in Memories, c \in Contents : Update(r, m, c)
    BY <1>3 DEF UpdateStep
  <2>2. Begins(r, m)
    BY <2>1 DEF Update, Begin, Begins, files, TypeOK
  <2>3. CASE c # record[m]
    BY <1>2, <2>1, <2>2, <2>3 DEF Update, Begin, TypeOK
  <2>4. CASE c = record[m]
    <3>1. Begin(r, "update", m, c, FALSE, "writeRecord")
      BY <2>1, <2>4 DEF Update
    <3> QED
      BY <1>2, <2>2, <2>4, <3>1 DEF Begin, TypeOK
  <2> QED
    BY <2>3, <2>4
<1>4. CASE DeleteStep(r)
  <2>1. PICK m \in Memories : Delete(r, m)
    BY <1>4 DEF DeleteStep
  <2>2. Begins(r, m)
    BY <2>1 DEF Delete, Begin, Begins, files, TypeOK
  <2> QED
    BY <1>2, <2>1, <2>2 DEF Delete, Begin, TypeOK
<1> QED
  BY <1>1, <1>3, <1>4

\* The facts are inductive, given what the other parts of the invariant say.
LEMMA FactsStep ==
  TypeOK /\ Control /\ Unborn /\ Ownership /\ Solitude /\ Facts /\ [Next]_vars => Facts'
<1> SUFFICES ASSUME TypeOK, Control, Unborn, Ownership, Solitude, Facts, [Next]_vars
             PROVE  Facts'
  OBVIOUS
<1>1. CASE UNCHANGED vars
  BY <1>1, IdleFrame DEF vars, Active
<1>2. ASSUME NEW r \in Requests, Refuse(r) PROVE Facts'
  <2>1. UNCHANGED <<files, index, locals, todo, history>>
    BY <1>2 DEF Refuse
  <2>2. \A s \in Requests : (Active(s)' <=> Active(s)) /\ (Active(s) => pc'[s] = pc[s])
    BY <1>2 DEF Refuse, Active, Steps, TypeOK
  <2> QED
    BY <2>1, <2>2, IdleFrame
<1> QED
  BY <1>1, <1>2, StartStep, CallStep, FailureStep, CrashStep DEF Next, Request

\* The invariant is inductive.
LEMMA IInvStep == IInv /\ [Next]_vars => IInv'
BY TypeStep, ControlStep, OriginStep, SolitudeStep, FactsStep DEF IInv, Facts

\* The inductive invariant holds of every behaviour of the service.
THEOREM Invariance == Spec => []IInv
BY InitIInv, IInvStep, PTL DEF Spec

\* Every record, chunk file, index entry and request variable keeps its type.
THEOREM TypeCorrect == Spec => []TypeOK
<1>1. IInv => TypeOK
  BY DEF IInv
<1> QED
  BY <1>1, Invariance, PTL

\* For any requests, contents, chunkings and faults: a memory at rest that was never
\* worked on by two requests at once, lost no index call and was not left half
\* written has its record, its chunk file and its index entries in agreement.
THEOREM Coherence == Spec => []QuietMemoriesAreCoherent
<1>1. IInv => QuietMemoriesAreCoherent
  BY DEF IInv
<1> QED
  BY <1>1, Invariance, PTL

\* For any requests, contents, chunkings and faults: of a memory that no two requests
\* worked on at once and that lost no index call, no file write that fails and no crash
\* leaves an index entry that the chunk file cannot find again.
THEOREM Reachability == Spec => []EntriesAreReachable
<1>1. IInv => EntriesAreReachable
  BY DEF IInv
<1> QED
  BY <1>1, Invariance, PTL

-----------------------------------------------------------------------------
(* Search and Similar beside them.                                         *)

\* Nothing has been asked for yet.
LEMMA SearchInit == Init /\ SInit => SIInv
<1> SUFFICES ASSUME Init, SInit PROVE SIInv
  OBVIOUS
<1>1. IInv
  BY InitIInv
<1>2. STypeOK
  BY <1>1 DEF IInv, STypeOK, SInit, Modes
<1>3. Stages /\ Stability /\ \A s \in Searches : \A m \in stable[s] : Known(s, m)
  BY DEF SInit, Stages, Stability, Known
<1> QED
  BY <1>1, <1>2, <1>3 DEF SIInv

\* Searches change nothing of the memory service but the count of faults.
LEMMA ServiceStep == IInv /\ [SNext]_<<vars, svars>> => IInv'
<1> SUFFICES ASSUME IInv, [SNext]_<<vars, svars>> PROVE IInv'
  OBVIOUS
<1>1. ASSUME NEW s \in Searches, SearchFails(s) \/ ReadFails(s) PROVE IInv'
  <2>1. faults' \in 0 .. MaxFaults
    BY <1>1, FaultAssumption DEF SearchFails, ReadFails, Fault, IInv, TypeOK
  <2>2. UNCHANGED <<record, chunkFile, index, pc, op, mem, text, rebuild, todo, overlap, lost, damaged>>
    BY <1>1 DEF SearchFails, ReadFails, files, locals, history
  <2>3. TypeOK' /\ Control' /\ Unborn' /\ Ownership' /\ Solitude'
    BY <2>1, <2>2 DEF IInv, TypeOK, Control, Unborn, Ownership, Solitude, Active
  <2>4. \A r \in Requests : Active(r)' <=> Active(r)
    BY <2>2 DEF Active
  <2>5. Facts'
    BY <2>2, <2>4, IdleFrame DEF IInv, Facts, files, locals, history
  <2> QED
    BY <2>3, <2>5 DEF IInv, Facts
<1>2. CASE ~ \E s \in Searches : SearchFails(s) \/ ReadFails(s)
  BY <1>2, IInvStep DEF SNext, WriteStep, Restart, Next, vars
<1> QED
  BY <1>1, <1>2

-----------------------------------------------------------------------------
(* Over ends searches.                                                     *)

\* What Over leaves of the searches it ends, and of the others.
LEMMA OverForm ==
  ASSUME NEW S \in SUBSET Searches, Over(S)
  PROVE  /\ STypeOK /\ TypeOK' => STypeOK'
         /\ Stages => Stages'
         /\ \A s \in S : stable'[s] = {}
         /\ \A s \in Searches \ S :
              /\ spc'[s] = spc[s] /\ mode'[s] = mode[s] /\ query'[s] = query[s]
              /\ source'[s] = source[s] /\ hits'[s] = hits[s] /\ found'[s] = found[s]
              /\ result'[s] = result[s] /\ stable'[s] = stable[s]
              /\ blind'[s] = blind[s] /\ missed'[s] = missed[s]
<1>1. STypeOK /\ TypeOK' => STypeOK'
  BY DEF Over, STypeOK, Modes
<1>2. Stages => Stages'
  BY DEF Over, Stages
<1> QED
  BY <1>1, <1>2 DEF Over

\* What is known for a search stays known while neither the search nor the memory
\* changes.
LEMMA KnownFrame ==
  ASSUME NEW s \in Searches, NEW m \in Memories, Known(s, m),
         spc'[s] = spc[s], mode'[s] = mode[s], query'[s] = query[s], source'[s] = source[s],
         hits'[s] = hits[s], found'[s] = found[s], result'[s] = result[s],
         blind'[s] = blind[s], missed'[s] = missed[s],
         record'[m] = record[m], chunkFile'[m] = chunkFile[m],
         Comparable(s)' => Comparable(s)
  PROVE  Known(s, m)'
<1>1. Matches(s, m)' <=> Matches(s, m)
  BY DEF Matches
<1> QED
  BY <1>1 DEF Known

-----------------------------------------------------------------------------
(* A writer leaves alone what is at rest before and after its step.        *)

\* What no request works on, before or after the step, is as it was.
LEMMA WriterFrame ==
  ASSUME IInv, \E r \in Requests : Request(r),
         NEW m \in Memories, m \notin overlap \cup lost \cup damaged, ~Busy(m)
  PROVE  /\ record'[m] = record[m] /\ chunkFile'[m] = chunkFile[m]
         /\ m \notin overlap' \cup lost' \cup damaged'
<1>1. PICK r \in Requests : Request(r)
  OBVIOUS
<1>2. CASE SaveStep(r) \/ UpdateStep(r) \/ DeleteStep(r)
  <2>1. PICK n \in Memories : Begins(r, n)
    BY <1>2, StartForm DEF IInv
  <2> QED
    BY <2>1 DEF Begins
<1>3. CASE Refuse(r)
  BY <1>3 DEF Refuse, files, history
<1>4. CASE Call(r) \/ Failure(r)
  <2>1. Active(r) /\ Untouched(m)
    BY <1>4, Footprint DEF IInv, Busy
  <2>2. overlap' = overlap
    BY <1>4, LaterSteps DEF IInv, Later
  <2> QED
    BY <2>1, <2>2 DEF Untouched
<1> QED
  BY <1>1, <1>2, <1>3, <1>4 DEF Request

\* A step of a writer keeps what searches know.
LEMMA WriteKeeps == SIInv /\ WriteStep => SIInv'
<1> SUFFICES ASSUME SIInv, WriteStep PROVE SIInv'
  OBVIOUS
<1>1. IInv /\ IInv'
  BY ServiceStep DEF SIInv, SNext
<1>2. UNCHANGED <<spc, mode, query, source, hits, found, result, blind, missed>>
  BY DEF WriteStep
<1>3. \A s \in Searches : \A m \in stable'[s] : m \in stable[s] /\ m \in Memories /\ ~Busy(m)'
  BY DEF WriteStep, SIInv, STypeOK
<1>4. \A s \in Searches : \A m \in stable'[s] :
        /\ record'[m] = record[m] /\ chunkFile'[m] = chunkFile[m]
        /\ m \notin overlap' \cup lost' \cup damaged'
  BY <1>1, <1>3, WriterFrame DEF WriteStep, SIInv, Stability
<1>5. STypeOK'
  <2>1. stable' \in [Searches -> SUBSET Memories]
    BY DEF WriteStep, SIInv, STypeOK
  <2> QED
    BY <1>1, <1>2, <2>1 DEF IInv, SIInv, STypeOK
<1>6. Stages'
  <2>1. \A s \in Searches : stable'[s] \subseteq stable[s]
    BY <1>3
  <2> QED
    BY <1>2, <2>1 DEF SIInv, Stages
<1>7. Stability'
  BY <1>3, <1>4 DEF Stability
<1>8. \A s \in Searches : Comparable(s)' => Comparable(s)
  BY <1>2, <1>3, <1>4 DEF Comparable
<1>9. ASSUME NEW s \in Searches, NEW m \in stable'[s] PROVE Known(s, m)'
  BY <1>2, <1>3, <1>4, <1>8, KnownFrame DEF SIInv
<1> QED
  BY <1>1, <1>5, <1>6, <1>7, <1>9 DEF SIInv

\* So do a restart and a search that fails.
LEMMA FailureKeeps == SIInv /\ (Restart \/ \E s \in Searches : SearchFails(s)) => SIInv'
<1> SUFFICES ASSUME SIInv, Restart \/ \E s \in Searches : SearchFails(s) PROVE SIInv'
  OBVIOUS
<1>1. IInv /\ IInv'
  BY ServiceStep DEF SIInv, SNext
<1>2. CASE Restart
  <2>1. STypeOK' /\ Stages' /\ \A s \in Searches : stable'[s] = {}
    BY <1>1, <1>2, OverForm DEF Restart, SIInv, IInv
  <2> QED
    BY <1>1, <2>1 DEF SIInv, Stability
<1>3. ASSUME NEW s \in Searches, SearchFails(s) PROVE SIInv'
  <2>1. Over({s}) /\ UNCHANGED <<record, chunkFile, mem, pc, overlap, lost, damaged>>
    BY <1>3 DEF SearchFails, files, locals, history
  <2>2. STypeOK' /\ Stages' /\ stable'[s] = {}
    BY <1>1, <2>1, OverForm DEF SIInv, IInv
  <2>3. ASSUME NEW t \in Searches, NEW m \in stable'[t]
        PROVE  Known(t, m)' /\ m \notin overlap' \cup lost' \cup damaged' /\ ~Busy(m)'
    <3>1. /\ spc'[t] = spc[t] /\ mode'[t] = mode[t] /\ query'[t] = query[t]
          /\ source'[t] = source[t] /\ hits'[t] = hits[t] /\ found'[t] = found[t]
          /\ result'[t] = result[t] /\ stable'[t] = stable[t]
          /\ blind'[t] = blind[t] /\ missed'[t] = missed[t]
      BY <2>1, <2>2, OverForm
    <3>2. m \in Memories /\ Known(t, m)
      BY <3>1 DEF SIInv, STypeOK
    <3>3. Comparable(t)' <=> Comparable(t)
      BY <2>1, <3>1 DEF Comparable
    <3>4. Known(t, m)'
      BY <2>1, <3>1, <3>2, <3>3, KnownFrame
    <3>5. Busy(m)' <=> Busy(m)
      BY <2>1 DEF Busy, Active
    <3> QED
      BY <2>1, <3>1, <3>4, <3>5 DEF SIInv, Stability
  <2> QED
    BY <1>1, <2>2, <2>3 DEF SIInv, Stability
<1> QED
  BY <1>2, <1>3

-----------------------------------------------------------------------------
(* The steps of a search.                                                  *)

\* Search t is where it was.
Same(t) ==
  /\ spc'[t] = spc[t] /\ mode'[t] = mode[t] /\ query'[t] = query[t]
  /\ source'[t] = source[t] /\ hits'[t] = hits[t] /\ found'[t] = found[t]
  /\ result'[t] = result[t] /\ stable'[t] = stable[t]
  /\ blind'[t] = blind[t] /\ missed'[t] = missed[t]

\* A step of a search leaves the memory service alone, but for the count of faults.
Beside == IInv' /\ UNCHANGED <<files, index, pc, locals, todo, history>>

\* The part of the invariant that is about one search.
StageOf(s) ==
  /\ source[s] # <<>> => mode[s] = "semantic"
  /\ spc[s] = "idle" => source[s] = <<>> /\ stable[s] = {}
  /\ spc[s] = "centroid" => source[s] # <<>>
  /\ spc[s] = "semantic" => Embedding /\ mode[s] # "keyword"
  /\ spc[s] = "keyword" => mode[s] # "semantic" /\ (mode[s] = "keyword" => hits[s] = {})
  /\ spc[s] \in {"idle", "centroid", "semantic"} => hits[s] = {} /\ ~blind[s]
  /\ blind[s] => /\ mode[s] # "keyword"
                 /\ spc[s] = "keyword" => hits[s] = {}
                 /\ mode[s] = "semantic" => spc[s] = "fetch" /\ found[s] = {} /\ result[s] = {}
  /\ spc[s] \notin {"resolve", "fetch"} => found[s] = {} /\ missed[s] = {}
  /\ spc[s] # "fetch" => result[s] = {}
  /\ spc[s] = "fetch" => hits[s] = {}

At(s) ==
  /\ StageOf(s)
  /\ \A m \in stable[s] : m \notin overlap \cup lost \cup damaged /\ ~Busy(m) /\ Known(s, m)

\* The invariant says of every search the same.
LEMMA SearchForm == SIInv <=> IInv /\ STypeOK /\ \A s \in Searches : At(s)
BY DEF SIInv, Stages, Stability, StageOf, At

\* A step of one search keeps the invariant if it keeps what is about that search.
LEMMA SearchFrame ==
  ASSUME SIInv, Beside, NEW s \in Searches, \A t \in Searches \ {s} : Same(t),
         STypeOK', At(s)'
  PROVE  SIInv'
<1>1. UNCHANGED <<record, chunkFile, mem, pc, overlap, lost, damaged>>
  BY DEF Beside, files, locals, history
<1>2. IInv'
  BY DEF Beside
<1>3. ASSUME NEW t \in Searches, t # s PROVE At(t)'
  <2>1. Same(t) /\ At(t)
    BY <1>3, SearchForm
  <2>2. StageOf(t)'
    BY <2>1 DEF Same, At, StageOf
  <2>3. Comparable(t)' <=> Comparable(t)
    BY <1>1, <2>1 DEF Comparable, Same
  <2>4. ASSUME NEW m \in stable'[t] PROVE m \notin overlap' \cup lost' \cup damaged' /\ ~Busy(m)' /\ Known(t, m)'
    <3>1. m \in stable[t] /\ m \in Memories
      BY <2>1 DEF Same, SIInv, STypeOK
    <3>2. Known(t, m)'
      BY <1>1, <2>1, <2>3, <3>1, KnownFrame DEF Same, At
    <3>3. Busy(m)' <=> Busy(m)
      BY <1>1 DEF Busy, Active
    <3> QED
      BY <1>1, <2>1, <3>1, <3>2, <3>3 DEF At
  <2> QED
    BY <2>2, <2>4 DEF At
<1>4. \A t \in Searches : At(t)'
  BY <1>3
<1> QED
  BY <1>2, <1>4 DEF SIInv, Stages, Stability, StageOf, At

\* A memory at rest: an entry is one of its chunks in an index in use, and every one of
\* its chunks has its entries and holds a part of its text.
LEMMA AtRest ==
  ASSUME IInv, NEW m \in Memories, m \notin overlap \cup lost \cup damaged, ~Busy(m)
  PROVE  /\ chunkFile[m] # {} => record[m] # NoContent
         /\ \A c \in chunkFile[m] :
              /\ <<"keyword", c>> \in index
              /\ Embedding => <<"vector", c>> \in index
              /\ text[c[1]] = record[m]
<1>1. Coherent(m)
  BY DEF IInv, QuietMemoriesAreCoherent
<1>2. CASE record[m] = NoContent
  BY <1>1, <1>2 DEF Coherent
<1>3. CASE record[m] # NoContent
  <2>1. PICK b \in Requests : text[b] = record[m] /\ chunkFile[m] = Chunks(b)
    BY <1>1, <1>3 DEF Coherent
  <2>2. Indexed \X chunkFile[m] \subseteq index
    BY <1>1, <1>3 DEF Coherent, EntriesOf
  <2>3. "keyword" \in Indexed /\ (Embedding => "vector" \in Indexed)
    BY DEF Indexed, Kinds
  <2>4. \A c \in chunkFile[m] : c[1] = b
    BY <2>1 DEF Chunks
  <2> QED
    BY <1>3, <2>1, <2>2, <2>3, <2>4
<1> QED
  BY <1>2, <1>3

\* Search begins with what is at rest.
LEMMA SearchBegins ==
  ASSUME SIInv, Beside, NEW s \in Searches, NEW q \in Contents, NEW w \in Modes,
         Search(s, q, w)
  PROVE  SIInv'
<1>1. At(s) /\ STypeOK /\ spc[s] = "idle"
  BY SearchForm DEF Search, SGoTo
<1>2. \A t \in Searches \ {s} : Same(t)
  BY <1>1 DEF Search, SGoTo, STypeOK, Same
<1>3. STypeOK'
  <2>1. TypeOK' /\ ChunkIds' = ChunkIds /\ Memories' = Memories
    BY DEF Beside, IInv, ChunkIds, Memories
  <2> QED
    BY <1>1, <2>1 DEF Search, SGoTo, STypeOK, EffectiveMode, Modes, Stable
<1>4. /\ spc'[s] = (IF EffectiveMode(w) = "keyword" THEN "keyword" ELSE "semantic")
      /\ mode'[s] = EffectiveMode(w) /\ stable'[s] = Stable
      /\ source'[s] = <<>> /\ hits'[s] = {} /\ found'[s] = {} /\ result'[s] = {}
      /\ blind'[s] = FALSE /\ missed'[s] = {}
  BY <1>1 DEF Search, SGoTo, STypeOK, At, StageOf
<1>5. EffectiveMode(w) # "keyword" => Embedding
  BY DEF EffectiveMode
<1>6. StageOf(s)'
  BY <1>4, <1>5 DEF StageOf
<1>7. ASSUME NEW m \in stable'[s]
      PROVE  m \notin overlap' \cup lost' \cup damaged' /\ ~Busy(m)' /\ Known(s, m)'
  <2>1. m \in Memories \ (overlap \cup lost \cup damaged) /\ ~Busy(m)
    BY <1>4 DEF Stable
  <2>2. m \notin overlap' \cup lost' \cup damaged' /\ ~Busy(m)'
    BY <2>1 DEF Beside, locals, history, Busy, Active
  <2>3. Known(s, m)'
    BY <1>4 DEF Known
  <2> QED
    BY <2>2, <2>3
<1> QED
  BY <1>2, <1>3, <1>6, <1>7, SearchFrame DEF At

\* What a call of a search must show once the search has begun.
LEMMA SearchCallFrame ==
  ASSUME SIInv, Beside, NEW s \in Searches, \A t \in Searches \ {s} : Same(t),
         spc' \in [Searches -> {"idle", "centroid", "semantic", "keyword", "resolve", "fetch"}],
         hits' \in [Searches -> SUBSET ChunkIds], found' \in [Searches -> SUBSET Memories],
         result' \in [Searches -> SUBSET (Memories \X Contents)],
         blind' \in [Searches -> BOOLEAN], missed' \in [Searches -> SUBSET Memories],
         UNCHANGED <<mode, query, source, stable>>,
         StageOf(s)', \A m \in stable[s] : Known(s, m)'
  PROVE  SIInv'
<1>1. STypeOK'
  <2>1. TypeOK' /\ ChunkIds' = ChunkIds /\ Memories' = Memories
    BY DEF Beside, IInv, ChunkIds, Memories
  <2> QED
    BY <2>1 DEF SIInv, STypeOK
<1>2. \A m \in stable[s] : m \notin overlap \cup lost \cup damaged /\ ~Busy(m)
  BY SearchForm DEF At
<1>3. \A m : Busy(m)' <=> Busy(m)
  BY DEF Beside, locals, Busy, Active
<1>4. At(s)'
  BY <1>2, <1>3 DEF Beside, history, At
<1> QED
  BY <1>1, <1>4, SearchFrame

\* What a call of a search reads of a memory that is stable for it.
LEMMA AtHand ==
  ASSUME SIInv, NEW s \in Searches, NEW m \in stable[s]
  PROVE  /\ m \in Memories /\ At(s) /\ Known(s, m)
         /\ chunkFile[m] # {} => record[m] # NoContent
         /\ \A c \in chunkFile[m] :
              /\ <<"keyword", c>> \in index
              /\ Embedding => <<"vector", c>> \in index
              /\ text[c[1]] = record[m]
<1>1. m \in Memories /\ At(s)
  BY SearchForm DEF SIInv, STypeOK
<1> QED
  BY <1>1, AtRest DEF SIInv, At

\* Similar begins with a memory that is there.
LEMMA SimilarBegins ==
  ASSUME SIInv, Beside, NEW s \in Searches, NEW m \in Memories, Similar(s, m)
  PROVE  SIInv'
<1>1. At(s) /\ STypeOK
  BY SearchForm
<1>2. CASE UNCHANGED svars
  <2>1. \A t \in Searches : Same(t)
    BY <1>2 DEF svars, noted, Same
  <2>2. STypeOK'
    <3>1. TypeOK' /\ ChunkIds' = ChunkIds /\ Memories' = Memories
      BY DEF Beside, IInv, ChunkIds, Memories
    <3> QED
      BY <1>1, <1>2, <3>1 DEF svars, noted, STypeOK
  <2>3. StageOf(s)' /\ \A n \in stable[s] : Known(s, n)'
    BY <1>1, <1>2 DEF Beside, files, svars, noted, At, StageOf, Known, Comparable, Matches
  <2> QED
    BY <1>1, <1>2, <2>1, <2>2, <2>3, SearchCallFrame DEF svars, noted, STypeOK
<1>3. CASE ~ UNCHANGED svars
  <2>1. \A t \in Searches \ {s} : Same(t)
    BY <1>1, <1>3 DEF Similar, SGoTo, STypeOK, Same
  <2>2. /\ spc[s] = "idle" /\ spc'[s] = "centroid" /\ mode'[s] = "semantic"
        /\ stable'[s] = Stable /\ source'[s] = <<m>>
        /\ hits'[s] = {} /\ found'[s] = {} /\ result'[s] = {}
        /\ blind'[s] = FALSE /\ missed'[s] = {}
    BY <1>1, <1>3 DEF Similar, SGoTo, STypeOK, At, StageOf
  <2>3. STypeOK'
    <3>1. TypeOK' /\ ChunkIds' = ChunkIds /\ Memories' = Memories
      BY DEF Beside, IInv, ChunkIds, Memories
    <3> QED
      BY <1>1, <1>3, <3>1 DEF Similar, SGoTo, STypeOK, Modes, Stable
  <2>4. StageOf(s)'
    BY <2>2 DEF StageOf
  <2>5. ASSUME NEW n \in stable'[s]
        PROVE  n \notin overlap' \cup lost' \cup damaged' /\ ~Busy(n)' /\ Known(s, n)'
    <3>1. n \in Memories \ (overlap \cup lost \cup damaged) /\ ~Busy(n)
      BY <2>2 DEF Stable
    <3>2. n \notin overlap' \cup lost' \cup damaged' /\ ~Busy(n)'
      BY <3>1 DEF Beside, locals, history, Busy, Active
    <3> QED
      BY <2>2, <3>2 DEF Known
  <2> QED
    BY <2>1, <2>3, <2>4, <2>5, SearchFrame DEF At
<1> QED
  BY <1>2, <1>3

\* Without vectors of the source there is nothing that Similar could compare.
LEMMA CentroidKeeps ==
  ASSUME SIInv, Beside, NEW s \in Searches, Centroid(s)
  PROVE  SIInv'
<1>1. At(s) /\ STypeOK /\ spc[s] = "centroid"
  BY SearchForm DEF Centroid, SGoTo
<1>2. \A t \in Searches \ {s} : Same(t)
  BY <1>1 DEF Centroid, SGoTo, STypeOK, Same, noted
<1>3. /\ spc'[s] = (IF ~Embedding \/ chunkFile[source[s][1]] = {} THEN "fetch" ELSE "semantic")
      /\ hits'[s] = {} /\ found'[s] = {} /\ result'[s] = {}
      /\ source'[s] = source[s] /\ source[s] # <<>> /\ mode'[s] = "semantic"
      /\ chunkFile' = chunkFile /\ blind'[s] = FALSE /\ missed'[s] = {}
  BY <1>1 DEF Centroid, SGoTo, STypeOK, At, StageOf, Beside, files, noted
<1>4. StageOf(s)'
  BY <1>1, <1>3 DEF StageOf
<1>5. spc'[s] = "fetch" => ~Comparable(s)'
  BY <1>3 DEF Comparable
<1>6. \A m \in stable[s] : Known(s, m)'
  BY <1>3, <1>5 DEF Known
<1> QED
  BY <1>1, <1>2, <1>4, <1>6, SearchCallFrame DEF Centroid, SGoTo, STypeOK, noted

\* The vector index has every chunk of a memory at rest, or gives nothing.
LEMMA SemanticKeeps ==
  ASSUME SIInv, Beside, NEW s \in Searches, Semantic(s)
  PROVE  SIInv'
<1> DEFINE all == {e[2] : e \in {f \in index : f[1] = "vector"}}
<1>1. At(s) /\ STypeOK /\ spc[s] = "semantic" /\ Embedding /\ mode[s] # "keyword"
  BY SearchForm DEF Semantic, SGoTo, At, StageOf
<1>2. PICK h \in {all, {}} :
        /\ spc' = [spc EXCEPT ![s] = IF mode[s] = "hybrid" THEN "keyword" ELSE Resolution(h)]
        /\ hits' = [hits EXCEPT ![s] = h]
        /\ blind' = [blind EXCEPT ![s] = h # all]
        /\ UNCHANGED <<mode, query, source, found, result, stable, missed>>
  BY DEF Semantic, SGoTo
<1>3. /\ spc'[s] = (IF mode[s] = "hybrid" THEN "keyword" ELSE Resolution(h))
      /\ hits'[s] = h /\ found'[s] = {} /\ result'[s] = {} /\ missed'[s] = {}
      /\ blind'[s] = (h # all)
      /\ source'[s] = source[s] /\ mode'[s] = mode[s]
      /\ chunkFile' = chunkFile /\ record' = record
  BY <1>1, <1>2 DEF STypeOK, At, StageOf, Beside, files
<1>4. all \subseteq ChunkIds /\ h \subseteq ChunkIds
  BY <1>1 DEF STypeOK, TypeOK, Kinds
<1>5. \A m \in stable[s] : chunkFile[m] \subseteq all /\ (chunkFile[m] # {} => record[m] # NoContent)
  <2>1. ASSUME NEW m \in stable[s], NEW c \in chunkFile[m] PROVE c \in all
    <3>1. <<"vector", c>> \in {f \in index : f[1] = "vector"} /\ <<"vector", c>>[2] = c
      BY <1>1, AtHand
    <3> QED
      BY <3>1 DEF all
  <2> QED
    BY <2>1, AtHand
<1> HIDE DEF all
<1>6. mode[s] \in {"hybrid", "semantic"}
  BY <1>1 DEF STypeOK, Modes
<1>7. h = all \/ (h = {} /\ h # all)
  BY <1>2
<1>8. StageOf(s)'
  BY <1>1, <1>3, <1>6, <1>7 DEF StageOf, At, Resolution
<1>9. ASSUME NEW m \in stable[s] PROVE Known(s, m)'
  <2>1. CASE h = all
    <3>1. chunkFile[m] # {} /\ <<m>> # source[s] <=> Matches(s, m)'
      BY <1>1, <1>3, <1>5, <2>1 DEF Matches
    <3> QED
      BY <1>3, <1>5, <2>1, <3>1 DEF Known
  <2>2. CASE h = {} /\ h # all
    <3>1. mode[s] = "semantic" => ~Matches(s, m)'
      BY <1>3, <2>2 DEF Matches
    <3> QED
      BY <1>3, <1>6, <2>2, <3>1 DEF Known
  <2> QED
    BY <1>7, <2>1, <2>2
<1>10. \A t \in Searches \ {s} : Same(t)
  BY <1>1, <1>2 DEF STypeOK, Same
<1> QED
  <2>1. spc'[s] \in {"keyword", "resolve", "fetch"}
    BY <1>3 DEF Resolution
  <2>2. /\ spc' \in [Searches -> {"idle", "centroid", "semantic", "keyword", "resolve", "fetch"}]
        /\ hits' \in [Searches -> SUBSET ChunkIds]
        /\ blind' \in [Searches -> BOOLEAN]
    BY <1>1, <1>2, <1>3, <1>4, <2>1 DEF STypeOK
  <2> QED
    BY <1>1, <1>2, <1>8, <1>9, <1>10, <2>2, SearchCallFrame DEF STypeOK

\* The keyword index has every chunk of a memory at rest, under its text.
LEMMA KeywordKeeps ==
  ASSUME SIInv, Beside, NEW s \in Searches, Keyword(s)
  PROVE  SIInv'
<1> DEFINE k == {e[2] : e \in {f \in index : f[1] = "keyword" /\ text[f[2][1]] = query[s]}}
<1> DEFINE h == hits[s] \cup k
<1>1. At(s) /\ STypeOK /\ spc[s] = "keyword" /\ mode[s] # "semantic"
  BY SearchForm DEF Keyword, SGoTo, At, StageOf
<1>2. \A t \in Searches \ {s} : Same(t)
  BY <1>1 DEF Keyword, SGoTo, STypeOK, Same, noted
<1>3. /\ spc'[s] = Resolution(h)
      /\ hits'[s] = h /\ found'[s] = {} /\ result'[s] = {}
      /\ source'[s] = source[s] /\ mode'[s] = mode[s] /\ query'[s] = query[s]
      /\ blind'[s] = blind[s] /\ missed'[s] = {}
      /\ chunkFile' = chunkFile /\ record' = record
  BY <1>1 DEF Keyword, SGoTo, STypeOK, At, StageOf, Beside, files, noted
<1>4. h \subseteq ChunkIds
  BY <1>1 DEF STypeOK, TypeOK, Kinds
<1>5. \A m \in stable[s] : \A c \in chunkFile[m] : record[m] = query[s] => c \in k
  <2>1. ASSUME NEW m \in stable[s], NEW c \in chunkFile[m], record[m] = query[s] PROVE c \in k
    <3>1. <<"keyword", c>> \in index /\ text[c[1]] = query[s]
      BY <2>1, AtHand
    <3>2. <<"keyword", c>>[1] = "keyword" /\ <<"keyword", c>>[2] = c
      OBVIOUS
    <3> QED
      BY <3>1, <3>2
  <2> QED
    BY <2>1
<1>6. \A c \in k : text[c[1]] = query[s]
  OBVIOUS
<1> HIDE DEF k
<1>7. mode[s] = "keyword" \/ blind[s] => h = k
  BY <1>1 DEF At, StageOf
<1>8. hits[s] \subseteq h
  OBVIOUS
<1> HIDE DEF h
<1>9. StageOf(s)'
  BY <1>1, <1>3 DEF StageOf, At, Resolution
<1>10. ASSUME NEW m \in stable[s] PROVE Known(s, m)'
  <2>1. chunkFile[m] # {} => record[m] # NoContent
    BY AtHand
  <2>2. CASE mode[s] = "hybrid" /\ ~blind[s]
    <3>1. chunkFile[m] \subseteq h
      BY <1>1, <1>8, <2>2, AtHand DEF Known
    <3>2. chunkFile[m] # {} /\ <<m>> # source[s] <=> Matches(s, m)'
      BY <1>3, <2>1, <2>2 DEF Matches
    <3> QED
      BY <1>3, <3>1, <3>2 DEF Known, Resolution
  <2>3. CASE mode[s] = "keyword" \/ blind[s]
    <3>1. Matches(s, m)' => chunkFile[m] \subseteq h /\ chunkFile[m] # {}
      BY <1>3, <1>5, <1>7, <2>3 DEF Matches
    <3>2. ASSUME chunkFile[m] \cap h # {} PROVE record[m] = query[s]
      <4>1. PICK c \in chunkFile[m] : c \in h
        BY <3>2
      <4> QED
        BY <1>6, <1>7, <2>3, <4>1, AtHand
    <3>3. chunkFile[m] \cap h # {} /\ <<m>> # source[s] => Matches(s, m)'
      BY <1>1, <1>3, <2>1, <3>2 DEF Matches
    <3> QED
      BY <1>3, <2>3, <3>1, <3>3 DEF Known, Resolution
  <2> QED
    BY <1>1, <2>2, <2>3 DEF STypeOK, Modes
<1> QED
  <2>1. /\ spc' \in [Searches -> {"idle", "centroid", "semantic", "keyword", "resolve", "fetch"}]
        /\ hits' \in [Searches -> SUBSET ChunkIds]
    <3>1. /\ \E v : spc' = [spc EXCEPT ![s] = v]
          /\ \E v : hits' = [hits EXCEPT ![s] = v]
      BY DEF Keyword, SGoTo
    <3>2. spc'[s] \in {"resolve", "fetch"}
      BY <1>3 DEF Resolution
    <3> QED
      BY <1>1, <1>3, <1>4, <3>1, <3>2 DEF STypeOK
  <2>2. UNCHANGED <<mode, query, source, found, result, noted>>
    BY DEF Keyword
  <2> QED
    BY <1>1, <1>2, <1>9, <1>10, <2>1, <2>2, SearchCallFrame DEF STypeOK, noted

\* A hit leads to the memory whose chunk it is.
LEMMA ResolveKeeps ==
  ASSUME SIInv, Beside, NEW s \in Searches, Resolve(s)
  PROVE  SIInv'
<1>1. At(s) /\ STypeOK /\ spc[s] = "resolve"
  BY SearchForm DEF Resolve, SGoTo
<1>2. PICK c \in hits[s] :
        /\ spc' = [spc EXCEPT ![s] = Resolution(hits[s] \ {c})]
        /\ hits' = [hits EXCEPT ![s] = @ \ {c}]
        /\ found' = [found EXCEPT ![s] =
                       @ \cup {m \in Memories : c \in chunkFile[m] /\ <<m>> # source[s]}]
  BY DEF Resolve, SGoTo
<1>3. UNCHANGED <<mode, query, source, result, stable, blind, missed>>
  BY DEF Resolve, noted
<1>4. \A t \in Searches \ {s} : Same(t)
  BY <1>1, <1>2, <1>3 DEF STypeOK, Same
<1>5. /\ spc'[s] = Resolution(hits[s] \ {c}) /\ hits'[s] = hits[s] \ {c} /\ result'[s] = {}
      /\ found'[s] = found[s] \cup {m \in Memories : c \in chunkFile[m] /\ <<m>> # source[s]}
      /\ chunkFile' = chunkFile /\ record' = record /\ result[s] = {} /\ ~(blind[s] /\ mode[s] = "semantic")
  BY <1>1, <1>2, <1>3 DEF STypeOK, At, StageOf, Beside, files
<1>6. StageOf(s)'
  BY <1>1, <1>3, <1>5 DEF StageOf, At, Resolution
<1>7. ASSUME NEW m \in stable[s] PROVE Known(s, m)'
  <2>1. Known(s, m) /\ m \in Memories
    BY AtHand
  <2>2. (Matches(s, m)' <=> Matches(s, m)) /\ (Comparable(s)' <=> Comparable(s))
    BY <1>3, <1>5 DEF Matches, Comparable
  <2>3. c \in chunkFile[m] /\ <<m>> # source[s] => Matches(s, m)
    BY <1>1, <2>1 DEF Known
  <2>4. Matches(s, m) => <<m>> # source[s]
    BY DEF Matches
  <2> QED
    BY <1>1, <1>3, <1>5, <2>1, <2>2, <2>3, <2>4 DEF Known, Resolution
<1> QED
  <2>1. /\ spc' \in [Searches -> {"idle", "centroid", "semantic", "keyword", "resolve", "fetch"}]
        /\ hits' \in [Searches -> SUBSET ChunkIds]
        /\ found' \in [Searches -> SUBSET Memories]
    BY <1>1, <1>2 DEF STypeOK, Resolution
  <2> QED
    BY <1>1, <1>3, <1>4, <1>6, <1>7, <2>1, SearchCallFrame DEF STypeOK

\* A memory that was found is read, or left out if it is gone.
LEMMA FetchKeeps ==
  ASSUME SIInv, Beside, NEW s \in Searches, Fetch(s)
  PROVE  SIInv'
<1>1. At(s) /\ STypeOK /\ spc[s] = "fetch"
  BY SearchForm DEF Fetch, SGoTo
<1>2. PICK n \in found[s] :
        /\ found' = [found EXCEPT ![s] = @ \ {n}]
        /\ result' = [result EXCEPT ![s] =
                        @ \cup (IF record[n] = NoContent THEN {} ELSE {<<n, record[n]>>})]
  BY DEF Fetch
<1>3. /\ UNCHANGED <<mode, query, source, hits, stable, blind, missed>>
      /\ spc' = [spc EXCEPT ![s] = "fetch"]
  BY DEF Fetch, SGoTo, noted
<1>4. \A t \in Searches \ {s} : Same(t)
  BY <1>1, <1>2, <1>3 DEF STypeOK, Same
<1>5. /\ spc'[s] = "fetch" /\ found'[s] = found[s] \ {n} /\ hits'[s] = {} /\ hits[s] = {}
      /\ result'[s] = result[s] \cup (IF record[n] = NoContent THEN {} ELSE {<<n, record[n]>>})
      /\ chunkFile' = chunkFile /\ record' = record
  BY <1>1, <1>2, <1>3 DEF STypeOK, At, StageOf, Beside, files
<1>6. StageOf(s)'
  <2>1. n \in found[s] /\ ~(blind[s] /\ mode[s] = "semantic")
    BY <1>1, <1>2 DEF StageOf, At
  <2> QED
    BY <1>1, <1>3, <1>5, <2>1 DEF StageOf, At
<1>7. ASSUME NEW m \in stable[s] PROVE Known(s, m)'
  <2>1. Known(s, m)
    BY AtHand
  <2>2. (Matches(s, m)' <=> Matches(s, m)) /\ (Comparable(s)' <=> Comparable(s))
    BY <1>3, <1>5 DEF Matches, Comparable
  <2>3. Matches(s, m) => record[m] # NoContent
    BY DEF Matches
  <2> QED
    BY <1>1, <1>3, <1>5, <2>1, <2>2, <2>3 DEF Known
<1> QED
  <2>1. record[n] = NoContent \/ <<n, record[n]>> \in Memories \X Contents
    BY <1>1, <1>2 DEF STypeOK, TypeOK
  <2>2. /\ spc' \in [Searches -> {"idle", "centroid", "semantic", "keyword", "resolve", "fetch"}]
        /\ found' \in [Searches -> SUBSET Memories]
        /\ result' \in [Searches -> SUBSET (Memories \X Contents)]
    BY <1>1, <1>2, <1>3, <2>1 DEF STypeOK
  <2> QED
    BY <1>1, <1>3, <1>4, <1>6, <1>7, <2>2, SearchCallFrame DEF STypeOK

\* What cannot be read is missed.
LEMMA UnreadKeeps ==
  ASSUME SIInv, Beside, NEW s \in Searches,
         CentroidUnread(s) \/ ResolveUnread(s) \/ FetchUnread(s)
  PROVE  SIInv'
<1>1. At(s) /\ STypeOK /\ record' = record /\ chunkFile' = chunkFile
  BY SearchForm DEF Beside, files
<1>2. CASE CentroidUnread(s)
  <2>1. /\ spc[s] = "centroid" /\ spc' = [spc EXCEPT ![s] = "fetch"]
        /\ blind' = [blind EXCEPT ![s] = TRUE]
        /\ UNCHANGED <<mode, query, source, hits, found, result, stable, missed>>
    BY <1>2 DEF CentroidUnread, SGoTo
  <2>2. \A t \in Searches \ {s} : Same(t)
    BY <1>1, <2>1 DEF STypeOK, Same
  <2>3. /\ spc'[s] = "fetch" /\ blind'[s] /\ mode[s] = "semantic"
        /\ hits[s] = {} /\ found[s] = {} /\ result[s] = {}
    BY <1>1, <2>1 DEF STypeOK, At, StageOf
  <2>4. StageOf(s)'
    BY <1>1, <2>1, <2>3 DEF StageOf, At
  <2>5. \A m \in stable[s] : ~Matches(s, m)'
    BY <2>1, <2>3 DEF Matches
  <2>6. \A m \in stable[s] : Known(s, m)'
    BY <2>1, <2>3, <2>5 DEF Known
  <2> QED
    BY <1>1, <2>1, <2>2, <2>4, <2>6, SearchCallFrame DEF STypeOK
<1>3. CASE ResolveUnread(s)
  <2>1. spc[s] = "resolve"
    BY <1>3 DEF ResolveUnread, SGoTo
  <2>2. PICK c \in hits[s] :
          /\ spc' = [spc EXCEPT ![s] = Resolution(hits[s] \ {c})]
          /\ hits' = [hits EXCEPT ![s] = @ \ {c}]
          /\ missed' = [missed EXCEPT ![s] = @ \cup {m \in Memories : c \in chunkFile[m]}]
          /\ UNCHANGED <<mode, query, source, found, result, stable, blind>>
    BY <1>3 DEF ResolveUnread, SGoTo
  <2>3. \A t \in Searches \ {s} : Same(t)
    BY <1>1, <2>2 DEF STypeOK, Same
  <2>4. /\ spc'[s] = Resolution(hits[s] \ {c}) /\ hits'[s] = hits[s] \ {c} /\ result[s] = {}
        /\ missed'[s] = missed[s] \cup {m \in Memories : c \in chunkFile[m]}
        /\ ~(blind[s] /\ mode[s] = "semantic")
    BY <1>1, <2>1, <2>2 DEF STypeOK, At, StageOf
  <2>5. StageOf(s)'
    BY <1>1, <2>1, <2>2, <2>4 DEF StageOf, At, Resolution
  <2>6. ASSUME NEW m \in stable[s] PROVE Known(s, m)'
    <3>1. Known(s, m) /\ m \in Memories
      BY AtHand
    <3>2. (Matches(s, m)' <=> Matches(s, m)) /\ (Comparable(s)' <=> Comparable(s))
      BY <1>1, <2>2 DEF Matches, Comparable
    <3> QED
      BY <1>1, <2>1, <2>2, <2>4, <3>1, <3>2 DEF Known, Resolution
  <2>7. /\ spc' \in [Searches -> {"idle", "centroid", "semantic", "keyword", "resolve", "fetch"}]
        /\ hits' \in [Searches -> SUBSET ChunkIds]
        /\ missed' \in [Searches -> SUBSET Memories]
    BY <1>1, <2>2 DEF STypeOK, Resolution
  <2> QED
    BY <1>1, <2>2, <2>3, <2>5, <2>6, <2>7, SearchCallFrame DEF STypeOK
<1>4. CASE FetchUnread(s)
  <2>1. spc[s] = "fetch" /\ spc' = [spc EXCEPT ![s] = "fetch"]
    BY <1>4 DEF FetchUnread, SGoTo
  <2>2. PICK n \in found[s] :
          /\ found' = [found EXCEPT ![s] = @ \ {n}]
          /\ missed' = [missed EXCEPT ![s] = @ \cup {n}]
    BY <1>4 DEF FetchUnread
  <2>3. UNCHANGED <<mode, query, source, hits, result, stable, blind>>
    BY <1>4 DEF FetchUnread
  <2>4. \A t \in Searches \ {s} : Same(t)
    BY <1>1, <2>1, <2>2, <2>3 DEF STypeOK, Same
  <2>5. /\ spc'[s] = "fetch" /\ found'[s] = found[s] \ {n} /\ hits[s] = {}
        /\ missed'[s] = missed[s] \cup {n} /\ ~(blind[s] /\ mode[s] = "semantic")
    BY <1>1, <2>1, <2>2 DEF STypeOK, At, StageOf
  <2>6. StageOf(s)'
    BY <1>1, <2>1, <2>3, <2>5 DEF StageOf, At
  <2>7. ASSUME NEW m \in stable[s] PROVE Known(s, m)'
    <3>1. Known(s, m)
      BY AtHand
    <3>2. (Matches(s, m)' <=> Matches(s, m)) /\ (Comparable(s)' <=> Comparable(s))
      BY <1>1, <2>3 DEF Matches, Comparable
    <3> QED
      BY <1>1, <2>1, <2>3, <2>5, <3>1, <3>2 DEF Known
  <2>8. /\ spc' \in [Searches -> {"idle", "centroid", "semantic", "keyword", "resolve", "fetch"}]
        /\ found' \in [Searches -> SUBSET Memories]
        /\ missed' \in [Searches -> SUBSET Memories]
    BY <1>1, <2>1, <2>2 DEF STypeOK
  <2> QED
    BY <1>1, <2>3, <2>4, <2>6, <2>7, <2>8, SearchCallFrame DEF STypeOK
<1> QED
  BY <1>2, <1>3, <1>4

\* Nothing is left of an answered search.
LEMMA AnswerKeeps ==
  ASSUME SIInv, Beside, NEW s \in Searches, Answer(s)
  PROVE  SIInv'
<1>1. Over({s})
  BY DEF Answer
<1>2. TypeOK'
  BY DEF Beside, IInv
<1>3. STypeOK' /\ Stages' /\ stable'[s] = {}
  BY <1>1, <1>2, OverForm DEF SIInv
<1>4. \A t \in Searches \ {s} : Same(t)
  BY <1>1, OverForm DEF Same
<1>5. At(s)'
  BY <1>3 DEF At, Stages, StageOf
<1> QED
  BY <1>3, <1>4, <1>5, SearchFrame

-----------------------------------------------------------------------------
\* Every step keeps the invariant.
LEMMA SIInvStep == SIInv /\ [SNext]_<<vars, svars>> => SIInv'
<1> SUFFICES ASSUME SIInv, [SNext]_<<vars, svars>> PROVE SIInv'
  OBVIOUS
<1>1. CASE UNCHANGED <<vars, svars>>
  <2>1. IInv'
    BY <1>1, IInvStep DEF SIInv
  <2>2. \A t \in Searches : Same(t) /\ At(t)
    BY <1>1, SearchForm DEF svars, noted, Same
  <2>3. STypeOK'
    BY <1>1, <2>1 DEF svars, noted, SIInv, STypeOK, IInv
  <2>4. CASE Searches = {}
    BY <2>1, <2>3, <2>4 DEF SIInv, Stages, Stability
  <2>5. ASSUME NEW s \in Searches PROVE SIInv'
    <3>1. StageOf(s)' /\ \A m \in stable[s] : Known(s, m)'
      BY <1>1, <2>2 DEF vars, files, svars, noted, At, StageOf, Known, Comparable, Matches
    <3> QED
      BY <1>1, <2>1, <2>2, <3>1, SearchCallFrame DEF vars, Beside, svars, noted, SIInv, STypeOK
  <2> QED
    BY <2>4, <2>5
<1>2. ASSUME NEW s \in Searches, SearchStep(s), UNCHANGED vars PROVE SIInv'
  <2>1. Beside
    BY <1>2, IInvStep DEF SIInv, Beside, vars
  <2> QED
    BY <1>2, <2>1, SearchBegins, SimilarBegins, CentroidKeeps, SemanticKeeps, KeywordKeeps,
       ResolveKeeps, FetchKeeps, AnswerKeeps DEF SearchStep
<1>3. ASSUME NEW s \in Searches, ReadFails(s) PROVE SIInv'
  <2>1. Beside
    BY <1>3, ServiceStep DEF SIInv, SNext, ReadFails, Beside
  <2> QED
    BY <1>3, <2>1, UnreadKeeps DEF ReadFails
<1> QED
  BY <1>1, <1>2, <1>3, WriteKeeps, FailureKeeps DEF SNext

\* The inductive invariant holds of every behaviour of writers and searches.
THEOREM SearchInvariance == SSpec => []SIInv
BY SearchInit, SIInvStep, PTL DEF SSpec

\* Records, files, index entries, requests and searches keep their types.
THEOREM SearchTypes == SSpec => []STypeOK
<1>1. SIInv => STypeOK
  BY DEF SIInv
<1> QED
  BY <1>1, SearchInvariance, PTL

\* What is proved of the writers alone holds beside searches: a memory at rest is
\* coherent whoever searches meanwhile.
THEOREM CoherenceBesideSearches == SSpec => []QuietMemoriesAreCoherent
<1>1. SIInv => QuietMemoriesAreCoherent
  BY DEF SIInv, IInv
<1> QED
  BY <1>1, SearchInvariance, PTL

\* For any writers, texts, searches and faults: about the memories that no request
\* touches while it runs, a search that ends answers what it would over a store at rest:
\* nothing that does not match, and all that matches but for those of which it could not
\* read a file. A search to which the vector index gave nothing, because the library
\* under it panicked, answers what the keyword index alone would, or nothing.
THEOREM Exactness == SSpec => SearchIsExact
<1>1. ASSUME SIInv, NEW s \in Searches, Answer(s), NEW m \in stable[s]
      PROVE  LET got == {p \in result[s] : p[1] = m} IN
             /\ got \subseteq IF Matches(s, m) THEN {<<m, record[m]>>} ELSE {}
             /\ Comparable(s) /\ Matches(s, m) /\ m \notin missed[s] => got # {}
  <2>1. Known(s, m) /\ spc[s] = "fetch" /\ found[s] = {} /\ hits[s] = {}
    BY <1>1, AtHand DEF Answer, At, StageOf
  <2>2. \A p \in result[s] : p = <<p[1], p[2]>>
    BY <1>1 DEF SIInv, STypeOK
  <2>3. \A p \in result[s] : p[1] = m => p = <<m, record[m]>> /\ Matches(s, m)
    BY <2>1, <2>2 DEF Known
  <2>4. Comparable(s) /\ Matches(s, m) /\ m \notin missed[s] => <<m, record[m]>> \in result[s]
    BY <2>1 DEF Known
  <2> QED
    BY <2>3, <2>4
<1>2. SIInv => [\A s \in Searches : Answer(s) =>
                 \A m \in stable[s] : LET got == {p \in result[s] : p[1] = m} IN
                   /\ got \subseteq IF Matches(s, m) THEN {<<m, record[m]>>} ELSE {}
                   /\ Comparable(s) /\ Matches(s, m) /\ m \notin missed[s] => got # {}
               ]_<<vars, svars>>
  BY <1>1
<1> QED
  BY <1>2, SearchInvariance, PTL DEF SearchIsExact
===============================================================================
