--------------------------- MODULE MemoryService ---------------------------
(***************************************************************************)
(* The write side of the memory use case (usecase/memory/service.go) over  *)
(* the file repositories and the two per-store search indexes, for one     *)
(* store.                                                                  *)
(*                                                                         *)
(* Every HTTP or MCP request runs in a goroutine of its own and nothing in *)
(* the use case or in the repositories holds a lock across two calls, so a *)
(* request is a process whose repository and index calls are single steps  *)
(* that interleave with those of the other requests.  The record of a      *)
(* memory, its chunk file and the index entries of its chunks are three    *)
(* separate pieces of state; what makes the component correct is that they *)
(* agree whenever nobody is working on the memory.                         *)
(*                                                                         *)
(* A memory is named by the Save request that mints its identifier, and a  *)
(* chunk by the request that builds it and its position: generateID is     *)
(* never asked twice for the same identifier.                              *)
(***************************************************************************)
EXTENDS Integers, FiniteSets

CONSTANTS
  Requests,    \* one-shot requests of the clients, and so the memory names
  Contents,    \* the texts a client may send
  NoContent,   \* no record file
  ChunkCount,  \* how many chunks the chunker cuts a text into
  Embedding,   \* whether an embedder is configured
  MaxFaults    \* bound on failing calls and crashes in a behaviour

ASSUME ContentAssumption ==
  /\ NoContent \notin Contents
  /\ ChunkCount \in [Contents -> Nat]
ASSUME FaultAssumption == MaxFaults \in Nat
ASSUME EmbeddingAssumption == Embedding \in BOOLEAN

VARIABLES
  record,     \* record[m]: content in {m}.json, or NoContent
  chunkFile,  \* chunkFile[m]: chunks in {m}-chunks.json; an absent file reads as empty
  index,      \* entries <<kind, chunk>> of the keyword and the vector index
  pc,         \* next call of each request
  op,         \* handler the request runs
  mem,        \* memory it works on
  text,       \* content its copy of the record holds
  rebuild,    \* contentChanged: an Update that replaces the chunks
  todo,       \* index calls still to make in the current loop
  faults,     \* failing calls and crashes so far
  overlap,    \* history: memories two requests have worked on at once
  lost,       \* history: memories for which an index call failed
  damaged     \* history: memories left half-written by a failed or killed request

files   == <<record, chunkFile>>
locals  == <<op, mem, text, rebuild>>
history == <<overlap, lost, damaged>>
vars    == <<files, index, pc, locals, todo, faults, history>>

Memories == Requests
Kinds    == {"keyword", "vector"}
Indexed  == IF Embedding THEN Kinds ELSE {"keyword"}

Handlers == {"save", "update", "delete"}
Steps    == {"writeRecord", "getChunks", "unindex", "dropChunks", "saveChunks",
             "index", "dropRecord"}

\* A chunk names its builder and its position in the text.
ChunkIds == Requests \X Nat
Chunks(r) == {r} \X (1 .. ChunkCount[text[r]])

Active(r) == pc[r] \in Steps
Busy(m)   == \E r \in Requests : Active(r) /\ mem[r] = m

\* The chunks of m that either index knows.
EntriesOf(m) == {e \in index : mem[e[2][1]] = m}

\* The loops over chunks go by position, the keyword index before the vector index.
First(e, T) ==
  /\ e \in T
  /\ \A f \in T : \/ e[2][2] < f[2][2]
                  \/ e[2][2] = f[2][2] /\ (e[1] = "keyword" \/ f[1] = "vector")

Init ==
  /\ record = [m \in Memories |-> NoContent]
  /\ chunkFile = [m \in Memories |-> {}]
  /\ index = {}
  /\ pc = [r \in Requests |-> "idle"]
  /\ op = [r \in Requests |-> "save"]
  /\ mem = [r \in Requests |-> r]
  /\ text = [r \in Requests |-> NoContent]
  /\ rebuild = [r \in Requests |-> FALSE]
  /\ todo = [r \in Requests |-> {}]
  /\ faults = 0
  /\ overlap = {} /\ lost = {} /\ damaged = {}

-----------------------------------------------------------------------------
(* The start of a handler: its reads, up to its first write.               *)

Begin(r, o, m, c, b, next) ==
  /\ pc[r] = "idle"
  /\ pc' = [pc EXCEPT ![r] = next]
  /\ op' = [op EXCEPT ![r] = o]
  /\ mem' = [mem EXCEPT ![r] = m]
  /\ text' = [text EXCEPT ![r] = c]
  /\ rebuild' = [rebuild EXCEPT ![r] = b]
  /\ overlap' = IF Busy(m) THEN overlap \cup {m} ELSE overlap
  /\ UNCHANGED <<files, index, todo, faults, lost, damaged>>

\* The text is chunked and embedded before anything is written; an error there
\* is a Fail at the first write.
Save(r, c) == Begin(r, "save", r, c, FALSE, "writeRecord")

\* Mutant of Update: the content is compared after the copy is edited.
UpdateUnnoticed(r, m, c) ==
  /\ record[m] # NoContent
  /\ Begin(r, "update", m, c, FALSE, "writeRecord")

\* Update edits a copy of the record: c is the content the request asks for, or
\* the content already there when it sends none.
Update(r, m, c) ==
  /\ record[m] # NoContent
  /\ Begin(r, "update", m, c, c # record[m],
           IF c # record[m] THEN "getChunks" ELSE "writeRecord")

Delete(r, m) ==
  /\ record[m] # NoContent
  /\ Begin(r, "delete", m, record[m], FALSE, "getChunks")

\* No record, no access to the store, an empty field, a file or page that cannot be
\* read: an error, before anything is written.
Refuse(r) ==
  /\ pc[r] = "idle"
  /\ pc' = [pc EXCEPT ![r] = "failed"]
  /\ UNCHANGED <<files, index, locals, todo, faults, history>>

-----------------------------------------------------------------------------
(* The calls of the handlers, in the order the code makes them.            *)

GoTo(r, from, next) == pc[r] = from /\ pc' = [pc EXCEPT ![r] = next]

\* Where a loop over the index calls leads once T is what remains of it.
AfterUnindex(T)  == IF T = {} THEN "dropChunks" ELSE "unindex"

\* Mutant of AfterIndex: an Update returns what indexChunks returns.
AfterIndexReturns(r, T) ==
  IF T # {} THEN "index" ELSE IF op[r] = "save" THEN "done" ELSE "returned"

AfterIndex(r, T) == IF T # {} THEN "index" ELSE IF op[r] = "save" THEN "done" ELSE "writeRecord"

\* Mutant of GetChunks: the keyword index alone is cleaned up.
GetChunksKeyword(r) ==
  LET T == {"keyword"} \X chunkFile[mem[r]] IN
  /\ GoTo(r, "getChunks", AfterUnindex(T))
  /\ todo' = [todo EXCEPT ![r] = T]
  /\ UNCHANGED <<files, index, locals, faults, history>>

\* GetChunks, then removeChunksFromIndex over what it returned.
GetChunks(r) ==
  LET T == Kinds \X chunkFile[mem[r]] IN
  /\ GoTo(r, "getChunks", AfterUnindex(T))
  /\ todo' = [todo EXCEPT ![r] = T]
  /\ UNCHANGED <<files, index, locals, faults, history>>

\* removeChunksFromIndex: one Delete call on one index.
Unindex(r) ==
  \E e \in todo[r] :
    /\ First(e, todo[r])
    /\ GoTo(r, "unindex", AfterUnindex(todo[r] \ {e}))
    /\ index' = index \ {e}
    /\ todo' = [todo EXCEPT ![r] = @ \ {e}]
    /\ UNCHANGED <<files, locals, faults, history>>

DropChunks(r) ==
  /\ GoTo(r, "dropChunks", IF op[r] = "delete" THEN "dropRecord" ELSE "saveChunks")
  /\ chunkFile' = [chunkFile EXCEPT ![mem[r]] = {}]
  /\ UNCHANGED <<record, index, locals, todo, faults, history>>

\* SaveChunks, then indexChunks over the chunks it wrote.
SaveChunks(r) ==
  /\ pc[r] = "saveChunks"
  /\ LET T == Indexed \X Chunks(r) IN
       /\ GoTo(r, "saveChunks", AfterIndex(r, T))
       /\ todo' = [todo EXCEPT ![r] = T]
  /\ chunkFile' = [chunkFile EXCEPT ![mem[r]] = Chunks(r)]
  /\ UNCHANGED <<record, index, locals, faults, history>>

\* indexChunks: one Add or Upsert call on one index.
Index(r) ==
  \E e \in todo[r] :
    /\ First(e, todo[r])
    /\ GoTo(r, "index", AfterIndex(r, todo[r] \ {e}))
    /\ index' = index \cup {e}
    /\ todo' = [todo EXCEPT ![r] = @ \ {e}]
    /\ UNCHANGED <<files, locals, faults, history>>

\* repo.Save and repo.Update are the same unconditional file write.
WriteRecord(r) ==
  /\ GoTo(r, "writeRecord", IF op[r] = "save" THEN "saveChunks" ELSE "done")
  /\ record' = [record EXCEPT ![mem[r]] = text[r]]
  /\ damaged' = IF rebuild[r] THEN damaged \ {mem[r]} ELSE damaged
  /\ UNCHANGED <<chunkFile, index, locals, todo, faults, overlap, lost>>

DropRecord(r) ==
  /\ GoTo(r, "dropRecord", "done")
  /\ record' = [record EXCEPT ![mem[r]] = NoContent]
  /\ damaged' = damaged \ {mem[r]}
  /\ UNCHANGED <<chunkFile, index, locals, todo, faults, overlap, lost>>

-----------------------------------------------------------------------------
(* Failures.                                                               *)

Fault == faults < MaxFaults /\ faults' = faults + 1

\* The request has changed nothing yet.
Harmless(r) == pc[r] = "getChunks" \/ (pc[r] = "writeRecord" /\ ~rebuild[r])

\* A repository call fails and the handler returns its error.
Fail(r) ==
  /\ Fault
  /\ pc[r] \in {"writeRecord", "dropChunks", "saveChunks", "dropRecord"}
  /\ pc' = [pc EXCEPT ![r] = "failed"]
  /\ damaged' = IF Harmless(r) THEN damaged ELSE damaged \cup {mem[r]}
  /\ UNCHANGED <<files, index, locals, todo, overlap, lost>>

\* The chunk file cannot be read: the handler goes on without unindexing.
GetChunksFails(r) ==
  /\ Fault
  /\ GoTo(r, "getChunks", "dropChunks")
  /\ lost' = lost \cup {mem[r]}
  /\ UNCHANGED <<files, index, locals, todo, overlap, damaged>>

\* An index call fails: the error is dropped and the loop goes on.
IndexCallFails(r) ==
  /\ Fault
  /\ \E e \in todo[r] :
       /\ First(e, todo[r])
       /\ \/ GoTo(r, "unindex", AfterUnindex(todo[r] \ {e}))
          \/ GoTo(r, "index", AfterIndex(r, todo[r] \ {e}))
       /\ todo' = [todo EXCEPT ![r] = @ \ {e}]
  /\ lost' = lost \cup {mem[r]}
  /\ UNCHANGED <<files, index, locals, overlap, damaged>>

\* The process dies and starts again: files and saved indexes survive, requests do
\* not, and nothing is rebuilt or resumed at start-up.
Crash ==
  /\ Fault
  /\ \E r \in Requests : Active(r)
  /\ pc' = [r \in Requests |-> IF Active(r) THEN "failed" ELSE pc[r]]
  /\ damaged' = damaged \cup {mem[r] : r \in {s \in Requests : Active(s) /\ ~Harmless(s)}}
  /\ UNCHANGED <<files, index, locals, todo, overlap, lost>>

-----------------------------------------------------------------------------
SaveStep(r)   == \E c \in Contents : Save(r, c)
UpdateStep(r) == \E m \in Memories, c \in Contents : Update(r, m, c)
DeleteStep(r) == \E m \in Memories : Delete(r, m)

Call(r) ==
  \/ GetChunks(r) \/ Unindex(r) \/ DropChunks(r) \/ SaveChunks(r)
  \/ Index(r) \/ WriteRecord(r) \/ DropRecord(r)

Failure(r) == Fail(r) \/ GetChunksFails(r) \/ IndexCallFails(r)

Request(r) ==
  \/ SaveStep(r) \/ UpdateStep(r) \/ DeleteStep(r) \/ Refuse(r)
  \/ Call(r) \/ Failure(r)

Next == (\E r \in Requests : Request(r)) \/ Crash

Spec == Init /\ [][Next]_vars

-----------------------------------------------------------------------------
(* Properties.                                                             *)

TypeOK ==
  /\ record \in [Memories -> Contents \cup {NoContent}]
  /\ chunkFile \in [Memories -> SUBSET ChunkIds]
  /\ index \subseteq Kinds \X ChunkIds
  /\ pc \in [Requests -> Steps \cup {"idle", "done", "failed"}]
  /\ op \in [Requests -> Handlers]
  /\ mem \in [Requests -> Memories]
  /\ text \in [Requests -> Contents \cup {NoContent}]
  /\ rebuild \in [Requests -> BOOLEAN]
  /\ todo \in [Requests -> SUBSET (Kinds \X ChunkIds)]
  /\ faults \in 0 .. MaxFaults
  /\ overlap \subseteq Memories /\ lost \subseteq Memories /\ damaged \subseteq Memories

\* The three stores agree on m: a record comes with the chunks of exactly its
\* content, every one of them in every index in use; no record, nothing left.
Coherent(m) ==
  IF record[m] = NoContent
  THEN chunkFile[m] = {} /\ EntriesOf(m) = {}
  ELSE /\ \E b \in Requests : mem[b] = m /\ text[b] = record[m] /\ chunkFile[m] = Chunks(b)
       /\ EntriesOf(m) = Indexed \X chunkFile[m]

\* A memory that nobody is working on, on which no two requests have overlapped and
\* whose index calls have not failed, is coherent, unless a request died half-way
\* through it; and then the next Update of its content, or Delete, restores it.
QuietMemoriesAreCoherent ==
  \A m \in Memories \ (overlap \cup lost \cup damaged) : ~Busy(m) => Coherent(m)

\* At every moment, across crashes and failed file writes, an index entry of a memory
\* on which no two requests have worked at once and for which no index call has failed
\* can be found again from its chunk file, which is where Delete and Update look for
\* what to unindex: entries are added after the file is written and removed before it is
\* dropped. Without a failure, two updates that overlap leave entries in no chunk file.
EntriesAreReachable ==
  \A m \in Memories \ (overlap \cup lost) : EntriesOf(m) \subseteq Kinds \X chunkFile[m]

-----------------------------------------------------------------------------
(* The inductive invariant: what each point of a handler has made true of  *)
(* its memory.  The theorems of MemoryProofs rest on it.                   *)

Untainted(m) == m \notin overlap \cup lost

\* Nothing exists yet under the name of a request that has not begun.
Unborn ==
  \A r \in Requests : pc[r] = "idle" =>
    /\ record[r] = NoContent /\ chunkFile[r] = {} /\ r \notin damaged
    /\ \A s \in Requests : mem[s] = r <=> s = r

\* Chunks are built by requests that have begun, for the memory they work on.
Ownership ==
  /\ \A e \in index : pc[e[2][1]] # "idle"
  /\ \A m \in Memories : \A c \in chunkFile[m] : mem[c[1]] = m /\ pc[c[1]] # "idle"
  /\ \A r \in Requests : pc[r] \in {"unindex", "index"} =>
       \A e \in todo[r] : mem[e[2][1]] = mem[r] /\ pc[e[2][1]] # "idle"

\* Two requests on one memory have been noticed.
Solitude ==
  \A r, s \in Requests :
    Active(r) /\ Active(s) /\ mem[r] = mem[s] /\ mem[r] \notin overlap => r = s

\* Which handlers reach which call.
Control ==
  \A r \in Requests : Active(r) =>
    /\ text[r] \in Contents
    /\ rebuild[r] => op[r] = "update"
    /\ pc[r] \in {"getChunks", "unindex", "dropChunks"} => op[r] # "save"
    /\ pc[r] \in {"saveChunks", "index", "writeRecord"} => op[r] # "delete"
    /\ pc[r] = "dropRecord" => op[r] = "delete"
    /\ op[r] = "update" /\ pc[r] # "writeRecord" => rebuild[r]

\* What is true of the memory m of an active request r.
Progress(r, m) ==
  CASE pc[r] = "getChunks"  -> m \notin damaged => Coherent(m)
    [] pc[r] = "unindex"    -> EntriesOf(m) \subseteq todo[r]
    [] pc[r] = "dropChunks" -> EntriesOf(m) = {}
    [] pc[r] = "dropRecord" -> EntriesOf(m) = {} /\ chunkFile[m] = {}
    [] pc[r] = "saveChunks" -> /\ EntriesOf(m) = {} /\ chunkFile[m] = {}
                               /\ op[r] = "save" => record[m] = text[r]
    [] pc[r] = "index"      -> /\ chunkFile[m] = Chunks(r)
                               /\ EntriesOf(m) \cup todo[r] = Indexed \X Chunks(r)
                               /\ op[r] = "save" => record[m] = text[r]
    [] pc[r] = "writeRecord" ->
         IF op[r] = "save"
         THEN record[m] = NoContent /\ chunkFile[m] = {} /\ EntriesOf(m) = {}
         ELSE IF rebuild[r]
         THEN chunkFile[m] = Chunks(r) /\ EntriesOf(m) = Indexed \X Chunks(r)
         ELSE record[m] = text[r] /\ (m \notin damaged => Coherent(m))

AllProgress == \A r \in Requests : Active(r) /\ Untainted(mem[r]) => Progress(r, mem[r])

IInv ==
  /\ TypeOK /\ Control /\ Unborn /\ Ownership /\ Solitude /\ AllProgress
  /\ QuietMemoriesAreCoherent /\ EntriesAreReachable
=============================================================================
