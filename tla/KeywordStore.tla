---------------------------- MODULE KeywordStore ----------------------------
(***************************************************************************)
(* The keyword index of one store: infrastructure/index/bm25_store.go over *)
(* bm25.go.  The index is loaded on first use under a double-checked lock, *)
(* changed under its own mutex, encoded under the mutex again, and written *)
(* to bm25.gob after the mutex has been released, with os.WriteFile, which *)
(* empties the file and then fills it.                                     *)
(***************************************************************************)
EXTENDS Naturals

CONSTANTS
  Requests,   \* one-shot calls of Add, Delete and Search
  Chunks,
  NoIndex,    \* nothing under the store's name in the indexes map
  MaxFaults   \* bound on failing calls and crashes

ASSUME NoIndexAssumption == NoIndex \notin Requests
ASSUME FaultAssumption == MaxFaults \in Nat

VARIABLES
  heap,     \* heap[o]: chunks of the BM25Index that request o loaded
  cached,   \* indexes[store]
  file,     \* bm25.gob
  pc,       \* next step of each request
  call,     \* call it serves, with the chunk it adds or deletes
  idx,      \* index it has got from getOrLoad
  data,     \* encoded index it is about to write
  faults,   \* failing calls and crashes so far
  alone,    \* history: the writer that has had the index to itself since it changed it
  settled   \* history: the last change was written by such a writer

vars == <<heap, cached, file, pc, call, idx, data, faults, alone, settled>>

Calls == {<<"search">>} \cup ({"add", "delete"} \X Chunks)

\* A file that was emptied and not filled again does not decode.
Whole(docs) == [state |-> "whole", docs |-> docs]
Absent      == [state |-> "absent", docs |-> {}]
Torn        == [state |-> "torn", docs |-> {}]

Writers == {r \in Requests : pc[r] \in {"encode", "truncate", "write"}}

Init ==
  /\ heap = [o \in Requests |-> {}]
  /\ cached = NoIndex
  /\ file = Absent
  /\ pc = [r \in Requests |-> "idle"]
  /\ call = [r \in Requests |-> <<>>]
  /\ idx = [r \in Requests |-> NoIndex]
  /\ data = [r \in Requests |-> {}]
  /\ faults = 0
  /\ alone = {} /\ settled = TRUE

GoTo(r, from, to) == pc[r] = from /\ pc' = [pc EXCEPT ![r] = to]

\* A request that returns drops what it holds.
Forget(r) ==
  /\ call' = [call EXCEPT ![r] = <<>>]
  /\ idx' = [idx EXCEPT ![r] = NoIndex]
  /\ data' = [data EXCEPT ![r] = {}]

Fault == faults < MaxFaults /\ faults' = faults + 1

\* getOrLoad up to the read unlock.
Lookup(r, c) ==
  /\ GoTo(r, "idle", IF cached = NoIndex THEN "load" ELSE "apply")
  /\ call' = [call EXCEPT ![r] = c]
  /\ idx' = [idx EXCEPT ![r] = cached]
  /\ UNCHANGED <<heap, cached, file, data, faults, alone, settled>>

\* Mutant of Load: the map is not looked at again under the write lock.
LoadUnchecked(r) ==
  /\ GoTo(r, "load", "apply")
  /\ file # Torn
  /\ heap' = [heap EXCEPT ![r] = file.docs]
  /\ cached' = r
  /\ idx' = [idx EXCEPT ![r] = r]
  /\ UNCHANGED <<file, call, data, faults, alone, settled>>

\* getOrLoad from the write lock on: another request may have loaded the index first.
Load(r) ==
  /\ GoTo(r, "load", "apply")
  /\ \/ cached # NoIndex /\ idx' = [idx EXCEPT ![r] = cached] /\ UNCHANGED <<heap, cached>>
     \/ /\ cached = NoIndex /\ file # Torn
        /\ heap' = [heap EXCEPT ![r] = file.docs]
        /\ cached' = r
        /\ idx' = [idx EXCEPT ![r] = r]
  /\ UNCHANGED <<file, call, data, faults, alone, settled>>

\* The file cannot be read, or does not decode: nothing is cached.
LoadFails(r) ==
  /\ cached = NoIndex
  /\ GoTo(r, "load", "failed")
  /\ \/ file = Torn /\ UNCHANGED faults
     \/ Fault
  /\ UNCHANGED <<heap, cached, file, call, idx, data, alone, settled>>

\* BM25Index.Add and Delete, under the mutex of the index.
Apply(r) ==
  /\ call[r] # <<"search">>
  /\ GoTo(r, "apply", "encode")
  /\ heap' = [heap EXCEPT ![idx[r]] =
                IF call[r][1] = "add" THEN @ \cup {call[r][2]} ELSE @ \ {call[r][2]}]
  /\ alone' = IF Writers = {} THEN {r} ELSE {}
  /\ settled' = FALSE
  /\ UNCHANGED <<cached, file, call, idx, data, faults>>

\* Mutant of Search: it does not give back what it holds.
SearchSticks(r) ==
  /\ call[r] = <<"search">>
  /\ GoTo(r, "apply", "locked")
  /\ UNCHANGED <<heap, cached, file, call, idx, data, faults, alone, settled>>

\* BM25Index.Search, under the mutex; nothing is saved after it.
Search(r) ==
  /\ call[r] = <<"search">>
  /\ GoTo(r, "apply", "done")
  /\ Forget(r)
  /\ UNCHANGED <<heap, cached, file, faults, alone, settled>>

\* Mutant of Encode: the bytes encoded before the change are written.
EncodeStale(r) ==
  /\ GoTo(r, "encode", "truncate")
  /\ data' = [data EXCEPT ![r] = file.docs]
  /\ UNCHANGED <<heap, cached, file, call, idx, faults, alone, settled>>

\* GobEncode, under the mutex.
Encode(r) ==
  /\ GoTo(r, "encode", "truncate")
  /\ data' = [data EXCEPT ![r] = heap[idx[r]]]
  /\ UNCHANGED <<heap, cached, file, call, idx, faults, alone, settled>>

\* os.WriteFile opens the file ...
Truncate(r) ==
  /\ GoTo(r, "truncate", "write")
  /\ file' = Torn
  /\ UNCHANGED <<heap, cached, call, idx, data, faults, alone, settled>>

\* ... and writes it: of two writers the later one is what a reader decodes.
Write(r) ==
  /\ GoTo(r, "write", "done")
  /\ file' = Whole(data[r])
  /\ settled' \in BOOLEAN /\ (settled' <=> r \in alone)
  /\ Forget(r)
  /\ UNCHANGED <<heap, cached, faults, alone>>

\* The file cannot be opened, or stays empty on a full disk; the index in memory keeps
\* the change.
WriteFails(r) ==
  /\ Fault
  /\ pc[r] \in {"truncate", "write"}
  /\ pc' = [pc EXCEPT ![r] = "failed"]
  /\ Forget(r)
  /\ UNCHANGED <<heap, cached, file, alone, settled>>

\* The process dies: the file stays as it is.
Crash ==
  /\ Fault
  /\ cached' = NoIndex
  /\ pc' = [r \in Requests |-> IF pc[r] \in {"idle", "done", "failed"} THEN pc[r] ELSE "failed"]
  /\ heap' = [o \in Requests |-> {}]
  /\ call' = [r \in Requests |-> <<>>]
  /\ idx' = [r \in Requests |-> NoIndex]
  /\ data' = [r \in Requests |-> {}]
  /\ UNCHANGED <<file, alone, settled>>

Request(r) ==
  \/ \E c \in Calls : Lookup(r, c)
  \/ Load(r) \/ LoadFails(r) \/ Apply(r) \/ Search(r)
  \/ Encode(r) \/ Truncate(r) \/ Write(r) \/ WriteFails(r)

Next == (\E r \in Requests : Request(r)) \/ Crash

Spec == Init /\ [][Next]_vars

-----------------------------------------------------------------------------
TypeOK ==
  /\ heap \in [Requests -> SUBSET Chunks]
  /\ cached \in Requests \cup {NoIndex}
  /\ file \in {Absent, Torn} \cup {Whole(d) : d \in SUBSET Chunks}
  /\ pc \in [Requests -> {"idle", "load", "apply", "encode", "truncate", "write", "done", "failed"}]
  /\ call \in [Requests -> Calls \cup {<<>>}]
  /\ idx \in [Requests -> Requests \cup {NoIndex}]
  /\ data \in [Requests -> SUBSET Chunks]
  /\ alone \subseteq Requests
  /\ settled \in BOOLEAN

\* Every request works on the index that the map holds: two first requests at once
\* do not load the store twice, with the changes of one lost to the other.
OneIndex ==
  \A r \in Requests :
    pc[r] \in {"apply", "encode", "truncate", "write"} => cached # NoIndex /\ idx[r] = cached

\* The entries that a search would see, now or after loading the file.
Entries == IF cached = NoIndex THEN file.docs ELSE heap[cached]

\* Every caller sees one set of entries, and a change written by a writer that no
\* other overlapped outlives any crash.
Promise == INSTANCE DurableIndex WITH entries <- Entries

ImplementsPromise == Promise!Spec

\* The inductive invariant: a writer that is alone holds the bytes of the index.
Alone ==
  \A r \in alone : r \in Writers =>
    /\ Writers = {r}
    /\ pc[r] \in {"truncate", "write"} => data[r] = heap[cached]

OnDisk ==
  settled => Writers = {} /\ file # Torn /\ (cached # NoIndex => heap[cached] = file.docs)

Called == \A r \in Requests : pc[r] \in {"load", "apply"} => call[r] \in Calls

IInv == TypeOK /\ Called /\ OneIndex /\ Alone /\ OnDisk
=============================================================================
