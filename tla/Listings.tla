------------------------------- MODULE Listings -------------------------------
(***************************************************************************)
(* Paged lists of memories and of conversations (List of the two services, *)
(* over MemoryRepo.List and ConversationRepo.List) while the files they    *)
(* are made of are written and deleted.  Every page is made from nothing:  *)
(* the directory is listed, the files are read one after the other, and a  *)
(* slice of what was read is the answer.                                   *)
(*                                                                         *)
(* Memories come in the order of their file names, and only those that     *)
(* pass the filter are counted; conversations come newest first, and what  *)
(* the caller does not own is taken out of a page that is already cut.     *)
(*                                                                         *)
(* A client asks for page after page until one has nothing in it.          *)
(*                                                                         *)
(* The time of a conversation is taken when a message comes in, and in the *)
(* copy that a request holds: what it writes later, a summary above all,   *)
(* may be older than what is in the file, and move it back in the list.    *)
(***************************************************************************)
EXTENDS Naturals, Sequences, FiniteSets, Functions

CONSTANTS
  Clients,    \* clients that page, one list after the other without end
  Order,      \* names of files in the order of their directory
  Mine,       \* those that pass the filter, or that a caller who is no admin owns
  PageSize,   \* length of a page
  MaxWrites   \* bound on writes and deletions

Names  == Range(Order)
Absent == 0
Kinds  == {"memories", "all conversations", "own conversations"}

ASSUME DirectoryAssumption ==
  Order \in Seq(Names) /\ IsInjective(Order) /\ Mine \subseteq Names
ASSUME PageAssumption == PageSize \in Nat \ {0} /\ MaxWrites \in Nat

VARIABLES
  files,   \* the time in each file, or Absent
  stamps,  \* times that requests have taken for each
  clock,   \* times so far
  at,      \* next call of each client's request
  kind,    \* what it lists
  offset,  \* where its page begins
  todo,    \* files that were listed and are still to be read
  rows,    \* what was read: name and time
  seen,    \* names that the client has been given
  steady,  \* history: names that have been there unchanged since its first request
  setbacks \* history: how often something in a client's list was deleted or moved back

request == <<at, kind, offset, todo, rows, seen>>
stored  == <<files, stamps, clock>>
lvars   == <<stored, request, steady, setbacks>>

\* Where a name is in the directory.
Place(n) == CHOOSE i \in DOMAIN Order : Order[i] = n

LInit ==
  /\ files \in [Names -> {Absent} \cup 1 .. Cardinality(Names)]
  /\ \A n \in Names : files[n] \in {Absent, Place(n)}
  /\ stamps = [n \in Names |-> {files[n]} \ {Absent}]
  /\ clock = Cardinality(Names)
  /\ at = [c \in Clients |-> "idle"]
  /\ kind = [c \in Clients |-> "memories"]
  /\ offset = [c \in Clients |-> 0]
  /\ todo = [c \in Clients |-> {}] /\ rows = todo /\ seen = todo /\ steady = todo
  /\ setbacks = offset

Present == {n \in Names : files[n] # Absent}

-----------------------------------------------------------------------------
(* Writers: saves, updates and deletions, each of one file.                *)

\* matchesFilter, before the page is cut.
Matches(c, n) == kind[c] = "memories" => n \in Mine

Tick ==
  /\ clock < Cardinality(Names) + MaxWrites
  /\ clock' = clock + 1

\* A request takes the time for what it is going to write.
Stamp(n) ==
  /\ Tick
  /\ stamps' = [stamps EXCEPT ![n] = @ \cup {clock'}]
  /\ UNCHANGED <<files, request, steady, setbacks>>

\* Those who are listing n, where it loses its place: only conversations go by time.
SetBack(n, t) ==
  {c \in Clients : /\ at[c] # "idle" /\ Matches(c, n) /\ t < files[n]
                   /\ t = Absent \/ kind[c] # "memories"}

Change(n, t) ==
  /\ Tick
  /\ files' = [files EXCEPT ![n] = t]
  /\ steady' = [c \in Clients |-> steady[c] \ {n}]
  /\ setbacks' = [c \in Clients |-> setbacks[c] + IF c \in SetBack(n, t) THEN 1 ELSE 0]
  /\ UNCHANGED request

\* What is written has a time that was taken at some point, or is taken now.
Write(n) ==
  \E t \in stamps[n] \cup {clock + 1} :
    Change(n, t) /\ stamps' = [stamps EXCEPT ![n] = @ \cup {t}]

Delete(n) == n \in Present /\ Change(n, Absent) /\ UNCHANGED stamps

-----------------------------------------------------------------------------
(* Requests.                                                               *)

Begin(c, k) ==
  /\ at[c] = "idle" /\ at' = [at EXCEPT ![c] = "list"]
  /\ kind' = [kind EXCEPT ![c] = k]
  /\ steady' = [steady EXCEPT ![c] = Present]
  /\ UNCHANGED <<stored, offset, todo, rows, seen, setbacks>>

\* FileStore.List.
ReadDir(c) ==
  /\ at[c] = "list" /\ at' = [at EXCEPT ![c] = "read"]
  /\ todo' = [todo EXCEPT ![c] = Present]
  /\ UNCHANGED <<stored, kind, offset, rows, seen, steady, setbacks>>

First(S) == CHOOSE n \in S : \A m \in S : Place(n) <= Place(m)

\* Mutant of ReadFile: what reading a conversation that is gone returns is not looked at.
ReadBlindly(c) ==
  LET n == First(todo[c]) IN
  /\ at[c] = "read" /\ todo[c] # {}
  /\ n \in Present \/ kind[c] # "memories"
  /\ rows' = [rows EXCEPT ![c] = IF Matches(c, n) THEN @ \cup {<<n, files[n]>>} ELSE @]
  /\ todo' = [todo EXCEPT ![c] = @ \ {n}]
  /\ UNCHANGED <<stored, at, kind, offset, seen, steady, setbacks>>

\* Mutant of ReadFile: nothing is read after a conversation that is gone.
ReadUntilGone(c) ==
  LET n == First(todo[c]) IN
  /\ at[c] = "read" /\ todo[c] # {}
  /\ n \in Present \/ kind[c] # "memories"
  /\ rows' = [rows EXCEPT ![c] = IF n \in Present /\ Matches(c, n)
                                 THEN @ \cup {<<n, files[n]>>} ELSE @]
  /\ todo' = [todo EXCEPT ![c] = IF n \in Present THEN @ \ {n} ELSE {}]
  /\ UNCHANGED <<stored, at, kind, offset, seen, steady, setbacks>>

\* A conversation that is gone is passed over.
ReadFile(c) ==
  LET n == First(todo[c]) IN
  /\ at[c] = "read" /\ todo[c] # {}
  /\ n \in Present \/ kind[c] # "memories"
  /\ rows' = [rows EXCEPT ![c] = IF n \in Present /\ Matches(c, n)
                                 THEN @ \cup {<<n, files[n]>>} ELSE @]
  /\ todo' = [todo EXCEPT ![c] = @ \ {n}]
  /\ UNCHANGED <<stored, at, kind, offset, seen, steady, setbacks>>

\* Nothing is left of a list that has come to its end.
End(c) ==
  /\ at' = [at EXCEPT ![c] = "idle"]
  /\ kind' = [kind EXCEPT ![c] = "memories"]
  /\ offset' = [offset EXCEPT ![c] = 0]
  /\ todo' = [todo EXCEPT ![c] = {}]
  /\ rows' = [rows EXCEPT ![c] = {}]
  /\ seen' = [seen EXCEPT ![c] = {}]
  /\ steady' = [steady EXCEPT ![c] = {}]
  /\ setbacks' = [setbacks EXCEPT ![c] = 0]
  /\ UNCHANGED stored

\* A memory that is gone fails the request.
ReadFails(c) ==
  /\ at[c] = "read" /\ todo[c] # {}
  /\ kind[c] = "memories" /\ First(todo[c]) \notin Present
  /\ End(c)

Before(k, x, y) ==
  IF k = "memories" THEN Place(x[1]) < Place(y[1]) ELSE x[2] > y[2]

\* Rows that come before x in the sorted list.
Ahead(c, x) == {y \in rows[c] : Before(kind[c], y, x)}

\* The memories or conversations on the page.
Slice(c) ==
  {x \in rows[c] : Cardinality(Ahead(c, x)) \in offset[c] .. offset[c] + PageSize - 1}

\* The page begins beyond the end of the list.
Beyond(c) == Cardinality(rows[c]) <= offset[c]

\* The names in the answer; only here the owner matters.
Page(c) ==
  {x[1] : x \in Slice(c)} \cap (IF kind[c] = "own conversations" THEN Mine ELSE Names)

Answer(c) ==
  /\ at[c] = "read" /\ todo[c] = {}
  /\ Page(c) # {}
  /\ at' = [at EXCEPT ![c] = "list"]
  /\ offset' = [offset EXCEPT ![c] = @ + PageSize]
  /\ rows' = [rows EXCEPT ![c] = {}]
  /\ seen' = [seen EXCEPT ![c] = @ \cup Page(c)]
  /\ UNCHANGED <<stored, kind, todo, steady, setbacks>>

Finish(c) == at[c] = "read" /\ todo[c] = {} /\ Page(c) = {} /\ End(c)

LNext ==
  \/ \E n \in Names : Stamp(n) \/ Write(n) \/ Delete(n)
  \/ \E c \in Clients :
       \/ \E k \in Kinds : Begin(c, k)
       \/ ReadDir(c) \/ ReadFile(c) \/ ReadFails(c) \/ Answer(c) \/ Finish(c)

LSpec == LInit /\ [][LNext]_lvars

-----------------------------------------------------------------------------
LTypeOK ==
  LET Times == 0 .. Cardinality(Names) + MaxWrites IN
  /\ files \in [Names -> Times]
  /\ stamps \in [Names -> SUBSET Times]
  /\ clock \in Times
  /\ at \in [Clients -> {"idle", "list", "read"}]
  /\ kind \in [Clients -> Kinds]
  /\ offset \in [Clients -> 0 .. Cardinality(Names) + PageSize]
  /\ {todo, seen, steady} \subseteq [Clients -> SUBSET Names]
  /\ rows \in [Clients -> SUBSET (Names \X (Times \ {Absent}))]
  /\ setbacks \in [Clients -> 0 .. MaxWrites]

Wanted(c) == IF kind[c] = "all conversations" THEN Names ELSE Mine

\* Of all it asked for that was there unchanged all the while, a client that has gone
\* through all the pages misses no more than there were deletions and writes of stale
\* copies in its list; whatever else was written between and during its requests, it
\* misses nothing, unless its last page was only empty because it owns nothing in it.
MissesAreSetbacks ==
  [][\A c \in Clients : Finish(c) /\ Beyond(c)
       => Cardinality((steady[c] \cap Wanted(c)) \ seen[c]) <= setbacks[c]]_lvars
=============================================================================
