----------------------------- MODULE StoreAccess -----------------------------
(***************************************************************************)
(* Whose memories are where: the store use case, the access checks of the  *)
(* memory use case, and the three adapters through which callers come.     *)
(*                                                                         *)
(* A store is a record, stores/{name}/store.json, and the memories in the  *)
(* directory beside it.  Each request looks at the record once and acts    *)
(* later, on the record or on the memories, without looking again; nothing *)
(* ties the memories to the record but the name, and nothing keeps the     *)
(* identifier of a memory within the store that was looked at.  Stores are *)
(* alike, so any few names stand for all: a caller whose own name is not   *)
(* among them has its personal store outside the picture.                  *)
(*                                                                         *)
(* Requests run in slots, one after the other without end.  A request that *)
(* fails or is killed leaves its slot; the files are all that survives, so *)
(* a crash is nothing but every slot being left.                           *)
(***************************************************************************)
EXTENDS FiniteSets

CONSTANTS
  Slots,       \* requests that are under way at once
  Callers,     \* principals
  Admins,      \* those whose role is admin
  Console,     \* "webui-admin", for whom the WebUI deletes stores
  Anonymous,   \* "mcp-anonymous", for whom MCP tools run without a principal
  Names,       \* store names under study; a personal store has its owner's name
  NoOwner,     \* no store record
  Astray       \* author of what was written to a store beside the check

ASSUME CallerAssumption ==
  /\ {Console, Anonymous} \subseteq Callers \ Names
  /\ Admins \subseteq Callers /\ Console \in Admins /\ Anonymous \notin Admins
  /\ NoOwner \notin Callers \cup Names
  /\ Astray \notin Callers \cup Names
ASSUME NameAssumption == Names # {}

VARIABLES
  owner,     \* owner and only member in the record of each store, or NoOwner
  contents,  \* authors of the memories in each store's directory; Astray, whoever it
             \* was, of those written by a request that had looked at another store
  known,     \* callers that are in principals.json
  req,       \* the request in each slot: its next step, its caller, the store it looks at
             \* and the store in which its memory identifier ends up
  raced,     \* history: stores whose record changed under a request that had looked at it,
             \* or was deleted as if it were a memory
  reused     \* history: others created where memories of an earlier one were left

history == <<raced, reused>>
vars    == <<owner, contents, known, req, history>>

Idle == LET n == CHOOSE n \in Names : TRUE IN
        [step |-> "idle", who |-> Console, name |-> n, place |-> n]

pc(s)    == req[s].step
who(s)   == req[s].who
name(s)  == req[s].name
place(s) == req[s].place

Init ==
  /\ owner = [n \in Names |-> NoOwner]
  /\ contents = [n \in Names |-> {}]
  /\ known = Callers \ Names
  /\ req = [s \in Slots |-> Idle]
  /\ raced = {} /\ reused = {} 

-----------------------------------------------------------------------------
(* The looks.                                                              *)

\* storeAccessImpl.GetMemberRole over Store.MemberRole: whoever creates a store is its
\* only member, and no operation adds another.
GetMemberRole(n, i) == IF owner[n] = i THEN "owner" ELSE "none"

\* Mutant of RequireRead: members and strangers alike.
RequireStore(i, n) == i \in Admins \/ owner[n] # NoOwner

RequireRead(i, n)  == i \in Admins \/ GetMemberRole(n, i) # "none"

\* Mutant of RequireWrite: whoever may come in may write.
RequireAnyone(i, n) == i \in Admins \/ owner[n] # NoOwner

RequireWrite(i, n) == i \in Admins \/ GetMemberRole(n, i) \in {"owner", "writer"}

IsPersonal(n) == owner[n] = n

\* memoryPath: the identifier is joined to the directory of the store and the path is
\* cleaned.  One that comes over REST is a single segment; one that an MCP tool is given
\* is taken as it is and can name a file of any store.
Places(i, n) == IF i = Anonymous THEN Names ELSE {n}

BeginAt(s, i, n, m, next) ==
  /\ pc(s) = "idle"
  /\ req' = [req EXCEPT ![s] = [step |-> next, who |-> i, name |-> n, place |-> m]]
  /\ UNCHANGED <<owner, contents, known, history>>

Begin(s, i, n, next) == BeginAt(s, i, n, n, next)

\* JWTMiddleware: GetOrCreate of a caller that is not in principals.json.
SignIn(s, i) == i \notin known /\ Begin(s, i, i, "register")

\* Mutant of Create: the caller is not passed on as the owner.
CreateUnowned(s, i, n) == i \in known /\ owner[n] = NoOwner /\ Begin(s, NoOwner, n, "saveStore")

Create(s, i, n) == i \in known /\ owner[n] = NoOwner /\ Begin(s, i, n, "saveStore")

\* Mutant of Delete: personal stores are deleted too.
DeleteAny(s, i, n) ==
  /\ i \in known /\ owner[n] # NoOwner
  /\ i \in Admins \/ owner[n] = i
  /\ Begin(s, i, n, "dropStore")

Delete(s, i, n) ==
  /\ i \in known /\ owner[n] # NoOwner /\ ~IsPersonal(n)
  /\ i \in Admins \/ owner[n] = i
  /\ Begin(s, i, n, "dropStore")

\* Save, SaveURL, SaveFile, Update and Delete of memories, and Promote.
Write(s, i, n) ==
  i \in known /\ RequireWrite(i, n) /\ \E m \in Places(i, n) : BeginAt(s, i, n, m, "write")

\* Get, List, Search and Similar.
Read(s, i, n) ==
  i \in known /\ RequireRead(i, n) /\ \E m \in Places(i, n) : BeginAt(s, i, n, m, "read")

\* Who comes through which door: REST callers as themselves, once they have signed in;
\* MCP tools, which are mounted outside the JWT check, and the WebUI as one caller each.
StoreHandler(s, i, n)  == Create(s, i, n) \/ Delete(s, i, n)
MemoryHandler(s, i, n) == Write(s, i, n) \/ Read(s, i, n)

REST(s) ==
  \E i \in Callers \ {Console, Anonymous} :
    \/ i \in Names /\ SignIn(s, i)
    \/ \E n \in Names : StoreHandler(s, i, n) \/ MemoryHandler(s, i, n)

StoreTools(s, n)  == Create(s, Anonymous, n) \/ Delete(s, Anonymous, n)
MemoryTools(s, n) == Write(s, Anonymous, n) \/ Read(s, Anonymous, n)

MCP(s) == \E n \in Names : StoreTools(s, n) \/ MemoryTools(s, n)

WebUI(s) == \E n \in Names : Delete(s, Console, n)

-----------------------------------------------------------------------------
(* The acts.                                                               *)

GoTo(s, from, next) == pc(s) = from /\ req' = [req EXCEPT ![s].step = next]
Leave(s, from)      == pc(s) = from /\ req' = [req EXCEPT ![s] = Idle]

\* PrincipalRepo.Save; a second first request gets a CONFLICT.
Register(s) ==
  /\ \/ who(s) \in known /\ Leave(s, "register")
     \/ who(s) \notin known /\ GoTo(s, "register", "exists")
  /\ known' = known \cup {who(s)}
  /\ UNCHANGED <<owner, contents, history>>

\* The personal store, unless there is a store of that name.
Exists(s) ==
  /\ \/ owner[name(s)] = NoOwner /\ GoTo(s, "exists", "saveStore")
     \/ owner[name(s)] # NoOwner /\ Leave(s, "exists")
  /\ UNCHANGED <<owner, contents, known, history>>

\* The record of n changes, with or without others who go by what it said.
Changed(s, n) ==
  raced' = IF \E t \in Slots \ {s} :
                name(t) = n /\ pc(t) \in {"saveStore", "dropStore", "write", "read"}
           THEN raced \cup {n} ELSE raced

SaveStore(s) ==
  /\ Leave(s, "saveStore")
  /\ owner' = [owner EXCEPT ![name(s)] = who(s)]
  /\ Changed(s, name(s))
  /\ reused' = (reused \cup {n \in {name(s)} : contents[n] # {}}) \ raced'
  /\ UNCHANGED <<contents, known>>

DropStore(s) ==
  /\ Leave(s, "dropStore")
  /\ owner' = [owner EXCEPT ![name(s)] = NoOwner]
  /\ Changed(s, name(s))
  /\ reused' = reused \ raced'
  /\ UNCHANGED <<contents, known>>

\* A memory is added, changed, or removed, which may be the last one of its author, in
\* the store that the identifier leads to.
WriteContents(s) ==
  /\ Leave(s, "write")
  /\ LET there  == contents[place(s)]
         author == IF place(s) = name(s) THEN who(s) ELSE Astray
     IN \E now \in {there, there \cup {author}} \cup {there \ {a} : a \in there} :
          contents' = [contents EXCEPT ![place(s)] = now]
  /\ UNCHANGED <<owner, known, history>>

\* Delete of a memory, by an identifier that leads to the record of a store, which is a
\* JSON file as any other.
DeleteRecord(s) ==
  /\ who(s) = Anonymous /\ owner[place(s)] # NoOwner
  /\ Leave(s, "write")
  /\ owner' = [owner EXCEPT ![place(s)] = NoOwner]
  /\ raced' = raced \cup {place(s)}
  /\ reused' = reused \ raced'
  /\ UNCHANGED <<contents, known>>

ReadContents(s) ==
  /\ Leave(s, "read")
  /\ UNCHANGED <<owner, contents, known, history>>

\* A file operation fails, or the process dies.
Fail(s) ==
  /\ pc(s) # "idle"
  /\ Leave(s, pc(s))
  /\ UNCHANGED <<owner, contents, known, history>>

Next ==
  \E s \in Slots :
    \/ REST(s) \/ MCP(s) \/ WebUI(s)
    \/ Register(s) \/ Exists(s) \/ SaveStore(s) \/ DropStore(s)
    \/ WriteContents(s) \/ DeleteRecord(s) \/ ReadContents(s)
    \/ Fail(s)

Spec == Init /\ [][Next]_vars

-----------------------------------------------------------------------------
Steps == {"register", "exists", "saveStore", "dropStore", "write", "read"}

TypeOK ==
  /\ owner \in [Names -> Callers \cup {NoOwner}]
  /\ contents \in [Names -> SUBSET (Callers \cup {Astray})]
  /\ known \subseteq Callers
  /\ req \in [Slots -> [step : Steps \cup {"idle"}, who : Callers, name : Names, place : Names]]
  /\ raced \subseteq Names /\ reused \subseteq Names

\* Those whose memories a store may hold beside its owner's: an admin may write to any,
\* and the identifier of an MCP call may lead in from another store.
Guests == Admins \cup {Astray}

\* "A named, isolated collection of memories" (domain/store.go:23): what is in a store
\* was written by its owner or by an admin, unless its record changed under a request or
\* the store was created where an earlier one of the same name had been; or came in by
\* the memory identifier of an MCP call that had looked at another store.
ContentsBelongToOwner ==
  \A n \in Names \ (raced \cup reused) :
    owner[n] # NoOwner => contents[n] \subseteq {owner[n]} \cup Guests

\* What a caller has written to the store of its own name stays in a store that it owns,
\* unless the record changed under a request or was deleted as a memory over MCP: there
\* is no other way to delete a personal store or to create another over it.
PersonalContentsStay ==
  \A n \in Names \ (raced \cup Admins) : n \in contents[n] => owner[n] = n

\* A caller that is no admin reads what it or an admin has written, or what came in by
\* the identifier of an MCP call, in a store whose record did not change under a request
\* and that was not created twice; unless its own identifier led to another store.
ReadersSeeTheirOwn ==
  [][\A s \in Slots : LET n == name(s) IN
       ReadContents(s) /\ place(s) = n /\ n \notin raced \cup reused /\ who(s) \notin Admins =>
         contents[n] \subseteq {who(s)} \cup Guests]_vars

\* The inductive invariant: what a request saw of a store still holds when it acts,
\* unless the record changed under it, and only MCP calls act on another store than that.
Seen(s) == LET n == name(s) i == who(s) IN
  /\ pc(s) = "saveStore" => owner[n] = NoOwner
  /\ pc(s) = "dropStore" => owner[n] # NoOwner /\ ~IsPersonal(n)
  /\ pc(s) \in {"write", "read"} => RequireRead(i, n)

IInv ==
  /\ TypeOK
  /\ \A s \in Slots : place(s) = name(s) \/ who(s) = Anonymous
  /\ \A s \in Slots : name(s) \notin raced => Seen(s)
  /\ ContentsBelongToOwner
  /\ PersonalContentsStay
=============================================================================
