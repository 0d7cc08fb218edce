-------------------------- MODULE PrincipalService --------------------------
(***************************************************************************)
(* Who may call, and which stores there are: usecase/principal/service.go  *)
(* and usecase/store/service.go over the principal and store repositories. *)
(*                                                                         *)
(* All principals are in one file, principals.json.  Every repository call *)
(* that changes one reads the whole list and writes the whole list, and    *)
(* most operations also read the principal before that: two or three steps *)
(* between which other requests run, for nothing holds a lock.  A store is *)
(* a file of its own that is looked for first and written, or removed,     *)
(* afterwards.                                                             *)
(*                                                                         *)
(* Only the requests of these two services are here; StoreAccess has the   *)
(* deletion of a store's record by a memory identifier that leads to it.   *)
(***************************************************************************)
EXTENDS Naturals

CONSTANTS
  Requests,   \* one-shot requests; one that mints an API key names the key
  OldKeys,    \* API keys from before the first request
  Ids,        \* principal identifiers
  Shared,     \* store names that are no principal's identifier
  NoKey,      \* a principal without an API key
  Missing,    \* no principal under an identifier
  NoOwner,    \* no store under a name
  MaxFaults   \* bound on failing calls and crashes

ASSUME KeyAssumption ==
  NoKey # Missing /\ {NoKey, Missing} \cap (Requests \cup OldKeys) = {} /\ Requests \cap OldKeys = {}
ASSUME NameAssumption == Ids # {} /\ Ids \cap Shared = {} /\ NoOwner \notin Ids
ASSUME FaultAssumption == MaxFaults \in Nat

VARIABLES
  principals,  \* principals.json: API key of each principal
  stores,      \* owner in stores/{name}/store.json
  pc, op,      \* next call of each request, and the operation it runs
  who,         \* principal it is about
  name,        \* store it is about
  key,         \* API key in its copy of the principal
  list,        \* the list it is about to write
  faults,      \* failing calls and crashes so far
  last,        \* history: key each principal was last given, or Missing
  stale,       \* history: requests whose copies are older than principals.json
  clobbered,   \* history: a stale request has written
  raced,       \* history: stores changed between the look and the change of a request
  taken,       \* history: identifiers under which another principal made a store
  cutShort     \* history: principals whose creation stopped before their store

locals  == <<op, who, name, key, list>>
history == <<last, stale, clobbered, raced, taken, cutShort>>
vars    == <<principals, stores, pc, locals, faults, history>>

Names == Ids \cup Shared
Keys  == Requests \cup OldKeys

\* Between its first read of principals.json and its write.
Reading == {r \in Requests : pc[r] \in {"readForUpdate", "write"}}
\* Between its look at a store and its change of it.
Looking(n) == {r \in Requests : pc[r] \in {"saveStore", "dropStore"} /\ name[r] = n}

\* Nobody is known yet, or one principal with a key and its personal store.
Init ==
  /\ principals \in {[i \in Ids |-> Missing]} \cup
       {[i \in Ids |-> IF i = j THEN k ELSE Missing] : j \in Ids, k \in OldKeys}
  /\ stores = [n \in Names |-> IF n \in Ids /\ principals[n] # Missing THEN n ELSE NoOwner]
  /\ pc = [r \in Requests |-> "idle"]
  /\ op = [r \in Requests |-> "none"]
  /\ who = [r \in Requests |-> CHOOSE i \in Ids : TRUE]
  /\ name = who
  /\ key = [r \in Requests |-> NoKey]
  /\ list = [r \in Requests |-> principals]
  /\ faults = 0
  /\ last = principals
  /\ stale = {} /\ clobbered = FALSE /\ raced = {} /\ taken = {} /\ cutShort = {}

Start(r, o, i, n, k, next) ==
  /\ pc[r] = "idle"
  /\ pc' = [pc EXCEPT ![r] = next]
  /\ op' = [op EXCEPT ![r] = o]
  /\ who' = [who EXCEPT ![r] = i]
  /\ name' = [name EXCEPT ![r] = n]
  /\ key' = [key EXCEPT ![r] = k]
  /\ UNCHANGED <<principals, stores, list, faults, history>>

-----------------------------------------------------------------------------
(* usecase/principal: each operation up to its first repository write.     *)

\* JWTMiddleware: a known principal is marked as seen, a new one is created.
GetOrCreate(r, i) ==
  \/ principals[i] # Missing /\ Start(r, "signIn", i, i, principals[i], "readForUpdate")
  \/ principals[i] = Missing /\ Start(r, "create", i, i, NoKey, "readForSave")

Create(r, i) == Start(r, "create", i, i, r, "readForSave")

ReissueAPIKey(r, i) ==
  principals[i] # Missing /\ Start(r, "setKey", i, i, r, "readForUpdate")

\* Mutant of RevokeAPIKey: the principal goes with its key.
RevokePrincipal(r, i) ==
  principals[i] # Missing /\ Start(r, "setKey", i, i, Missing, "readForUpdate")

RevokeAPIKey(r, i) ==
  principals[i] # Missing /\ Start(r, "setKey", i, i, NoKey, "readForUpdate")

\* Mutant of AuthenticateByAPIKey: the copy it writes back is without the key.
AuthenticateBare(r, k) ==
  \E i \in Ids : principals[i] = k /\ Start(r, "signIn", i, i, NoKey, "readForUpdate")

AuthenticateByAPIKey(r, k) ==
  \E i \in Ids : principals[i] = k /\ Start(r, "signIn", i, i, k, "readForUpdate")

-----------------------------------------------------------------------------
(* usecase/store.                                                          *)

CreateStore(r, i, n) ==
  stores[n] = NoOwner /\ Start(r, "createStore", i, n, NoKey, "saveStore")

IsPersonal(n) == n \in Ids /\ stores[n] = n

\* Mutant of DeleteStore: personal stores are not refused.
DeleteAnyStore(r, i, n) ==
  stores[n] # NoOwner /\ Start(r, "deleteStore", i, n, NoKey, "dropStore")

\* The owner, or an admin, deletes the store; personal stores are refused.
DeleteStore(r, i, n) ==
  stores[n] # NoOwner /\ ~IsPersonal(n) /\ Start(r, "deleteStore", i, n, NoKey, "dropStore")

\* Not an admin, no such principal, key or store, a name that is taken or not valid,
\* a store that may not be deleted: an error, and nothing is changed.
Refuse(r) ==
  /\ pc[r] = "idle"
  /\ pc' = [pc EXCEPT ![r] = "failed"]
  /\ UNCHANGED <<principals, stores, locals, faults, history>>

-----------------------------------------------------------------------------
(* The repository calls.                                                   *)

GoTo(r, from, next) == pc[r] = from /\ pc' = [pc EXCEPT ![r] = next]

\* PrincipalRepo.Save: an identifier that is there is a CONFLICT.
ReadForSave(r) ==
  /\ GoTo(r, "readForSave", IF principals[who[r]] = Missing THEN "write" ELSE "failed")
  /\ list' = [list EXCEPT ![r] = [principals EXCEPT ![who[r]] = key[r]]]
  /\ UNCHANGED <<principals, stores, op, who, name, key, faults, history>>

\* PrincipalRepo.Update: the copy replaces whatever the list now says of it.
ReadForUpdate(r) ==
  /\ GoTo(r, "readForUpdate", IF principals[who[r]] # Missing THEN "write" ELSE "failed")
  /\ list' = [list EXCEPT ![r] = [principals EXCEPT ![who[r]] = key[r]]]
  /\ UNCHANGED <<principals, stores, op, who, name, key, faults, history>>

\* Mutant of Write: a creation returns before it sees to the personal store.
WriteAndReturn(r) ==
  /\ GoTo(r, "write", "done")
  /\ principals' = list[r]
  /\ last' = IF op[r] = "signIn" THEN last ELSE [last EXCEPT ![who[r]] = key[r]]
  /\ stale' = (stale \cup Reading) \ {r}
  /\ clobbered' = (clobbered \/ r \in stale)
  /\ UNCHANGED <<stores, locals, faults, raced, taken, cutShort>>

\* writeAll.
Write(r) ==
  /\ GoTo(r, "write", IF op[r] = "create" THEN "exists" ELSE "done")
  /\ principals' = list[r]
  /\ last' = IF op[r] = "signIn" THEN last ELSE [last EXCEPT ![who[r]] = key[r]]
  /\ stale' = (stale \cup Reading) \ {r}
  /\ clobbered' = (clobbered \/ r \in stale)
  /\ UNCHANGED <<stores, locals, faults, raced, taken, cutShort>>

\* storeRepo.Exists, for the personal store of a new principal.
Exists(r) ==
  /\ GoTo(r, "exists", IF stores[who[r]] = NoOwner THEN "saveStore" ELSE "done")
  /\ UNCHANGED <<principals, stores, locals, faults, history>>

Changed(n, r) == raced' = IF Looking(n) \ {r} = {} THEN raced ELSE raced \cup {n}

SaveStore(r) ==
  /\ GoTo(r, "saveStore", "done")
  /\ stores' = [stores EXCEPT ![name[r]] = who[r]]
  /\ Changed(name[r], r)
  /\ taken' = IF name[r] \in Ids \ {who[r]} THEN taken \cup {name[r]} ELSE taken
  /\ UNCHANGED <<principals, locals, faults, last, stale, clobbered, cutShort>>

\* storeRepo.Delete; a file that is gone already is no error.
DropStore(r) ==
  /\ GoTo(r, "dropStore", "done")
  /\ stores' = [stores EXCEPT ![name[r]] = NoOwner]
  /\ Changed(name[r], r)
  /\ UNCHANGED <<principals, locals, faults, last, stale, clobbered, taken, cutShort>>

-----------------------------------------------------------------------------
Fault == faults < MaxFaults /\ faults' = faults + 1

Steps    == {"readForSave", "readForUpdate", "write", "exists", "saveStore", "dropStore"}
Stopping == {r \in Requests : op[r] = "create" /\ pc[r] \in {"exists", "saveStore"}}

\* A repository call fails and the handler returns its error.
Fail(r) ==
  /\ Fault
  /\ pc[r] \in Steps
  /\ pc' = [pc EXCEPT ![r] = "failed"]
  /\ cutShort' = IF r \in Stopping THEN cutShort \cup {who[r]} ELSE cutShort
  /\ UNCHANGED <<principals, stores, locals, last, stale, clobbered, raced, taken>>

\* The process dies and starts again with its files.
Crash ==
  /\ Fault
  /\ \E r \in Requests : pc[r] \in Steps
  /\ pc' = [r \in Requests |-> IF pc[r] \in Steps THEN "failed" ELSE pc[r]]
  /\ cutShort' = cutShort \cup {who[r] : r \in Stopping}
  /\ UNCHANGED <<principals, stores, locals, last, stale, clobbered, raced, taken>>

Operation(r) ==
  \/ \E i \in Ids : \/ GetOrCreate(r, i) \/ Create(r, i)
                    \/ ReissueAPIKey(r, i) \/ RevokeAPIKey(r, i)
  \/ \E i \in Ids, n \in Names : CreateStore(r, i, n) \/ DeleteStore(r, i, n)
  \/ Refuse(r)
  \/ ReadForSave(r) \/ ReadForUpdate(r) \/ Write(r)
  \/ Exists(r) \/ SaveStore(r) \/ DropStore(r) \/ Fail(r)

Request(r) == Operation(r) \/ \E k \in Keys : AuthenticateByAPIKey(r, k)

Next == (\E r \in Requests : Request(r)) \/ Crash

Spec == Init /\ [][Next]_vars

-----------------------------------------------------------------------------
Lists == [Ids -> Keys \cup {NoKey, Missing}]

TypeOK ==
  /\ principals \in Lists
  /\ stores \in [Names -> Ids \cup {NoOwner}]
  /\ pc \in [Requests -> Steps \cup {"idle", "done", "failed"}]
  /\ op \in [Requests -> {"none", "signIn", "create", "setKey", "createStore", "deleteStore"}]
  /\ who \in [Requests -> Ids]
  /\ name \in [Requests -> Names]
  /\ key \in [Requests -> Keys \cup {NoKey}]
  /\ list \in [Requests -> Lists]
  /\ faults \in 0 .. MaxFaults
  /\ last \in Lists
  /\ stale \subseteq Requests /\ clobbered \in BOOLEAN
  /\ raced \subseteq Names /\ taken \subseteq Ids /\ cutShort \subseteq Ids

\* As long as no request has written a list that was older than the file, every
\* principal that was created is there with the key it was last given, or without the
\* one that was last revoked, whoever has signed in meanwhile.
RegistryIsUpToDate == ~clobbered => principals = last

\* A store that nobody changed between another's look and change keeps its owner
\* until it is deleted, and neither service ever deletes the personal store of a
\* principal.
StoresKeepTheirOwner ==
  [][\A n \in Names : stores[n] # NoOwner /\ n \notin raced' =>
       stores'[n] = stores[n] \/ (stores'[n] = NoOwner /\ ~IsPersonal(n))]_vars

\* A principal whose creation was not cut short has a store of its own name, unless
\* that name had been taken.
PrincipalsHaveAStore ==
  ~clobbered =>
    \A i \in Ids \ (raced \cup taken \cup cutShort) :
      principals[i] # Missing /\ (\A r \in Stopping : who[r] # i) => stores[i] = i

-----------------------------------------------------------------------------
(* The inductive invariant.                                                 *)

\* Which operations come to a call, and that a principal's store has its name.
Control(r) ==
  /\ pc[r] = "readForSave" => op[r] = "create"
  /\ pc[r] = "readForUpdate" => op[r] \in {"signIn", "setKey"}
  /\ pc[r] = "write" => op[r] \in {"create", "signIn", "setKey"}
  /\ pc[r] = "exists" => op[r] = "create"
  /\ op[r] = "create" => name[r] = who[r]

\* What a request that is not stale knows of principals.json.
Fresh(r) ==
  /\ pc[r] \in {"readForUpdate", "write"} /\ op[r] = "signIn" => principals[who[r]] = key[r]
  /\ pc[r] = "write" => list[r] = [principals EXCEPT ![who[r]] = key[r]]
  /\ pc[r] = "write" /\ op[r] # "create" => principals[who[r]] # Missing

\* What a request saw of a store still holds when it changes it.
Seen(r) ==
  name[r] \notin raced =>
    /\ pc[r] = "saveStore" => stores[name[r]] = NoOwner
    /\ pc[r] = "dropStore" => stores[name[r]] # NoOwner /\ ~IsPersonal(name[r])

\* A store of a principal's name is that principal's.
OwnNames == \A i \in Ids \ taken : stores[i] \in {NoOwner, i}

IInv ==
  /\ TypeOK
  /\ \A r \in Requests : Control(r) /\ Seen(r)
  /\ ~clobbered => \A r \in Requests \ stale : Fresh(r)
  /\ OwnNames
  /\ RegistryIsUpToDate
  /\ PrincipalsHaveAStore
=============================================================================
