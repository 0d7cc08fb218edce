-------------------------- MODULE PrincipalProofs --------------------------
(***************************************************************************)
(* For any number of requests, principals and stores: the registry is up   *)
(* to date unless a stale list was written, principals have their stores,  *)
(* stores keep their owners; and, for any life of a token, a token opens   *)
(* no request later than its life after its key died.                      *)
(*                                                                         *)
(* None of this is inductive.  Fresh says what a request that no writer    *)
(* has overtaken still knows of the registry, Seen what it knows of the    *)
(* store it is about to change; whoever falsifies one of them for another  *)
(* request puts the request among the stale, or the store among the raced. *)
(* What is proved of tokens rests on the registry being up to date when a  *)
(* key is looked up, and on the key being held in force by its exchange.   *)
(***************************************************************************)
EXTENDS Tokens, TLAPS


\* Before the first request there is nothing to be stale.
LEMMA InitIInv == Init => IInv
<1> SUFFICES ASSUME Init PROVE IInv
  OBVIOUS
<1>1. \A i \in Ids : principals[i] \in Keys \cup {NoKey, Missing}
  BY DEF Init, Keys
<1>2. principals \in Lists
  BY <1>1 DEF Init, Lists
<1>3. (CHOOSE i \in Ids : TRUE) \in Ids
  BY NameAssumption
<1>4. TypeOK
  <2>1. stores \in [Names -> Ids \cup {NoOwner}]
    BY DEF Init
  <2>2. who \in [Requests -> Ids] /\ name \in [Requests -> Names]
    BY <1>3 DEF Init, Names
  <2>3. faults \in 0 .. MaxFaults
    BY FaultAssumption DEF Init
  <2>4. list \in [Requests -> Lists] /\ last \in Lists
    BY <1>2 DEF Init
  <2> QED BY <1>2, <2>1, <2>2, <2>3, <2>4 DEF Init, TypeOK
<1>5. \A r \in Requests : Control(r) /\ Seen(r) /\ Fresh(r)
  BY DEF Init, Control, Seen, Fresh
<1>6. OwnNames /\ RegistryIsUpToDate /\ PrincipalsHaveAStore
  BY NameAssumption DEF Init, OwnNames, RegistryIsUpToDate, PrincipalsHaveAStore, Names
<1> QED BY <1>4, <1>5, <1>6 DEF IInv

\* A request begins with what it has just seen.
LEMMA StartStep ==
  ASSUME IInv, NEW r \in Requests, NEW o, NEW i \in Ids, NEW n \in Names,
         NEW k \in Keys \cup {NoKey}, NEW next, Start(r, o, i, n, k, next),
         \/ o = "create" /\ n = i /\ next = "readForSave"
         \/ o = "signIn" /\ next = "readForUpdate" /\ principals[i] = k
         \/ o = "setKey" /\ next = "readForUpdate"
         \/ o = "createStore" /\ next = "saveStore" /\ stores[n] = NoOwner
         \/ o = "deleteStore" /\ next = "dropStore" /\ stores[n] # NoOwner /\ ~IsPersonal(n)
  PROVE  IInv'
<1> USE DEF IInv, Start, history
<1>1. TypeOK'
  BY DEF TypeOK, Steps
<1>2. ASSUME NEW x \in Requests PROVE Control(x)' /\ Seen(x)'
  <2>1. CASE x = r
    BY <2>1 DEF TypeOK, Control, Seen, IsPersonal
  <2>2. CASE x # r
    BY <2>2 DEF TypeOK, Control, Seen, IsPersonal
  <2> QED BY <2>1, <2>2
<1>3. ASSUME ~clobbered', NEW x \in Requests \ stale' PROVE Fresh(x)'
  <2>1. CASE x = r
    BY <1>3, <2>1 DEF TypeOK, Fresh
  <2>2. CASE x # r
    BY <1>3, <2>2 DEF TypeOK, Fresh
  <2> QED BY <2>1, <2>2
<1>4. OwnNames' /\ RegistryIsUpToDate'
  BY DEF OwnNames, RegistryIsUpToDate
<1>5. PrincipalsHaveAStore'
  <2>1. Stopping \subseteq Stopping' /\ \A x \in Stopping : who'[x] = who[x]
    BY DEF TypeOK, Stopping
  <2> QED BY <2>1 DEF PrincipalsHaveAStore
<1> QED BY <1>1, <1>2, <1>3, <1>4, <1>5

\* An error before the first change.
LEMMA RefuseStep ==
  ASSUME IInv, NEW r \in Requests, Refuse(r)
  PROVE  IInv'
<1> USE DEF IInv, Refuse, locals, history
<1>1. TypeOK'
  BY DEF TypeOK
<1>2. \A x \in Requests : Control(x)' /\ Seen(x)'
  BY DEF TypeOK, Control, Seen, IsPersonal
<1>3. ~clobbered' => \A x \in Requests \ stale' : Fresh(x)'
  BY DEF TypeOK, Fresh
<1>4. OwnNames' /\ RegistryIsUpToDate'
  BY DEF OwnNames, RegistryIsUpToDate
<1>5. PrincipalsHaveAStore'
  <2>1. Stopping \subseteq Stopping'
    BY DEF TypeOK, Stopping
  <2> QED BY <2>1 DEF PrincipalsHaveAStore
<1> QED BY <1>1, <1>2, <1>3, <1>4, <1>5

\* The list a request is about to write is made of what is in the file.
LEMMA ReadStep ==
  ASSUME IInv, NEW r \in Requests, ReadForSave(r) \/ ReadForUpdate(r)
  PROVE  IInv'
<1> USE DEF IInv, ReadForSave, ReadForUpdate, GoTo, history
<1>1. TypeOK'
  <2>1. [principals EXCEPT ![who[r]] = key[r]] \in Lists
    BY DEF TypeOK, Lists
  <2> QED BY <2>1 DEF TypeOK, Steps
<1>2. \A x \in Requests : Control(x)' /\ Seen(x)'
  BY DEF TypeOK, Control, Seen, IsPersonal
<1>3. ASSUME ~clobbered', NEW x \in Requests \ stale' PROVE Fresh(x)'
  <2>1. CASE x = r
    <3>1. list'[r] = [principals EXCEPT ![who[r]] = key[r]]
      BY DEF TypeOK
    <3>2. pc'[r] = "write" /\ op[r] # "create" => principals[who[r]] # Missing
      BY DEF TypeOK, Control
    <3>3. pc'[r] = "write" /\ op[r] = "signIn" => principals[who[r]] = key[r]
      BY <1>3, <2>1 DEF TypeOK, Control, Fresh
    <3>4. pc'[r] # "readForUpdate"
      BY DEF TypeOK
    <3> QED BY <2>1, <3>1, <3>2, <3>3, <3>4 DEF Fresh
  <2>2. CASE x # r
    BY <1>3, <2>2 DEF TypeOK, Fresh
  <2> QED BY <2>1, <2>2
<1>4. OwnNames' /\ RegistryIsUpToDate'
  BY DEF OwnNames, RegistryIsUpToDate
<1>5. PrincipalsHaveAStore'
  <2>1. Stopping \subseteq Stopping'
    BY DEF TypeOK, Stopping
  <2> QED BY <2>1 DEF PrincipalsHaveAStore
<1> QED BY <1>1, <1>2, <1>3, <1>4, <1>5

\* A list that is not stale changes what its request is about and nothing else; the
\* requests that have read the file before are stale from now on.
LEMMA WriteStep ==
  ASSUME IInv, NEW r \in Requests, Write(r)
  PROVE  IInv'
<1> USE DEF IInv, Write, GoTo, locals
<1>1. TypeOK'
  <2>1. op[r] # "signIn" => [last EXCEPT ![who[r]] = key[r]] \in Lists
    BY DEF TypeOK, Lists
  <2>2. list[r] \in Lists /\ Reading \subseteq Requests
    BY DEF TypeOK, Reading
  <2> QED BY <2>1, <2>2 DEF TypeOK, Steps
<1>2. \A x \in Requests : Control(x)' /\ Seen(x)'
  BY DEF TypeOK, Control, Seen, IsPersonal
<1>3. ASSUME ~clobbered', NEW x \in Requests \ stale' PROVE Fresh(x)'
  <2>1. pc'[x] \notin {"readForUpdate", "write"}
    BY <1>3 DEF TypeOK, Reading
  <2> QED BY <2>1 DEF Fresh
<1>4. ASSUME ~clobbered'
      PROVE  /\ ~clobbered
             /\ principals' = [principals EXCEPT ![who[r]] = key[r]]
             /\ op[r] = "signIn" => principals' = principals
             /\ op[r] # "create" => principals[who[r]] # Missing
  <2>1. ~clobbered /\ r \notin stale
    BY <1>4
  <2>2. Fresh(r)
    BY <2>1
  <2>3. principals' = [principals EXCEPT ![who[r]] = key[r]]
    BY <2>2 DEF Fresh
  <2>4. op[r] = "signIn" => principals' = principals
    BY <2>2, <2>3 DEF Fresh, TypeOK, Lists
  <2> QED BY <2>1, <2>2, <2>3, <2>4 DEF Fresh
<1>5. OwnNames'
  BY DEF OwnNames
<1>6. RegistryIsUpToDate'
  BY <1>4 DEF RegistryIsUpToDate
<1>7. PrincipalsHaveAStore'
  <2> SUFFICES ASSUME ~clobbered', NEW i \in Ids \ (raced \cup taken \cup cutShort),
                      principals'[i] # Missing, \A x \in Stopping' : who[x] # i
               PROVE  stores[i] = i
    BY DEF PrincipalsHaveAStore
  <2>1. Stopping \subseteq Stopping'
    BY DEF TypeOK, Stopping
  <2>2. op[r] = "create" => r \in Stopping'
    BY DEF TypeOK, Stopping
  <2>3. principals[i] # Missing
    BY <1>4, <2>2 DEF TypeOK, Lists
  <2> QED BY <1>4, <2>1, <2>3 DEF PrincipalsHaveAStore
<1> QED BY <1>1, <1>2, <1>3, <1>5, <1>6, <1>7

\* A creation that finds a store of the name is done: it is the principal's own.
LEMMA ExistsStep ==
  ASSUME IInv, NEW r \in Requests, Exists(r)
  PROVE  IInv'
<1> USE DEF IInv, Exists, GoTo, locals, history
<1>1. TypeOK'
  BY DEF TypeOK, Steps
<1>2. \A x \in Requests : Control(x)' /\ Seen(x)'
  BY DEF TypeOK, Control, Seen, IsPersonal
<1>3. ~clobbered' => \A x \in Requests \ stale' : Fresh(x)'
  BY DEF TypeOK, Fresh
<1>4. OwnNames' /\ RegistryIsUpToDate'
  BY DEF OwnNames, RegistryIsUpToDate
<1>5. PrincipalsHaveAStore'
  <2> SUFFICES ASSUME ~clobbered, NEW i \in Ids \ (raced \cup taken \cup cutShort),
                      principals[i] # Missing, \A x \in Stopping' : who[x] # i
               PROVE  stores[i] = i
    BY DEF PrincipalsHaveAStore
  <2>1. Stopping \subseteq Stopping' \cup {r}
    BY DEF TypeOK, Stopping
  <2>2. r \in Stopping' \/ stores[who[r]] # NoOwner
    BY DEF TypeOK, Control, Stopping
  <2>3. CASE who[r] = i
    BY <2>2, <2>3 DEF OwnNames
  <2>4. CASE who[r] # i
    BY <2>1, <2>4 DEF PrincipalsHaveAStore
  <2> QED BY <2>3, <2>4
<1> QED BY <1>1, <1>2, <1>3, <1>4, <1>5

\* What the others have seen of a store outlives a change of it, or it is raced.
LEMMA OthersSeen ==
  ASSUME IInv, NEW r \in Requests, NEW next \in {"done"}, NEW from, GoTo(r, from, next),
         UNCHANGED locals, Changed(name[r], r),
         \A n \in Names \ {name[r]} : stores'[n] = stores[n]
  PROVE  \A x \in Requests : Seen(x)'
<1> SUFFICES ASSUME NEW x \in Requests, name[x] \notin raced',
                    pc'[x] \in {"saveStore", "dropStore"}
             PROVE  stores'[name[x]] = stores[name[x]] /\ pc'[x] = pc[x] /\ name[x] \notin raced
  BY DEF IInv, locals, Seen, IsPersonal
<1>1. x # r /\ pc'[x] = pc[x]
  BY DEF IInv, TypeOK, GoTo
<1>2. name[x] # name[r] /\ name[x] \notin raced
  BY <1>1 DEF Changed, Looking
<1> QED BY <1>1, <1>2 DEF IInv, TypeOK

\* A record is written.
LEMMA SaveStoreStep ==
  ASSUME IInv, NEW r \in Requests, SaveStore(r)
  PROVE  IInv'
<1> USE DEF IInv, SaveStore, GoTo, locals
<1>0. name[r] \in Names /\ who[r] \in Ids /\ pc[r] = "saveStore"
  BY DEF TypeOK
<1>1. raced \subseteq raced' /\ raced' \subseteq Names /\ taken \subseteq taken' /\ taken' \subseteq Ids
  BY <1>0 DEF TypeOK, Changed, Names
<1>2. TypeOK'
  BY <1>0, <1>1 DEF TypeOK, Steps
<1>3. \A x \in Requests : Control(x)'
  BY DEF TypeOK, Control
<1>4. \A x \in Requests : Seen(x)'
  BY OthersSeen DEF TypeOK
<1>5. ~clobbered' => \A x \in Requests \ stale' : Fresh(x)'
  BY DEF TypeOK, Fresh
<1>6. OwnNames'
  BY <1>0, <1>1 DEF TypeOK, OwnNames, Names
<1>7. RegistryIsUpToDate'
  BY DEF RegistryIsUpToDate
<1>8. PrincipalsHaveAStore'
  <2> SUFFICES ASSUME ~clobbered, NEW i \in Ids \ (raced' \cup taken' \cup cutShort),
                      principals[i] # Missing, \A x \in Stopping' : who[x] # i
               PROVE  stores'[i] = i
    BY DEF PrincipalsHaveAStore
  <2>1. CASE name[r] = i
    BY <1>0, <2>1 DEF TypeOK, Names
  <2>2. CASE name[r] # i
    <3>1. Stopping \subseteq Stopping' \cup {r}
      BY DEF TypeOK, Stopping
    <3>2. r \in Stopping => who[r] # i
      BY <2>2 DEF Stopping, Control
    <3>3. stores[i] = i
      BY <1>1, <3>1, <3>2 DEF PrincipalsHaveAStore
    <3> QED BY <2>2, <3>3 DEF TypeOK, Names
  <2> QED BY <2>1, <2>2
<1> QED BY <1>2, <1>3, <1>4, <1>5, <1>6, <1>7, <1>8

\* A record is deleted: not a principal's own, unless it is raced.
LEMMA DropStoreStep ==
  ASSUME IInv, NEW r \in Requests, DropStore(r)
  PROVE  IInv'
<1> USE DEF IInv, DropStore, GoTo, locals
<1>0. name[r] \in Names /\ who[r] \in Ids /\ pc[r] = "dropStore"
  BY DEF TypeOK
<1>1. raced \subseteq raced' /\ raced' \subseteq Names
  BY <1>0 DEF TypeOK, Changed
<1>2. TypeOK'
  BY <1>0, <1>1 DEF TypeOK, Steps
<1>3. \A x \in Requests : Control(x)'
  BY DEF TypeOK, Control
<1>4. \A x \in Requests : Seen(x)'
  BY OthersSeen DEF TypeOK
<1>5. ~clobbered' => \A x \in Requests \ stale' : Fresh(x)'
  BY DEF TypeOK, Fresh
<1>6. OwnNames'
  BY <1>0 DEF TypeOK, OwnNames, Names
<1>7. RegistryIsUpToDate'
  BY DEF RegistryIsUpToDate
<1>8. PrincipalsHaveAStore'
  <2> SUFFICES ASSUME ~clobbered, NEW i \in Ids \ (raced' \cup taken \cup cutShort),
                      principals[i] # Missing, \A x \in Stopping' : who[x] # i
               PROVE  stores'[i] = i
    BY DEF PrincipalsHaveAStore
  <2>1. name[r] # i
    BY <1>0, <1>1 DEF Seen, OwnNames, IsPersonal
  <2>2. Stopping \subseteq Stopping'
    BY <1>0 DEF TypeOK, Stopping
  <2>3. stores[i] = i
    BY <1>1, <2>2 DEF PrincipalsHaveAStore
  <2> QED BY <2>1, <2>3 DEF TypeOK, Names
<1> QED BY <1>2, <1>3, <1>4, <1>5, <1>6, <1>7, <1>8

\* A call fails, or all do: creations that stop before their store are known.
LEMMA FaultStep ==
  ASSUME IInv, (\E r \in Requests : Fail(r)) \/ Crash
  PROVE  IInv'
<1> USE DEF IInv, Fail, Crash, Fault, locals
<1>0. UNCHANGED <<principals, stores, locals, last, stale, clobbered, raced, taken>>
  OBVIOUS
<1>1. \A x \in Requests : pc'[x] \in {pc[x], "failed"}
  BY DEF TypeOK
<1>2. /\ pc' \in [Requests -> Steps \cup {"idle", "done", "failed"}]
      /\ cutShort \subseteq cutShort' /\ cutShort' \subseteq Ids
      /\ \A x \in Stopping \ Stopping' : who[x] \in cutShort'
  <2>1. CASE \E r \in Requests : Fail(r)
    BY <2>1 DEF TypeOK, Stopping
  <2>2. CASE Crash
    BY <2>2 DEF TypeOK, Stopping
  <2> QED BY <2>1, <2>2
<1>3. faults' \in 0 .. MaxFaults
  BY FaultAssumption DEF TypeOK
<1>4. TypeOK'
  BY <1>0, <1>2, <1>3 DEF TypeOK
<1>5. \A x \in Requests : Control(x)' /\ Seen(x)'
  BY <1>0, <1>1 DEF Control, Seen, IsPersonal
<1>6. ~clobbered' => \A x \in Requests \ stale' : Fresh(x)'
  BY <1>0, <1>1 DEF Fresh
<1>7. OwnNames' /\ RegistryIsUpToDate'
  BY <1>0 DEF OwnNames, RegistryIsUpToDate
<1>8. PrincipalsHaveAStore'
  BY <1>0, <1>2 DEF PrincipalsHaveAStore
<1> QED BY <1>4, <1>5, <1>6, <1>7, <1>8

\* Whatever a request does, with a key of its own or another's.
LEMMA RequestStep ==
  ASSUME IInv, NEW r \in Requests, Request(r)
  PROVE  IInv'
<1>1. r \in Keys /\ NoKey \notin Keys /\ \A i \in Ids : i \in Names /\ principals[i] \in Keys \cup {NoKey, Missing}
  BY KeyAssumption DEF IInv, TypeOK, Lists, Keys, Names
<1>2. ASSUME NEW i \in Ids, GetOrCreate(r, i) PROVE IInv'
  <2>1. CASE principals[i] # Missing /\ Start(r, "signIn", i, i, principals[i], "readForUpdate")
    BY <1>1, <2>1, StartStep
  <2>2. CASE principals[i] = Missing /\ Start(r, "create", i, i, NoKey, "readForSave")
    BY <1>1, <2>2, StartStep
  <2> QED BY <1>2, <2>1, <2>2 DEF GetOrCreate
<1>3. ASSUME NEW i \in Ids, Create(r, i) PROVE IInv'
  BY <1>1, <1>3, StartStep DEF Create
<1>4. ASSUME NEW i \in Ids, ReissueAPIKey(r, i) PROVE IInv'
  BY <1>1, <1>4, StartStep DEF ReissueAPIKey
<1>5. ASSUME NEW i \in Ids, RevokeAPIKey(r, i) PROVE IInv'
  BY <1>1, <1>5, StartStep DEF RevokeAPIKey
<1>6. ASSUME NEW i \in Ids, NEW n \in Names, CreateStore(r, i, n) PROVE IInv'
  BY <1>6, StartStep DEF CreateStore
<1>7. ASSUME NEW i \in Ids, NEW n \in Names, DeleteStore(r, i, n) PROVE IInv'
  BY <1>7, StartStep DEF DeleteStore
<1>8. ASSUME NEW k \in Keys, AuthenticateByAPIKey(r, k) PROVE IInv'
  BY <1>1, <1>8, StartStep DEF AuthenticateByAPIKey
<1>9. ASSUME Fail(r) PROVE IInv'
  BY <1>9, FaultStep
<1> QED
  BY <1>2, <1>3, <1>4, <1>5, <1>6, <1>7, <1>8, <1>9,
     RefuseStep, ReadStep, WriteStep, ExistsStep, SaveStoreStep, DropStoreStep
  DEF Request, Operation

\* Every step of the service preserves the invariant, and so does one that is not its own.
LEMMA NextIInv == IInv /\ [Next]_vars => IInv'
<1> SUFFICES ASSUME IInv, [Next]_vars PROVE IInv'
  OBVIOUS
<1>1. CASE UNCHANGED vars
  <2> USE <1>1 DEF IInv, vars, locals, history
  <2>1. TypeOK' /\ OwnNames' /\ RegistryIsUpToDate'
    BY DEF TypeOK, OwnNames, RegistryIsUpToDate
  <2>2. \A r \in Requests : Control(r)' /\ Seen(r)'
    BY DEF Control, Seen, IsPersonal
  <2>3. ~clobbered' => \A r \in Requests \ stale' : Fresh(r)'
    BY DEF Fresh
  <2>4. PrincipalsHaveAStore'
    BY DEF PrincipalsHaveAStore, Stopping
  <2> QED BY <2>1, <2>2, <2>3, <2>4
<1>2. CASE \E r \in Requests : Request(r)
  BY <1>2, RequestStep
<1>3. CASE Crash
  BY <1>3, FaultStep
<1> QED BY <1>1, <1>2, <1>3 DEF Next

\* The inductive invariant of principals.json and the stores.
THEOREM Invariance == Spec => []IInv
BY InitIInv, NextIInv, PTL DEF Spec

\* The registry, the stores and the requests keep their types.
THEOREM TypeCorrect == Spec => []TypeOK
<1>1. IInv => TypeOK
  BY DEF IInv
<1> QED BY <1>1, Invariance, PTL

\* For any number of requests and principals: unless a stale list was written, every
\* principal has the key it was last given.
THEOREM Registry == Spec => []RegistryIsUpToDate
<1>1. IInv => RegistryIsUpToDate
  BY DEF IInv
<1> QED BY <1>1, Invariance, PTL

\* For any number of requests and stores: a principal that was created to the end has
\* a store of its name.
THEOREM Homes == Spec => []PrincipalsHaveAStore
<1>1. IInv => PrincipalsHaveAStore
  BY DEF IInv
<1> QED BY <1>1, Invariance, PTL

\* A step that changes the owner of a store that has one either drops the store, and it
\* is no principal's own, or the store is raced.
LEMMA OwnersStep ==
  ASSUME IInv, [Next]_vars, NEW n \in Names, stores[n] # NoOwner, n \notin raced'
  PROVE  stores'[n] = stores[n] \/ (stores'[n] = NoOwner /\ ~IsPersonal(n))
<1>1. CASE UNCHANGED stores
  BY <1>1
<1>2. ASSUME NEW r \in Requests, SaveStore(r) PROVE stores'[n] = stores[n]
  <2>1. n \notin raced /\ pc[r] = "saveStore"
    BY <1>2 DEF SaveStore, Changed, GoTo
  <2>2. name[r] # n
    BY <2>1 DEF IInv, Seen
  <2> QED BY <1>2, <2>2 DEF SaveStore, IInv, TypeOK
<1>3. ASSUME NEW r \in Requests, DropStore(r)
      PROVE  stores'[n] = stores[n] \/ (stores'[n] = NoOwner /\ ~IsPersonal(n))
  <2>1. n \notin raced /\ pc[r] = "dropStore"
    BY <1>3 DEF DropStore, Changed, GoTo
  <2>2. name[r] = n => ~IsPersonal(n)
    BY <2>1 DEF IInv, Seen
  <2> QED BY <1>3, <2>2 DEF DropStore, IInv, TypeOK
<1>4. (\E r \in Requests : SaveStore(r) \/ DropStore(r)) \/ UNCHANGED stores
  BY DEF Next, Request, Operation, GetOrCreate, Create, ReissueAPIKey, RevokeAPIKey,
         AuthenticateByAPIKey, CreateStore, DeleteStore, Start, Refuse, ReadForSave,
         ReadForUpdate, Write, Exists, Fail, Crash, vars
<1> QED BY <1>1, <1>2, <1>3, <1>4

\* For any number of requests of the two services, and any stores: no store changes hands
\* unless it was changed between another request's look and change, and no personal store is
\* deleted.
THEOREM Owners == Spec => StoresKeepTheirOwner
<1>1. IInv /\ [Next]_vars =>
        [\A n \in Names : stores[n] # NoOwner /\ n \notin raced' =>
           stores'[n] = stores[n] \/ (stores'[n] = NoOwner /\ ~IsPersonal(n))]_vars
  BY OwnersStep
<1> QED BY <1>1, Invariance, PTL DEF Spec, StoresKeepTheirOwner

-----------------------------------------------------------------------------
(* Tokens, above the principals and stores.                                 *)

\* No one has a token yet.
LEMMA TInitTInv == TInit => TInv
<1> SUFFICES ASSUME TInit PROVE TInv
  OBVIOUS
<1>1. IInv
  BY InitIInv DEF TInit
<1>2. TTypeOK
  BY <1>1, TTLAssumption DEF IInv, TTypeOK, TInit
<1>3. Held /\ InTime
  BY TTLAssumption DEF TInit, Held, InTime
<1> QED BY <1>1, <1>2, <1>3 DEF TInv

\* Every step of this module is one of PrincipalService, or changes none of its state.
LEMMA TNextNext == TInv /\ [TNext]_<<vars, tvars>> => [Next]_vars
<1> SUFFICES ASSUME TInv, TNext PROVE [Next]_vars
  BY DEF vars, locals, history
<1>1. \A t \in Requests : who[t] \in Ids
  BY DEF TInv, TTypeOK, TypeOK
<1>2. ASSUME NEW r \in Requests,
             \/ Operation(r)
             \/ \E k \in Keys : Exchange(r, k)
             \/ \E t \in Requests : Call(r, t)
      PROVE  Next
  BY <1>1, <1>2 DEF Next, Request, Operation, Exchange, Call
<1>3. ASSUME NEW r \in Requests, Issue(r) PROVE UNCHANGED vars
  BY <1>3 DEF Issue
<1>4. Restart => Next
  BY DEF Restart, Next
<1>5. Tick => UNCHANGED vars
  BY DEF Tick
<1> QED BY <1>2, <1>3, <1>4, <1>5 DEF TNext

\* A request that has begun keeps its key, and one that is over stays so.
LEMMA KeepStep ==
  ASSUME IInv, [Next]_vars, NEW r \in Requests, pc[r] # "idle"
  PROVE  /\ key'[r] = key[r] /\ pc'[r] # "idle"
         /\ pc[r] \in {"done", "failed"} => pc'[r] = pc[r]
<1>1. CASE UNCHANGED vars
  BY <1>1 DEF vars, locals
<1>2. CASE Crash
  BY <1>2 DEF IInv, TypeOK, Crash, Steps, locals
<1>3. ASSUME NEW x \in Requests, NEW o, NEW i, NEW n, NEW k, NEW next, Start(x, o, i, n, k, next)
      PROVE  key'[r] = key[r] /\ pc'[r] = pc[r]
  BY <1>3 DEF IInv, TypeOK, Start
<1>4. ASSUME NEW x \in Requests,
             \/ Refuse(x) \/ ReadForSave(x) \/ ReadForUpdate(x) \/ Write(x)
             \/ Exists(x) \/ SaveStore(x) \/ DropStore(x) \/ Fail(x)
      PROVE  /\ key'[r] = key[r] /\ pc'[r] # "idle"
             /\ pc[r] \in {"done", "failed"} => pc'[r] = pc[r]
  BY <1>4 DEF IInv, TypeOK, Refuse, ReadForSave, ReadForUpdate, Write, Exists, SaveStore,
              DropStore, Fail, GoTo, Steps, locals
<1>5. ASSUME NEW x \in Requests, Request(x),
             ~(\E o, i, n, k, next : Start(x, o, i, n, k, next))
      PROVE  \/ Refuse(x) \/ ReadForSave(x) \/ ReadForUpdate(x) \/ Write(x)
             \/ Exists(x) \/ SaveStore(x) \/ DropStore(x) \/ Fail(x)
  BY <1>5 DEF Request, Operation, GetOrCreate, Create, ReissueAPIKey, RevokeAPIKey,
              AuthenticateByAPIKey, CreateStore, DeleteStore
<1> QED BY <1>1, <1>2, <1>3, <1>4, <1>5 DEF Next

\* Once a stale list was written this is not forgotten.
LEMMA ClobberedStays ==
  ASSUME IInv, [Next]_vars, clobbered
  PROVE  clobbered'
<1>1. ASSUME NEW r \in Requests, Write(r) PROVE clobbered'
  BY <1>1 DEF Write
<1>2. ASSUME NEW r \in Requests, NEW o, NEW i, NEW n, NEW k, NEW next, Start(r, o, i, n, k, next)
      PROVE  clobbered'
  BY <1>2 DEF Start, history
<1>3. ASSUME NEW r \in Requests,
             \/ Refuse(r) \/ ReadForSave(r) \/ ReadForUpdate(r)
             \/ Exists(r) \/ SaveStore(r) \/ DropStore(r) \/ Fail(r)
      PROVE  clobbered'
  BY <1>3 DEF Refuse, ReadForSave, ReadForUpdate, Exists, SaveStore, DropStore, Fail, history
<1>4. CASE Crash
  BY <1>4 DEF Crash
<1>5. CASE UNCHANGED vars
  BY <1>5 DEF vars, history
<1> QED
  BY <1>1, <1>2, <1>3, <1>4, <1>5
  DEF Next, Request, Operation, GetOrCreate, Create, ReissueAPIKey, RevokeAPIKey,
      AuthenticateByAPIKey, CreateStore, DeleteStore

\* A step that hands out no token and lets no time pass.
LEMMA QuietStep ==
  ASSUME TInv, [Next]_vars, UNCHANGED <<token, dead>>, due' \subseteq due
  PROVE  TInv'
<1>1. IInv'
  BY NextIInv DEF TInv
<1>2. TTypeOK'
  BY <1>1 DEF TInv, IInv, TTypeOK
<1>3. \A r \in Requests : pc[r] # "idle" =>
        /\ key'[r] = key[r] /\ pc'[r] # "idle"
        /\ pc[r] \in {"done", "failed"} => pc'[r] = pc[r]
  BY KeepStep DEF TInv
<1>4. Held'
  BY <1>3 DEF TInv, Held
<1>5. InTime'
  BY <1>3, ClobberedStays DEF TInv, Held, InTime
<1> QED BY <1>1, <1>2, <1>4, <1>5 DEF TInv

\* A key that is found in an up-to-date registry is in force.
LEMMA ExchangeStep ==
  ASSUME TInv, NEW r \in Requests, NEW k \in Keys, Exchange(r, k)
  PROVE  TInv'
<1>1. [Next]_vars
  BY DEF Exchange, Next, Request
<1>2. IInv'
  BY <1>1, NextIInv DEF TInv
<1>3. PICK i \in Ids : principals[i] = k /\ Start(r, "signIn", i, i, k, "readForUpdate")
  BY DEF Exchange, AuthenticateByAPIKey
<1>4. /\ pc[r] = "idle" /\ pc' = [pc EXCEPT ![r] = "readForUpdate"]
      /\ key' = [key EXCEPT ![r] = k]
      /\ UNCHANGED <<principals, last, clobbered>>
  BY <1>3 DEF Start, history
<1>5. TTypeOK'
  BY <1>2, TTLAssumption DEF TInv, IInv, TTypeOK, Exchange
<1>6. Held'
  BY <1>4 DEF TInv, IInv, TypeOK, TTypeOK, Held, Exchange
<1>7. InTime'
  <2> SUFFICES ASSUME ~clobbered, NEW x \in Requests
               PROVE  /\ x \in due' /\ pc'[x] # "failed" => dead'[key'[x]] = 0
                      /\ token'[x] > 0 => dead'[key'[x]] + token'[x] <= TTL
    BY <1>4 DEF InTime
  <2>1. InForce(k)
    BY <1>3 DEF TInv, IInv, RegistryIsUpToDate, InForce
  <2>2. dead' = [dead EXCEPT ![k] = 0] /\ due' = due \cup {r} /\ token' = token
    BY <2>1 DEF Exchange
  <2>3. CASE x = r
    BY <1>4, <2>2, <2>3 DEF TInv, IInv, TypeOK, TTypeOK, Held
  <2>4. CASE x # r
    <3>1. key'[x] = key[x] /\ pc'[x] = pc[x]
      BY <1>4, <2>4 DEF TInv, IInv, TypeOK
    <3>2. CASE x \in due /\ pc[x] # "failed"
      BY <2>2, <3>1, <3>2 DEF TInv, TTypeOK, Held, InTime
    <3>3. CASE token[x] > 0
      <4>1. key[x] \in Keys /\ token[x] \in 0 .. TTL /\ dead[key[x]] + token[x] <= TTL
        BY <3>3 DEF TInv, TTypeOK, Held, InTime
      <4>2. dead'[key[x]] \in {0, dead[key[x]]} /\ dead[key[x]] \in 0 .. TTL
        BY <2>2, <4>1 DEF TInv, TTypeOK
      <4>3. dead'[key[x]] + token[x] <= TTL
        BY <4>1, <4>2, TTLAssumption
      <4>4. x \in due => pc[x] = "failed" \/ dead'[key[x]] = 0
        BY <2>2, <4>1 DEF TInv, TTypeOK, InTime
      <4> QED BY <2>2, <2>4, <3>1, <4>3, <4>4
    <3>4. CASE ~(x \in due /\ pc[x] # "failed") /\ ~(token[x] > 0)
      BY <2>2, <2>4, <3>1, <3>4
    <3> QED BY <2>2, <2>4, <3>1, <3>2, <3>3, <3>4 DEF TInv, TTypeOK, Held, InTime
  <2> QED BY <2>3, <2>4
<1> QED BY <1>2, <1>5, <1>6, <1>7 DEF TInv

\* A token is handed out while its key is in force.
LEMMA IssueStep ==
  ASSUME TInv, NEW r \in Requests, Issue(r)
  PROVE  TInv'
<1> USE DEF Issue
<1>1. UNCHANGED <<vars, dead>> /\ due' = due \ {r} /\ token' = [token EXCEPT ![r] = TTL]
  OBVIOUS
<1>2. IInv'
  BY <1>1, NextIInv DEF TInv
<1>3. TTypeOK'
  BY <1>1, <1>2, TTLAssumption DEF TInv, IInv, TTypeOK
<1>4. UNCHANGED <<pc, key, clobbered>>
  BY <1>1 DEF vars, locals, history
<1>5. Held'
  BY <1>1, <1>4 DEF TInv, TTypeOK, Held
<1>6. InTime'
  <2>1. ~clobbered => dead[key[r]] = 0
    BY DEF TInv, InTime
  <2> QED BY <1>1, <1>4, <2>1, TTLAssumption DEF TInv, TTypeOK, Held, InTime
<1> QED BY <1>2, <1>3, <1>5, <1>6 DEF TInv

\* Time passes for a token no slower than for its key.
LEMMA TickStep ==
  ASSUME TInv, Tick
  PROVE  TInv'
<1>1. UNCHANGED <<vars, due>>
  BY DEF Tick
<1>2. IInv'
  BY <1>1, NextIInv DEF TInv
<1>3. UNCHANGED <<pc, key, clobbered>>
  BY <1>1 DEF vars, locals, history
<1>4. \A r \in Requests :
        /\ token[r] \in 0 .. TTL
        /\ token'[r] = IF token[r] = 0 THEN 0 ELSE token[r] - 1
  BY DEF TInv, TTypeOK, Tick
<1>5. \A k \in Keys :
        /\ dead[k] \in 0 .. TTL /\ dead'[k] \in 0 .. TTL
        /\ dead'[k] <= dead[k] + 1
        /\ InExchange(k) => dead'[k] <= dead[k]
  BY TTLAssumption DEF TInv, TTypeOK, Tick
<1>6. TTypeOK'
  <2>1. token' \in [Requests -> 0 .. TTL]
    BY <1>4, TTLAssumption DEF Tick
  <2>2. dead' \in [Keys -> 0 .. TTL]
    BY <1>5 DEF Tick
  <2> QED BY <1>1, <1>2, <2>1, <2>2 DEF TInv, IInv, TTypeOK
<1>7. Held'
  BY <1>1, <1>3, <1>4 DEF TInv, Held
<1>8. InTime'
  <2> SUFFICES ASSUME ~clobbered, NEW r \in Requests
               PROVE  /\ r \in due /\ pc[r] # "failed" => dead'[key[r]] = 0
                      /\ token'[r] > 0 => dead'[key[r]] + token'[r] <= TTL
    BY <1>1, <1>3 DEF InTime
  <2>1. ASSUME r \in due, pc[r] # "failed" PROVE dead'[key[r]] = 0
    <3>1. key[r] \in Keys /\ dead[key[r]] = 0 /\ InExchange(key[r])
      BY <2>1 DEF TInv, Held, InTime, InExchange
    <3>2. dead'[key[r]] \in 0 .. TTL /\ dead'[key[r]] <= dead[key[r]]
      BY <1>5, <3>1
    <3> QED BY <3>1, <3>2, TTLAssumption
  <2>2. ASSUME token'[r] > 0 PROVE dead'[key[r]] + token'[r] <= TTL
    <3>1. token[r] > 0 /\ token[r] \in 0 .. TTL /\ token'[r] = token[r] - 1
      BY <1>4, <2>2
    <3>2. key[r] \in Keys /\ dead[key[r]] + token[r] <= TTL
      BY <3>1 DEF TInv, Held, InTime
    <3>3. dead[key[r]] \in 0 .. TTL /\ dead'[key[r]] \in 0 .. TTL /\ dead'[key[r]] <= dead[key[r]] + 1
      BY <1>5, <3>2
    <3> QED BY <3>1, <3>2, <3>3, TTLAssumption
  <2> QED BY <2>1, <2>2
<1> QED BY <1>2, <1>6, <1>7, <1>8 DEF TInv

\* Every step preserves the invariant.
LEMMA TNextTInv == TInv /\ [TNext]_<<vars, tvars>> => TInv'
<1> SUFFICES ASSUME TInv, [TNext]_<<vars, tvars>> PROVE TInv'
  OBVIOUS
<1>1. [Next]_vars
  BY TNextNext
<1>2. CASE UNCHANGED <<vars, tvars>>
  BY <1>1, <1>2, QuietStep DEF tvars
<1>3. ASSUME NEW r \in Requests,
             (Operation(r) /\ UNCHANGED tvars) \/ (\E t \in Requests : Call(r, t))
      PROVE  TInv'
  BY <1>1, <1>3, QuietStep DEF tvars, Call
<1>4. CASE Restart
  BY <1>1, <1>4, QuietStep DEF Restart
<1> QED BY <1>2, <1>3, <1>4, ExchangeStep, IssueStep, TickStep DEF TNext

\* The inductive invariant of keys and tokens.
THEOREM TokenInvariance == TSpec => []TInv
BY TInitTInv, TNextTInv, PTL DEF TSpec

\* Tokens leave principals and stores as PrincipalService has them: what is proved of
\* them holds beside tokens.
THEOREM TokensChangeNothing == TSpec => Spec
<1>1. TInit => Init
  BY DEF TInit
<1> QED BY <1>1, TokenInvariance, TNextNext, PTL DEF TSpec, Spec

\* The variables of PrincipalService and of the tokens keep their types.
THEOREM TokenTypes == TSpec => []TTypeOK
<1>1. TInv => TTypeOK
  BY DEF TInv
<1> QED BY <1>1, TokenInvariance, PTL

\* For any number of requests, principals and keys and any life of a token: a token
\* outlives its key by no more than that, unless a stale list was written.
THEOREM TokensEnd == TSpec => TokensFollowTheirKeys
<1>1. TInv => \A r, t \in Requests : Call(r, t) /\ ~clobbered => dead[key[t]] < TTL
  <2> SUFFICES ASSUME TInv, NEW t \in Requests, token[t] > 0, ~clobbered
               PROVE  dead[key[t]] < TTL
    BY DEF Call
  <2>1. key[t] \in Keys /\ token[t] \in 0 .. TTL /\ dead[key[t]] + token[t] <= TTL
    BY DEF TInv, TTypeOK, Held, InTime
  <2>2. dead[key[t]] \in 0 .. TTL
    BY <2>1 DEF TInv, TTypeOK
  <2> QED BY <2>1, <2>2, TTLAssumption
<1> QED BY <1>1, TokenInvariance, PTL DEF TokensFollowTheirKeys
=============================================================================
