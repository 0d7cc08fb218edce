-------------------------- MODULE StoreAccessProofs --------------------------
(***************************************************************************)
(* For any number of requests, callers and stores: memories stay with the  *)
(* owner of their store, and readers see only what is theirs, for as long  *)
(* as no record changes under a request and no memory identifier leads     *)
(* from one store into another.                                            *)
(*                                                                         *)
(* The invariants are not inductive: that a request may act rests on what  *)
(* it saw earlier.  Seen says what that was, and that it still holds; the  *)
(* steps that would falsify it for a request under way are the ones that   *)
(* put the store among the raced.                                          *)
(***************************************************************************)
EXTENDS StoreAccess, TLAPS

\* A slot no request is in: well typed, and it has seen nothing.
LEMMA IdleType ==
  /\ Idle.step = "idle" /\ Idle.who = Console /\ Idle.place = Idle.name
  /\ Idle \in [step : Steps \cup {"idle"}, who : Callers, name : Names, place : Names]
BY CallerAssumption, NameAssumption DEF Idle

\* Whoever may write may read.
LEMMA WritersRead ==
  ASSUME NEW i, NEW n, RequireWrite(i, n)
  PROVE  RequireRead(i, n)
BY DEF RequireWrite, RequireRead

\* A member that is no admin is the owner.
LEMMA MembersOwn ==
  ASSUME NEW i, NEW n, RequireRead(i, n), i \notin Admins
  PROVE  owner[n] = i
BY DEF RequireRead, GetMemberRole

\* Before the first request nothing is stored and nothing has been seen.
LEMMA InitIInv == Init => IInv
<1> SUFFICES ASSUME Init PROVE IInv
  OBVIOUS
<1>1. TypeOK
  BY IdleType DEF Init, TypeOK
<1>2. \A s \in Slots : Seen(s)
  BY IdleType DEF Init, Seen, pc
<1>3. ContentsBelongToOwner /\ PersonalContentsStay
  BY DEF Init, ContentsBelongToOwner, PersonalContentsStay
<1>4. \A s \in Slots : place(s) = name(s)
  BY IdleType DEF Init, place, name
<1> QED BY <1>1, <1>2, <1>3, <1>4 DEF IInv

\* A request begins with what it has just seen.
LEMMA BeginStep ==
  ASSUME IInv, NEW s \in Slots, NEW i \in Callers, NEW n \in Names, NEW m \in Places(i, n),
         NEW next \in Steps, BeginAt(s, i, n, m, next),
         next = "saveStore" => owner[n] = NoOwner,
         next = "dropStore" => owner[n] # NoOwner /\ ~IsPersonal(n),
         next \in {"write", "read"} => RequireRead(i, n)
  PROVE  IInv'
<1> USE DEF IInv, BeginAt, history
<1>0. m \in Names /\ (m = n \/ i = Anonymous)
  BY DEF Places
<1>1. TypeOK'
  BY <1>0 DEF TypeOK
<1>2. ASSUME NEW t \in Slots, name(t)' \notin raced' PROVE Seen(t)'
  <2>1. CASE t = s
    <3>1. req'[s] = [step |-> next, who |-> i, name |-> n, place |-> m]
      BY DEF TypeOK
    <3> QED BY <2>1, <3>1 DEF Seen, pc, who, name, IsPersonal, RequireRead, GetMemberRole
  <2>2. CASE t # s
    <3>1. req'[t] = req[t]
      BY <2>2 DEF TypeOK
    <3> QED BY <1>2, <3>1 DEF Seen, pc, who, name, IsPersonal, RequireRead, GetMemberRole
  <2> QED BY <2>1, <2>2
<1>3. ContentsBelongToOwner' /\ PersonalContentsStay'
  BY DEF ContentsBelongToOwner, PersonalContentsStay
<1>4. ASSUME NEW t \in Slots PROVE place(t)' = name(t)' \/ who(t)' = Anonymous
  <2>1. req'[t] = [step |-> next, who |-> i, name |-> n, place |-> m] \/ req'[t] = req[t]
    BY DEF TypeOK
  <2> QED BY <1>0, <2>1 DEF place, name, who
<1> QED BY <1>1, <1>2, <1>3, <1>4

\* What the requests in the other slots have seen outlives a step that leaves its own
\* slot, as long as the step changes no record, or counts the one it changes as raced.
LEMMA OthersSeen ==
  ASSUME IInv, NEW s \in Slots, NEW from, Leave(s, from),
         raced \subseteq raced', NEW n \in Names,
         \A m \in Names \ {n} : owner'[m] = owner[m],
         owner'[n] = owner[n] \/ Changed(s, n) \/ n \in raced'
  PROVE  /\ \A t \in Slots : place(t)' = name(t)' \/ who(t)' = Anonymous
         /\ \A t \in Slots : name(t)' \notin raced' => Seen(t)'
<1>0. ASSUME NEW t \in Slots PROVE place(t)' = name(t)' \/ who(t)' = Anonymous
  <2>1. req'[t] = Idle \/ req'[t] = req[t]
    BY DEF IInv, TypeOK, Leave
  <2> QED BY <2>1, IdleType DEF IInv, place, name, who
<1> SUFFICES ASSUME NEW t \in Slots, name(t)' \notin raced' PROVE Seen(t)'
  BY <1>0
<1>1. CASE t = s
  <2>1. req'[s] = Idle
    BY DEF IInv, TypeOK, Leave
  <2> QED BY <1>1, <2>1, IdleType DEF Seen, pc
<1>2. CASE t # s
  <2>1. req'[t] = req[t] /\ name(t) \in Names
    BY <1>2 DEF IInv, TypeOK, Leave, name
  <2>2. name(t) \notin raced /\ Seen(t)
    BY <2>1 DEF IInv, name
  <2>3. CASE owner'[name(t)] = owner[name(t)]
    BY <2>1, <2>2, <2>3 DEF Seen, pc, who, name, IsPersonal, RequireRead, GetMemberRole
  <2>4. CASE owner'[name(t)] # owner[name(t)]
    <3>1. name(t) = n /\ Changed(s, n)
      BY <1>2, <2>1, <2>4 DEF name
    <3>2. pc(t) \notin {"saveStore", "dropStore", "write", "read"}
      BY <1>2, <2>1, <3>1 DEF Changed, name
    <3> QED BY <2>1, <3>2 DEF Seen, pc
  <2> QED BY <2>3, <2>4
<1> QED BY <1>1, <1>2

\* Leaving a slot keeps the types of the requests.
LEMMA LeaveType ==
  ASSUME TypeOK, NEW s \in Slots, NEW from, Leave(s, from)
  PROVE  req' \in [Slots -> [step : Steps \cup {"idle"}, who : Callers, name : Names, place : Names]]
BY IdleType DEF TypeOK, Leave

\* A request that changes neither records nor memories leaves its slot.
LEMMA QuietLeave ==
  ASSUME IInv, NEW s \in Slots, NEW from, Leave(s, from),
         known' \subseteq Callers, UNCHANGED <<owner, contents, history>>
  PROVE  IInv'
<1> USE DEF history
<1>1. TypeOK'
  BY LeaveType DEF IInv, TypeOK
<1>2. /\ \A t \in Slots : place(t)' = name(t)' \/ who(t)' = Anonymous
      /\ \A t \in Slots : name(t)' \notin raced' => Seen(t)'
  BY OthersSeen, NameAssumption
<1>3. ContentsBelongToOwner' /\ PersonalContentsStay'
  BY DEF IInv, ContentsBelongToOwner, PersonalContentsStay
<1> QED BY <1>1, <1>2, <1>3 DEF IInv

\* A request that changes nothing goes on to a step for which it has seen what it needs.
LEMMA QuietGoTo ==
  ASSUME IInv, NEW s \in Slots, NEW from, NEW next \in Steps, GoTo(s, from, next),
         known' \subseteq Callers, UNCHANGED <<owner, contents, history>>,
         next = "saveStore" => owner[name(s)] = NoOwner,
         next \notin {"dropStore", "write", "read"}
  PROVE  IInv'
<1> USE DEF history
<1>1. TypeOK'
  BY DEF IInv, TypeOK, GoTo
<1>2. ASSUME NEW t \in Slots, name(t)' \notin raced' PROVE Seen(t)'
  <2>1. CASE t = s
    <3>1. pc(s)' = next /\ name(s)' = name(s)
      BY DEF IInv, TypeOK, GoTo, pc, name
    <3> QED BY <2>1, <3>1 DEF Seen
  <2>2. CASE t # s
    <3>1. req'[t] = req[t]
      BY <2>2 DEF IInv, TypeOK, GoTo
    <3> QED BY <1>2, <3>1 DEF IInv, Seen, pc, who, name, IsPersonal, RequireRead, GetMemberRole
  <2> QED BY <2>1, <2>2
<1>3. ContentsBelongToOwner' /\ PersonalContentsStay'
  BY DEF IInv, ContentsBelongToOwner, PersonalContentsStay
<1>4. ASSUME NEW t \in Slots PROVE place(t)' = name(t)' \/ who(t)' = Anonymous
  <2>1. /\ req'[t].place = req[t].place /\ req'[t].name = req[t].name
        /\ req'[t].who = req[t].who
    BY DEF IInv, TypeOK, GoTo
  <2> QED BY <2>1 DEF IInv, place, name, who
<1> QED BY <1>1, <1>2, <1>3, <1>4 DEF IInv

-----------------------------------------------------------------------------
(* One lemma for each step that changes records or memories.               *)

\* A record is written where there was none, and over nothing personal.
LEMMA SaveStoreStep ==
  ASSUME IInv, NEW s \in Slots, SaveStore(s)
  PROVE  IInv'
<1> DEFINE n == name(s)
<1>1. /\ n \in Names /\ who(s) \in Callers /\ pc(s) = "saveStore"
      /\ owner \in [Names -> Callers \cup {NoOwner}]
      /\ owner' = [owner EXCEPT ![n] = who(s)] /\ contents' = contents
      /\ raced \subseteq raced' /\ raced' \subseteq Names
      /\ reused \subseteq reused' \cup raced' /\ reused' \subseteq Names
  BY DEF IInv, TypeOK, SaveStore, Leave, Changed, name, who
<1>2. TypeOK'
  BY <1>1, LeaveType DEF IInv, TypeOK, SaveStore
<1>3. /\ \A t \in Slots : place(t)' = name(t)' \/ who(t)' = Anonymous
      /\ \A t \in Slots : name(t)' \notin raced' => Seen(t)'
  BY <1>1, OthersSeen DEF SaveStore
<1>4. ContentsBelongToOwner'
  <2> SUFFICES ASSUME NEW m \in Names, m \notin raced' \cup reused', owner'[m] # NoOwner
               PROVE  contents[m] \subseteq {owner'[m]} \cup Guests
    BY <1>1 DEF ContentsBelongToOwner
  <2>1. CASE m = n
    <3>1. contents[n] = {}
      BY <1>1, <2>1 DEF SaveStore
    <3> QED BY <2>1, <3>1
  <2>2. CASE m # n
    BY <1>1, <2>2 DEF IInv, ContentsBelongToOwner
  <2> QED BY <2>1, <2>2
<1>5. PersonalContentsStay'
  <2> SUFFICES ASSUME NEW m \in Names, m \notin raced' \cup Admins, m \in contents[m]
               PROVE  owner'[m] = m
    BY <1>1 DEF PersonalContentsStay
  <2>1. owner[m] = m
    BY <1>1 DEF IInv, PersonalContentsStay
  <2>2. m # n
    BY <1>1, <2>1, CallerAssumption DEF IInv, Seen
  <2> QED BY <1>1, <2>1, <2>2
<1> QED BY <1>2, <1>3, <1>4, <1>5 DEF IInv

\* A record is removed, and not that of a personal store.
LEMMA DropStoreStep ==
  ASSUME IInv, NEW s \in Slots, DropStore(s)
  PROVE  IInv'
<1> DEFINE n == name(s)
<1>1. /\ n \in Names /\ pc(s) = "dropStore"
      /\ owner \in [Names -> Callers \cup {NoOwner}]
      /\ owner' = [owner EXCEPT ![n] = NoOwner] /\ contents' = contents
      /\ raced \subseteq raced' /\ raced' \subseteq Names /\ reused' = reused \ raced'
  BY DEF IInv, TypeOK, DropStore, Leave, Changed, name
<1>2. TypeOK'
  BY <1>1, LeaveType DEF IInv, TypeOK, DropStore
<1>3. /\ \A t \in Slots : place(t)' = name(t)' \/ who(t)' = Anonymous
      /\ \A t \in Slots : name(t)' \notin raced' => Seen(t)'
  BY <1>1, OthersSeen DEF DropStore
<1>4. ContentsBelongToOwner'
  BY <1>1 DEF IInv, ContentsBelongToOwner
<1>5. PersonalContentsStay'
  <2> SUFFICES ASSUME NEW m \in Names, m \notin raced' \cup Admins, m \in contents[m]
               PROVE  owner'[m] = m
    BY <1>1 DEF PersonalContentsStay
  <2>1. owner[m] = m
    BY <1>1 DEF IInv, PersonalContentsStay
  <2>2. m # n
    BY <1>1, <2>1 DEF IInv, Seen, IsPersonal
  <2> QED BY <1>1, <2>1, <2>2
<1> QED BY <1>2, <1>3, <1>4, <1>5 DEF IInv

\* An author is added only as the owner or an admin, unless the record changed, or as
\* one that had looked at another store.
LEMMA WriteContentsStep ==
  ASSUME IInv, NEW s \in Slots, WriteContents(s)
  PROVE  IInv'
<1> DEFINE n == place(s)
           author == IF n = name(s) THEN who(s) ELSE Astray
<1> USE DEF history
<1>1. /\ n \in Names /\ name(s) \in Names /\ who(s) \in Callers /\ pc(s) = "write"
      /\ contents \in [Names -> SUBSET (Callers \cup {Astray})]
      /\ UNCHANGED <<owner, known, raced, reused>>
  BY DEF IInv, TypeOK, WriteContents, Leave, name, who, place
<1>2. \E here \in SUBSET (contents[n] \cup {author}) :
        contents' = [contents EXCEPT ![n] = here]
  BY DEF WriteContents
<1>3. /\ contents' \in [Names -> SUBSET (Callers \cup {Astray})]
      /\ contents'[n] \subseteq contents[n] \cup {author}
      /\ \A m \in Names \ {n} : contents'[m] = contents[m]
  BY <1>1, <1>2
<1>4. TypeOK'
  BY <1>1, <1>3, LeaveType DEF IInv, TypeOK, WriteContents
<1>5. /\ \A t \in Slots : place(t)' = name(t)' \/ who(t)' = Anonymous
      /\ \A t \in Slots : name(t)' \notin raced' => Seen(t)'
  BY <1>1, OthersSeen DEF WriteContents
<1>6. n \in raced \/ author \in Guests \/ owner[n] = author
  <2>1. CASE n = name(s)
    BY <1>1, <2>1, MembersOwn DEF IInv, Seen, Guests
  <2>2. CASE n # name(s)
    BY <2>2 DEF Guests
  <2> QED BY <2>1, <2>2
<1>7. ContentsBelongToOwner'
  <2> SUFFICES ASSUME NEW m \in Names, m \notin raced \cup reused, owner[m] # NoOwner
               PROVE  contents'[m] \subseteq {owner[m]} \cup Guests
    BY <1>1 DEF ContentsBelongToOwner
  <2>1. contents[m] \subseteq {owner[m]} \cup Guests
    BY DEF IInv, ContentsBelongToOwner
  <2> QED BY <1>3, <1>6, <2>1
<1>8. PersonalContentsStay'
  <2> SUFFICES ASSUME NEW m \in Names, m \notin raced \cup Admins, m \in contents'[m]
               PROVE  owner[m] = m
    BY <1>1 DEF PersonalContentsStay
  <2>1. CASE m \in contents[m]
    BY <2>1 DEF IInv, PersonalContentsStay
  <2>2. CASE m \notin contents[m]
    <3>1. m = n /\ m = author
      BY <1>3, <2>2
    <3> QED BY <1>6, <3>1, CallerAssumption DEF Guests
  <2> QED BY <2>1, <2>2
<1> QED BY <1>4, <1>5, <1>7, <1>8 DEF IInv

\* A record that is deleted as a memory is among the raced.
LEMMA DeleteRecordStep ==
  ASSUME IInv, NEW s \in Slots, DeleteRecord(s)
  PROVE  IInv'
<1> DEFINE n == place(s)
<1>1. /\ n \in Names
      /\ owner \in [Names -> Callers \cup {NoOwner}]
      /\ owner' = [owner EXCEPT ![n] = NoOwner] /\ contents' = contents
      /\ raced' = raced \cup {n} /\ reused' = reused \ raced'
  BY DEF IInv, TypeOK, DeleteRecord, place
<1>2. TypeOK'
  BY <1>1, LeaveType DEF IInv, TypeOK, DeleteRecord
<1>3. /\ \A t \in Slots : place(t)' = name(t)' \/ who(t)' = Anonymous
      /\ \A t \in Slots : name(t)' \notin raced' => Seen(t)'
  BY <1>1, OthersSeen DEF DeleteRecord
<1>4. ContentsBelongToOwner' /\ PersonalContentsStay'
  BY <1>1 DEF IInv, ContentsBelongToOwner, PersonalContentsStay
<1> QED BY <1>2, <1>3, <1>4 DEF IInv

\* Every request, through whichever door, begins with what it has seen.
LEMMA DoorStep ==
  ASSUME IInv, NEW s \in Slots, REST(s) \/ MCP(s) \/ WebUI(s)
  PROVE  IInv'
<1>1. Console \in Callers /\ Anonymous \in Callers
  BY CallerAssumption
<1>0. ASSUME NEW i \in Callers, NEW n \in Names PROVE n \in Places(i, n)
  BY DEF Places
<1>2. ASSUME NEW i \in Callers \cap Names, SignIn(s, i) PROVE IInv'
  BY <1>0, <1>2, BeginStep DEF SignIn, Begin, Steps
<1>3. ASSUME NEW i \in Callers, NEW n \in Names, Create(s, i, n) PROVE IInv'
  BY <1>0, <1>3, BeginStep DEF Create, Begin, Steps
<1>4. ASSUME NEW i \in Callers, NEW n \in Names, Delete(s, i, n) PROVE IInv'
  BY <1>0, <1>4, BeginStep DEF Delete, Begin, Steps
<1>5. ASSUME NEW i \in Callers, NEW n \in Names, Write(s, i, n) PROVE IInv'
  BY <1>5, BeginStep, WritersRead DEF Write, Steps
<1>6. ASSUME NEW i \in Callers, NEW n \in Names, Read(s, i, n) PROVE IInv'
  BY <1>6, BeginStep DEF Read, Steps
<1>7. CASE REST(s)
  BY <1>2, <1>3, <1>4, <1>5, <1>6, <1>7 DEF REST, StoreHandler, MemoryHandler
<1>8. CASE MCP(s)
  BY <1>1, <1>3, <1>4, <1>5, <1>6, <1>8 DEF MCP, StoreTools, MemoryTools
<1>9. CASE WebUI(s)
  BY <1>1, <1>4, <1>9 DEF WebUI
<1> QED BY <1>7, <1>8, <1>9

\* No step breaks the invariant.
LEMMA IInvStep == IInv /\ [Next]_vars => IInv'
<1> SUFFICES ASSUME IInv, [Next]_vars PROVE IInv'
  OBVIOUS
<1>1. CASE UNCHANGED vars
  BY <1>1 DEF vars, IInv, TypeOK, Seen, ContentsBelongToOwner, PersonalContentsStay,
     pc, who, name, place, history, IsPersonal, RequireRead, GetMemberRole
<1>2. ASSUME NEW s \in Slots, Register(s) PROVE IInv'
  <2>1. known' \subseteq Callers
    BY <1>2 DEF Register, IInv, TypeOK, who
  <2>2. CASE Leave(s, "register")
    BY <1>2, <2>1, <2>2, QuietLeave DEF Register
  <2>3. CASE GoTo(s, "register", "exists")
    BY <1>2, <2>1, <2>3, QuietGoTo DEF Register, Steps
  <2> QED BY <1>2, <2>2, <2>3 DEF Register
<1>3. ASSUME NEW s \in Slots, Exists(s) PROVE IInv'
  <2>1. known' \subseteq Callers
    BY <1>3 DEF Exists, IInv, TypeOK
  <2>2. CASE Leave(s, "exists")
    BY <1>3, <2>1, <2>2, QuietLeave DEF Exists
  <2>3. CASE owner[name(s)] = NoOwner /\ GoTo(s, "exists", "saveStore")
    BY <1>3, <2>1, <2>3, QuietGoTo DEF Exists, Steps
  <2> QED BY <1>3, <2>2, <2>3 DEF Exists
<1>4. ASSUME NEW s \in Slots, ReadContents(s) \/ Fail(s) PROVE IInv'
  <2>1. known' \subseteq Callers
    BY <1>4 DEF ReadContents, Fail, IInv, TypeOK
  <2> QED BY <1>4, <2>1, QuietLeave DEF ReadContents, Fail
<1> QED
  BY <1>1, <1>2, <1>3, <1>4, DoorStep, SaveStoreStep, DropStoreStep, WriteContentsStep,
     DeleteRecordStep
  DEF Next

-----------------------------------------------------------------------------
\* The inductive invariant holds throughout.
THEOREM Invariance == Spec => []IInv
<1>1. Init => IInv
  BY InitIInv
<1>2. IInv /\ [Next]_vars => IInv'
  BY IInvStep
<1> QED BY <1>1, <1>2, PTL DEF Spec

\* The records, the memories and the requests keep their types.
THEOREM TypeCorrect == Spec => []TypeOK
<1>1. IInv => TypeOK
  BY DEF IInv
<1> QED BY <1>1, Invariance, PTL

\* Isolation of the stores (domain/store.go): what is in a store was written by its
\* owner or by an admin, or came in by the memory identifier of an MCP call that had
\* looked at another store, unless a request raced, the record was deleted as a memory,
\* or the store was created twice.
THEOREM Isolation == Spec => []ContentsBelongToOwner
<1>1. IInv => ContentsBelongToOwner
  BY DEF IInv
<1> QED BY <1>1, Invariance, PTL

\* No sequence of requests gives the memories of a user's personal store to another
\* owner (store/service.go: personal stores cannot be deleted), unless a request raced
\* or the record was deleted as a memory by the identifier of an MCP call.
THEOREM Privacy == Spec => []PersonalContentsStay
<1>1. IInv => PersonalContentsStay
  BY DEF IInv
<1> QED BY <1>1, Invariance, PTL

\* The check before a read (requireRead) still protects when the read happens: a caller
\* that is no admin, and whose memory identifier does not lead to another store, reads
\* only what it or an admin has written or what came in by the identifier of an MCP call,
\* unless a request raced, the record was deleted as a memory or the store was created twice.
THEOREM OwnReading == Spec => ReadersSeeTheirOwn
<1>1. ASSUME IInv, [Next]_vars, NEW s \in Slots, ReadContents(s),
             place(s) = name(s), name(s) \notin raced \cup reused, who(s) \notin Admins
      PROVE  contents[name(s)] \subseteq {who(s)} \cup Guests
  <2>1. name(s) \in Names /\ who(s) \in Callers /\ pc(s) = "read"
    BY <1>1 DEF IInv, TypeOK, ReadContents, Leave, name, who
  <2>2. owner[name(s)] = who(s)
    BY <1>1, <2>1, MembersOwn DEF IInv, Seen
  <2>3. who(s) # NoOwner
    BY <2>1, CallerAssumption
  <2> QED BY <1>1, <2>1, <2>2, <2>3 DEF IInv, ContentsBelongToOwner
<1>2. IInv /\ [Next]_vars =>
        [\A s \in Slots : LET n == name(s) IN
           ReadContents(s) /\ place(s) = n /\ n \notin raced \cup reused /\ who(s) \notin Admins =>
             contents[n] \subseteq {who(s)} \cup Guests]_vars
  BY <1>1
<1> QED BY <1>2, Invariance, PTL DEF ReadersSeeTheirOwn, Spec
=============================================================================
