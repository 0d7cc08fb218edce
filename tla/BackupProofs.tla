----------------------------- MODULE BackupProofs -----------------------------
(***************************************************************************)
(* For any directory, number of backups, writers and faults: what a backup *)
(* that was alone reports, success or an error, is so.                     *)
(***************************************************************************)
EXTENDS Backup, FiniteSetTheorems, WellFoundedInduction, TLAPS

\* A writer that is under way has the file it is to write.
Writing ==
  \A w \in Writers : /\ wpc[w] = "rename" => doc[w] \in Docs
                     /\ wpc[w] = "fill" => doc[w] \in Gobs

\* A backup that does not overlap another is the only one.
Alone == \A r \in Active \ overlap : Active = {r}

\* What one backup staged is gone when it returns.
Quiet == \A r \in Runs : pc[r] = "idle" => staged[r] = Empty

\* There is something to commit until it is committed: signing in has written the registry.
Renewal(r) == pc[r] # "push" => files[Registry] # head[Registry]

\* Files that were not touched are still there, in the bucket or to be uploaded.
Uploading(r) ==
  pc[r] \in {"upload", "put"} =>
    /\ \A p \in (Docs \cup Gobs) \ touched[r] :
         files[p] = Absent \/ p \in todo[r] \/ bucket[p] = files[p]
    /\ \A p \in todo[r] \ touched[r] : files[p] # Absent
    /\ pc[r] = "put" =>
         todo[r] # {} /\ (First(todo[r]) \notin touched[r] => copy[r] = files[First(todo[r])])

\* Files that were not touched are in the tree that is made, or are to be staged.
Staging(r) ==
  \A p \in Paths \ touched[r] :
    /\ pc[r] = "stage" => IF p \in todo[r] THEN staged[r][p] # files[p]
                                           ELSE staged[r][p] = files[p]
    /\ pc[r] = "commit" => index[p] = files[p]
    /\ pc[r] = "push" => head[p] = files[p]

\* What a backup that is alone has done so far.
Progress(r) == Renewal(r) /\ Uploading(r) /\ Staging(r)

\* The inductive invariant.
BackupInv ==
  /\ TypeOK /\ Writing /\ Alone /\ Quiet
  /\ \A r \in Active \ overlap : Progress(r)

\* The first path of a set is in it.
LEMMA FirstIsThere ==
  ASSUME NEW S \in SUBSET Paths, S # {}
  PROVE  First(S) \in S
<1> DEFINE T  == {i \in DOMAIN Walk : Walk[i] \in S}
           TT == {1 .. i : i \in T}
<1>1. PICK k \in Nat : DOMAIN Walk = 1 .. k
  BY WalkAssumption
<1>2. T \subseteq 1 .. k /\ T # {}
  BY <1>1, WalkAssumption DEF Range
<1>3. TT \subseteq SUBSET (1 .. k) /\ TT # {}
  BY <1>2
<1>4. IsFiniteSet(1 .. k)
  BY FS_Interval
<1>5. IsWellFoundedOn(StrictSubsetOrdering(1 .. k), SUBSET (1 .. k))
  BY <1>4, FS_StrictSubsetOrderingWellFounded, FS_FiniteSubsetsOfFinite
<1>6. PICK A \in TT : \A B \in TT : <<B, A>> \notin StrictSubsetOrdering(1 .. k)
  <2> HIDE DEF TT
  <2> QED
    BY <1>3, <1>5, WFMin
<1>7. PICK i \in T : A = 1 .. i
  BY <1>6
<1>8. \A j \in T : ~ (j < i)
  <2> SUFFICES ASSUME NEW j \in T, j < i PROVE FALSE
    OBVIOUS
  <2>1. 1 .. j \subseteq 1 .. i /\ i \in 1 .. i /\ i \notin 1 .. j
    BY <1>2
  <2>2. <<1 .. j, 1 .. i>> \in StrictSubsetOrdering(1 .. k)
    BY <1>2, <2>1 DEF StrictSubsetOrdering
  <2> QED
    BY <1>6, <1>7, <2>2
<1>9. i \in DOMAIN Walk /\ Walk[i] \in S /\ \A j \in 1 .. i - 1 : Walk[j] \notin S
  BY <1>1, <1>2, <1>8
<1> QED
  BY <1>9 DEF First

\* A step of a backup is its own only, if it is alone.
LEMMA OwnStep ==
  ASSUME BackupInv, NEW r \in Active, NEW q, pc' = [pc EXCEPT ![r] = q],
         (q # "idle" /\ overlap' = overlap) \/ (q = "idle" /\ overlap' = overlap \ {r})
  PROVE  Alone' /\ \A x \in (Active \ overlap)' : x = r /\ r \notin overlap /\ q # "idle"
<1>1. DOMAIN pc = Runs /\ r \in Runs
  BY DEF BackupInv, TypeOK, Active
<1>2. Active' = IF q = "idle" THEN Active \ {r} ELSE Active
  BY <1>1 DEF Active
<1>3. \A x \in Active \ overlap : x = r
  BY DEF BackupInv, Alone
<1> QED
  BY <1>2, <1>3 DEF BackupInv, Alone

\* Nothing has been backed up, and no one is at it.
LEMMA BackupStart == Init => BackupInv
<1> SUFFICES ASSUME Init PROVE BackupInv
  OBVIOUS
<1>1. Versions[1] \in Range(Versions)
  BY VersionAssumption, FS_CardinalityType DEF Range
<1>2. Empty \in [Paths -> Contents \cup {Absent}]
  BY DEF Empty
<1>3. TypeOK
  BY <1>1, <1>2, FaultAssumption DEF Init, TypeOK, Contents, Paths, Kept
<1>4. Writing /\ Alone /\ Quiet /\ Active = {}
  BY DEF Init, Writing, Alone, Quiet, Active
<1> QED
  BY <1>3, <1>4 DEF BackupInv

\* Writers: what a backup has to do with the files that they change is over.
LEMMA WriterFrame ==
  ASSUME BackupInv, NEW S \in SUBSET Paths, Registry \notin S,
         \A p \in Paths \ S : files'[p] = files[p],
         Touch(S), UNCHANGED <<trees, pc, locals, overlap>>
  PROVE  Alone' /\ Quiet' /\ \A r \in (Active \ overlap)' : Progress(r)'
<1>1. Active' = Active /\ Alone' /\ Quiet'
  BY DEF BackupInv, Active, Alone, Quiet, locals
<1>2. ASSUME NEW r \in Active \ overlap PROVE Progress(r)'
  <2>1. /\ r \in Runs /\ Progress(r) /\ todo[r] \subseteq Paths
        /\ touched'[r] = touched[r] \cup S
    BY <1>2 DEF BackupInv, Touch, Active, TypeOK
  <2>2. Registry \in Paths /\ Docs \cup Gobs \subseteq Paths
    BY DEF Paths, Kept
  <2>3. UNCHANGED <<bucket, index, head, remote, pc, todo, copy, staged>>
    BY DEF trees, locals
  <2>4. Renewal(r)'
    BY <2>1, <2>2, <2>3 DEF Progress, Renewal
  <2>5. Uploading(r)'
    <3>1. First(todo[r]) \in todo[r] \/ todo[r] = {}
      BY <2>1, FirstIsThere
    <3>2. ASSUME pc[r] = "put", First(todo[r]) \notin touched'[r] PROVE copy[r] = files'[First(todo[r])]
      BY <2>1, <2>2, <3>1, <3>2 DEF Progress, Uploading
    <3> QED
      BY <2>1, <2>2, <2>3, <3>2 DEF Progress, Uploading
  <2>6. Staging(r)'
    BY <2>1, <2>3 DEF Progress, Staging
  <2> QED
    BY <2>4, <2>5, <2>6 DEF Progress
<1> QED
  BY <1>1, <1>2

\* Each step of a writer.
LEMMA WriteStep ==
  ASSUME BackupInv, NEW w \in Writers, Write(w)
  PROVE  BackupInv'
<1>0. /\ files \in [Paths -> Contents \cup {Absent}] /\ doc \in [Writers -> Kept]
      /\ wpc \in [Writers -> {"idle", "rename", "fill", "done"}]
      /\ touched \in [Runs -> SUBSET Paths]
  BY DEF BackupInv, TypeOK
<1>1. /\ Docs \subseteq Paths \ {Registry} /\ Gobs \subseteq Paths \ {Registry}
      /\ Docs \subseteq Kept /\ Gobs \subseteq Kept /\ Registry \in Kept
      /\ w \in Paths \ {Registry} /\ w \in Contents /\ Torn \in Contents
  BY PathAssumption DEF Paths, Kept, Contents
<1>2. /\ \A S \in SUBSET Paths : Touch(S) => touched' \in [Runs -> SUBSET Paths]
      /\ \A S \in SUBSET Paths, c \in Contents \cup {Absent} :
           Put(S, c) => /\ files' \in [Paths -> Contents \cup {Absent}]
                        /\ \A p \in Paths \ S : files'[p] = files[p]
  BY <1>0 DEF Touch, Put
<1>3. ASSUME NEW S \in SUBSET Paths, Registry \notin S,
             \A p \in Paths \ S : files'[p] = files[p], Touch(S),
             files' \in [Paths -> Contents \cup {Absent}],
             UNCHANGED <<trees, pc, locals, overlap>>,
             faults' \in 0 .. MaxFaults,
             wpc' \in [Writers -> {"idle", "rename", "fill", "done"}],
             doc' \in [Writers -> Kept], Writing'
      PROVE  BackupInv'
  <2>1. Alone' /\ Quiet' /\ \A r \in (Active \ overlap)' : Progress(r)'
    BY <1>3, WriterFrame
  <2>2. TypeOK'
    BY <1>2, <1>3 DEF BackupInv, TypeOK, trees, locals
  <2> QED
    BY <1>3, <2>1, <2>2 DEF BackupInv
<1>4. ASSUME NEW d \in Docs, CreateTemp(w, d) PROVE BackupInv'
  <2>1. Writing'
    BY <1>0, <1>4 DEF CreateTemp, WGoTo, BackupInv, Writing
  <2>2. wpc' \in [Writers -> {"idle", "rename", "fill", "done"}] /\ doc' \in [Writers -> Kept]
    BY <1>0, <1>1, <1>4 DEF CreateTemp, WGoTo
  <2>3. faults' \in 0 .. MaxFaults
    BY <1>4 DEF CreateTemp, BackupInv, TypeOK
  <2> QED
    BY <1>1, <1>2, <1>3, <1>4, <2>1, <2>2, <2>3 DEF CreateTemp
<1>5. ASSUME NEW d \in Docs, Remove(w, d) PROVE BackupInv'
  <2>1. Writing'
    BY <1>0, <1>5 DEF Remove, WGoTo, BackupInv, Writing
  <2>2. wpc' \in [Writers -> {"idle", "rename", "fill", "done"}] /\ doc' \in [Writers -> Kept]
    BY <1>0, <1>1, <1>5 DEF Remove, WGoTo
  <2>3. faults' \in 0 .. MaxFaults
    BY <1>5 DEF Remove, BackupInv, TypeOK
  <2> QED
    BY <1>1, <1>2, <1>3, <1>5, <2>1, <2>2, <2>3 DEF Remove
<1>6. ASSUME NEW g \in Gobs, Truncate(w, g) PROVE BackupInv'
  <2>1. Writing'
    BY <1>0, <1>6 DEF Truncate, WGoTo, BackupInv, Writing
  <2>2. wpc' \in [Writers -> {"idle", "rename", "fill", "done"}] /\ doc' \in [Writers -> Kept]
    BY <1>0, <1>1, <1>6 DEF Truncate, WGoTo
  <2>3. faults' \in 0 .. MaxFaults
    BY <1>6 DEF Truncate, BackupInv, TypeOK
  <2> QED
    BY <1>1, <1>2, <1>3, <1>6, <2>1, <2>2, <2>3 DEF Truncate
<1>7. CASE Rename(w)
  <2>1. Writing' /\ doc[w] \in Docs
    BY <1>0, <1>7 DEF Rename, WGoTo, BackupInv, Writing
  <2>2. wpc' \in [Writers -> {"idle", "rename", "fill", "done"}] /\ doc' \in [Writers -> Kept]
    BY <1>0, <1>1, <1>7 DEF Rename, WGoTo
  <2>3. faults' \in 0 .. MaxFaults
    BY <1>7 DEF Rename, BackupInv, TypeOK
  <2>4. /\ files' \in [Paths -> Contents \cup {Absent}]
        /\ \A p \in Paths \ {w, doc[w]} : files'[p] = files[p]
    BY <1>0, <1>1, <1>7 DEF Rename
  <2> QED
    BY <1>1, <1>3, <1>7, <2>1, <2>2, <2>3, <2>4 DEF Rename
<1>8. CASE Fill(w)
  <2>1. Writing' /\ doc[w] \in Gobs
    BY <1>0, <1>8 DEF Fill, WGoTo, BackupInv, Writing
  <2>2. wpc' \in [Writers -> {"idle", "rename", "fill", "done"}] /\ doc' \in [Writers -> Kept]
    BY <1>0, <1>1, <1>8 DEF Fill, WGoTo
  <2>3. faults' \in 0 .. MaxFaults
    BY <1>8 DEF Fill, BackupInv, TypeOK
  <2>4. /\ files' \in [Paths -> Contents \cup {Absent}]
        /\ \A p \in Paths \ {doc[w]} : files'[p] = files[p]
    BY <1>1, <1>2, <1>8, <2>1 DEF Fill
  <2> QED
    BY <1>1, <1>3, <1>8, <2>1, <2>2, <2>3, <2>4 DEF Fill
<1>9. CASE WriteFails(w)
  <2>1. Writing'
    BY <1>0, <1>9 DEF WriteFails, BackupInv, Writing
  <2>2. wpc' \in [Writers -> {"idle", "rename", "fill", "done"}] /\ doc' \in [Writers -> Kept]
    BY <1>0, <1>1, <1>9 DEF WriteFails
  <2>3. faults' \in 0 .. MaxFaults
    BY <1>9, FaultAssumption DEF WriteFails, Fault, BackupInv, TypeOK
  <2>4. CASE wpc[w] = "rename"
    BY <1>1, <1>2, <1>3, <1>9, <2>1, <2>2, <2>3, <2>4 DEF WriteFails
  <2>5. CASE wpc[w] # "rename"
    <3>1. UNCHANGED <<files, touched, trees, pc, locals, overlap>>
      BY <1>9, <2>5 DEF WriteFails
    <3>2. UNCHANGED <<bucket, index, head, remote, pc, todo, copy, staged, files, touched, overlap>>
      BY <3>1 DEF trees, locals
    <3>3. TypeOK'
      BY <2>2, <2>3, <3>2 DEF BackupInv, TypeOK
    <3>4. Alone' /\ Quiet' /\ \A r \in (Active \ overlap)' : Progress(r)'
      BY <3>2 DEF BackupInv, Alone, Quiet, Active, Progress, Renewal, Uploading, Staging
    <3> QED
      BY <2>1, <3>3, <3>4 DEF BackupInv
  <2> QED
    BY <2>4, <2>5
<1> QED
  BY <1>4, <1>5, <1>6, <1>7, <1>8, <1>9 DEF Write

\* A set into which something is put has at most one member more.
LEMMA OneMore ==
  ASSUME NEW S, IsFiniteSet(S), NEW x
  PROVE  /\ IsFiniteSet(S \cup {x}) /\ Cardinality(S \cup {x}) \in Nat
         /\ Cardinality(S \cup {x}) <= Cardinality(S) + 1
<1>1. IsFiniteSet(S \cup {x}) /\ Cardinality(S \cup {x}) \in {Cardinality(S), Cardinality(S) + 1}
  BY FS_AddElement
<1>2. Cardinality(S) \in Nat
  BY FS_CardinalityType
<1> QED
  BY <1>1, <1>2

\* There are more versions than trees that hold one, but for that of a backup at rest.
LEMMA NeededAreFew ==
  ASSUME BackupInv, NEW r \in Runs, pc[r] = "idle"
  PROVE  /\ IsFiniteSet(Needed) /\ Cardinality(Needed) \in Nat
         /\ Cardinality(Needed) + 1 <= Len(Versions)
         /\ Len(Versions) \in Nat /\ DOMAIN Versions = 1 .. Len(Versions)
<1> DEFINE of == [x \in Runs \ {r} |-> staged[x][Registry]]
           H == {of[x] : x \in Runs \ {r}}
           A == H \cup {files[Registry]}
           B == A \cup {index[Registry]}
           C == B \cup {head[Registry]}
<1>1. IsFiniteSet(Runs) /\ Cardinality(Runs) \in Nat /\ Len(Versions) \in Nat
      /\ Len(Versions) >= Cardinality(Runs) + 3 /\ DOMAIN Versions = 1 .. Len(Versions)
  BY VersionAssumption, FS_CardinalityType
<1>2. IsFiniteSet(Runs \ {r}) /\ Cardinality(Runs \ {r}) = Cardinality(Runs) - 1
  BY <1>1, FS_RemoveElement
<1>3. IsFiniteSet(H) /\ Cardinality(H) <= Cardinality(Runs) - 1 /\ Cardinality(H) \in Nat
  <2>1. of \in Surjection(Runs \ {r}, H)
    BY DEF Surjection
  <2> QED
    BY <1>1, <1>2, <2>1, FS_Surjection, FS_CardinalityType
<1>4. IsFiniteSet(A) /\ Cardinality(A) <= Cardinality(H) + 1 /\ Cardinality(A) \in Nat
  <2> HIDE DEF H
  <2> QED
    BY <1>3, OneMore
<1>5. IsFiniteSet(B) /\ Cardinality(B) <= Cardinality(A) + 1 /\ Cardinality(B) \in Nat
  <2> HIDE DEF A
  <2> QED
    BY <1>4, OneMore
<1>6. IsFiniteSet(C) /\ Cardinality(C) <= Cardinality(B) + 1 /\ Cardinality(C) \in Nat
  <2> HIDE DEF B
  <2> QED
    BY <1>5, OneMore
<1>7. Needed \subseteq C
  <2> SUFFICES ASSUME NEW v \in Needed PROVE v \in C
    OBVIOUS
  <2>1. PICK f \in {files, index, head} \cup Range(staged) : v = f[Registry] /\ v \in Range(Versions)
    BY DEF Needed
  <2>2. CASE f \in {files, index, head}
    BY <2>1, <2>2
  <2>3. CASE f \in Range(staged)
    <3>1. PICK x \in Runs : f = staged[x]
      BY <2>3 DEF Range, BackupInv, TypeOK
    <3>2. Registry \in Paths /\ Absent \notin Range(Versions)
      BY ContentAssumption DEF Paths, Kept
    <3>3. x # r
      BY <2>1, <3>1, <3>2 DEF BackupInv, Quiet, Empty
    <3>4. of[x] = v
      BY <2>1, <3>1, <3>3
    <3> QED
      BY <3>3, <3>4
  <2> QED
    BY <2>2, <2>3
<1>8. IsFiniteSet(Needed) /\ Cardinality(Needed) <= Cardinality(C) /\ Cardinality(Needed) \in Nat
  <2> HIDE DEF C
  <2> QED
    BY <1>6, <1>7, FS_Subset, FS_CardinalityType
<1> HIDE DEF of, H, A, B, C
<1> QED
  BY <1>1, <1>3, <1>4, <1>5, <1>6, <1>8

\* When the registry is written, no other tree keeps the newest version.
LEMMA RenewedIsOlder ==
  ASSUME BackupInv, NEW r \in Runs, pc[r] = "idle",
         NEW f \in [Paths -> Contents \cup {Absent}]
  PROVE  /\ Renewed(f) \in [Paths -> Contents \cup {Absent}]
         /\ Renewed(f)[Registry] # Versions[1] \/ f[Registry] \in Range(Versions) \ Needed
         /\ f = Empty => Renewed(f) = Empty
<1>1. /\ IsFiniteSet(Needed) /\ Cardinality(Needed) \in Nat
      /\ Cardinality(Needed) + 1 <= Len(Versions)
      /\ Len(Versions) \in Nat /\ DOMAIN Versions = 1 .. Len(Versions)
  BY NeededAreFew
<1>2. Registry \in Paths /\ Absent \notin Range(Versions)
  BY ContentAssumption DEF Paths, Kept
<1>3. Versions[1] \in Range(Versions)
  BY <1>1 DEF Range
<1>4. CASE f[Registry] \in Needed
  <2> DEFINE v0 == f[Registry]
             U == {v \in Needed : Rank(v) <= Rank(v0)}
             n == 1 + Cardinality(U)
  <2>1. Rank(v0) \in Nat
    <3>1. \E i \in DOMAIN Versions : Versions[i] = v0
      BY <1>4 DEF Needed, Range
    <3> QED
      BY <1>1, <3>1 DEF Rank
  <2>2. v0 \in U /\ U \subseteq Needed
    BY <1>4, <2>1
  <2>3. IsFiniteSet(U) /\ Cardinality(U) <= Cardinality(Needed) /\ Cardinality(U) \in Nat
        /\ Cardinality(U) # 0
    <3> HIDE DEF U
    <3> QED
      BY <1>1, <2>2, FS_Subset, FS_CardinalityType, FS_EmptySet
  <2>4. n \in DOMAIN Versions /\ n # 1 /\ 1 \in DOMAIN Versions
    BY <1>1, <2>3
  <2>5. Versions[n] # Versions[1] /\ Versions[n] \in Contents
    BY <2>4, VersionAssumption DEF IsInjective, Contents, Range
  <2>6. Renewed(f) = [f EXCEPT ![Registry] = Versions[n]]
    BY <1>4 DEF Renewed
  <2> HIDE DEF n
  <2>7. f # Empty
    BY <1>2, <1>4 DEF Empty, Needed
  <2> QED
    BY <1>2, <2>5, <2>6, <2>7
<1>5. CASE f[Registry] \notin Needed
  <2>1. Renewed(f) = f
    BY <1>5 DEF Renewed
  <2> QED
    BY <1>3, <1>5, <2>1
<1> QED
  BY <1>4, <1>5

\* Signing in: a backup that is not alone from its beginning to its end counts as such.
LEMMA SignInStep ==
  ASSUME BackupInv, NEW r \in Runs, SignIn(r)
  PROVE  BackupInv'
<1>0. /\ TypeOK /\ Writing /\ Alone /\ Quiet /\ pc[r] = "idle"
      /\ pc' = [pc EXCEPT ![r] = "walk"]
  BY DEF BackupInv, SignIn, GoTo
<1>1. Registry \in Paths /\ Versions[1] \in Range(Versions) /\ Registry \notin Docs \cup Gobs
  <2>1. 1 \in DOMAIN Versions
    BY <1>0, NeededAreFew
  <2> QED
    BY <2>1, PathAssumption DEF Paths, Kept, Range
<1>2. /\ index' \in [Paths -> Contents \cup {Absent}] /\ head' \in [Paths -> Contents \cup {Absent}]
      /\ staged' \in [Runs -> [Paths -> Contents \cup {Absent}]]
      /\ \A x \in Runs : staged[x] = Empty => staged'[x] = Empty
  BY <1>0, RenewedIsOlder DEF SignIn, TypeOK
<1>3. /\ remote' \in [Paths -> Contents \cup {Absent}] /\ files' \in [Paths -> Contents \cup {Absent}]
      /\ copy' \in [Runs -> Contents \cup {Absent}]
      /\ \A x \in Runs : copy'[x] # Absent <=> copy[x] # Absent
      /\ touched' \in [Runs -> SUBSET Paths] /\ overlap' \subseteq Runs
  <2>1. "old" \in Contents /\ Versions[1] \in Contents /\ "old" # Absent
    BY <1>1, ContentAssumption DEF Contents
  <2>2. Absent \notin Range(Versions)
    BY ContentAssumption
  <2>3. remote' \in [Paths -> Contents \cup {Absent}] /\ files' \in [Paths -> Contents \cup {Absent}]
    BY <1>0, <2>1 DEF SignIn, Aged, TypeOK
  <2>4. copy' \in [Runs -> Contents \cup {Absent}]
    BY <1>0, <2>1 DEF SignIn, TypeOK
  <2>5. \A x \in Runs : copy'[x] # Absent <=> copy[x] # Absent
    BY <1>0, <2>1, <2>2 DEF SignIn, TypeOK
  <2>6. touched' \in [Runs -> SUBSET Paths] /\ overlap' \subseteq Runs
    BY <1>0 DEF SignIn, TypeOK, Active
  <2> QED
    BY <2>3, <2>4, <2>5, <2>6
<1>4. TypeOK'
  <2>1. UNCHANGED <<wpc, doc, bucket, todo, faults>>
    BY DEF SignIn
  <2>2. \A x \in Runs : copy'[x] # Absent <=> pc'[x] = "put"
    BY <1>0, <1>3 DEF TypeOK
  <2>3. pc' \in [Runs -> {"idle", "walk", "upload", "put", "status", "stage", "commit", "push"}]
    BY <1>0 DEF TypeOK
  <2> QED
    BY <1>0, <1>2, <1>3, <2>1, <2>2, <2>3 DEF TypeOK
<1>5. Writing'
  BY <1>0 DEF SignIn, Writing
<1>6. Quiet'
  BY <1>0, <1>2 DEF Quiet, TypeOK
<1>7. Active' = Active \cup {r}
  BY <1>0 DEF Active, TypeOK
<1>8. \A x \in Active' \ overlap' : Active = {} /\ x = r
  BY <1>7 DEF SignIn
<1>9. Alone'
  BY <1>7, <1>8 DEF Alone
<1>10. Progress(r)'
  <2>1. pc'[r] = "walk" /\ files'[Registry] = Versions[1] /\ head' = Renewed(head)
    BY <1>0, <1>1 DEF SignIn, TypeOK
  <2>2. head'[Registry] # Versions[1]
    <3>1. head[Registry] \in Range(Versions) => head[Registry] \in Needed
      BY DEF Needed
    <3> QED
      BY <1>0, <2>1, <3>1, RenewedIsOlder DEF TypeOK
  <2> QED
    BY <2>1, <2>2 DEF Progress, Renewal, Uploading, Staging
<1> QED
  BY <1>4, <1>5, <1>6, <1>8, <1>9, <1>10 DEF BackupInv

\* What the steps of a backup leave alone, and when they keep the invariant.
LEMMA RunStepRule ==
  ASSUME BackupInv, NEW r \in Active, NEW q, pc' = [pc EXCEPT ![r] = q],
         (q # "idle" /\ overlap' = overlap) \/ (q = "idle" /\ overlap' = overlap \ {r}),
         UNCHANGED <<wpc, doc>>, TypeOK', Quiet',
         r \notin overlap /\ q # "idle" => Progress(r)'
  PROVE  BackupInv'
<1>1. Alone' /\ \A x \in (Active \ overlap)' : x = r /\ r \notin overlap /\ q # "idle"
  BY OwnStep
<1>2. Writing'
  BY DEF BackupInv, Writing
<1>3. \A x \in (Active \ overlap)' : Progress(x)'
  BY <1>1
<1> QED
  BY <1>1, <1>2, <1>3 DEF BackupInv

\* The walk begins: every file that is there is still to be uploaded.
LEMMA ListStep ==
  ASSUME BackupInv, NEW r \in Runs, List(r)
  PROVE  BackupInv'
<1>1. r \in Active /\ TypeOK /\ Quiet /\ (r \notin overlap => Progress(r)) /\ pc[r] = "walk"
  BY DEF List, GoTo, Active, BackupInv
<1>2. TypeOK'
  BY <1>1 DEF List, GoTo, trees, TypeOK
<1>3. Quiet'
  BY <1>1 DEF List, GoTo, Quiet, TypeOK
<1>4. ASSUME r \notin overlap PROVE Progress(r)'
  <2>1. Renewal(r)'
    BY <1>1, <1>4 DEF List, trees, Progress, Renewal
  <2>2. pc'[r] = "upload" /\ todo'[r] = {p \in Paths : files[p] # Absent} /\ files' = files
    BY <1>1 DEF List, GoTo, trees, TypeOK
  <2>3. Uploading(r)'
    BY <2>2 DEF Uploading, Paths, Kept
  <2>4. Staging(r)'
    BY <2>2 DEF Staging
  <2> QED
    BY <2>1, <2>3, <2>4 DEF Progress
<1>5. pc' = [pc EXCEPT ![r] = "upload"] /\ UNCHANGED <<wpc, doc, overlap>>
  BY DEF List, GoTo
<1> QED
  BY <1>1, <1>2, <1>3, <1>4, <1>5, RunStepRule

\* A file is opened as it is now.
LEMMA OpenStep ==
  ASSUME BackupInv, NEW r \in Runs, Open(r)
  PROVE  BackupInv'
<1> DEFINE p == First(todo[r])
<1>1. r \in Active /\ TypeOK /\ Quiet /\ (r \notin overlap => Progress(r)) /\ pc[r] = "upload"
  BY DEF Open, GoTo, Active, BackupInv
<1>2. p \in todo[r] /\ p \in Paths
  BY <1>1, FirstIsThere DEF Open, TypeOK
<1> HIDE DEF p
<1>3. /\ pc' = [pc EXCEPT ![r] = "put"] /\ copy' = [copy EXCEPT ![r] = files[p]]
      /\ files[p] # Absent
      /\ UNCHANGED <<files, wpc, doc, bucket, index, head, remote, todo, staged, faults, touched, overlap>>
  BY DEF Open, GoTo, p, trees, history
<1>4. TypeOK'
  <2>1. files[p] \in Contents \cup {Absent}
    BY <1>1, <1>2 DEF TypeOK
  <2> QED
    BY <1>1, <1>3, <2>1 DEF TypeOK
<1>5. Quiet'
  BY <1>1, <1>3 DEF Quiet, TypeOK
<1>6. ASSUME r \notin overlap PROVE Progress(r)'
  <2>1. pc'[r] = "put" /\ copy'[r] = files[p] /\ p = First(todo[r])
    BY <1>1, <1>3 DEF TypeOK, p
  <2>2. Renewal(r)' /\ Staging(r)'
    BY <1>1, <1>3, <1>6, <2>1 DEF Progress, Renewal, Staging
  <2>3. Uploading(r)'
    BY <1>1, <1>2, <1>3, <1>6, <2>1 DEF Progress, Uploading
  <2> QED
    BY <2>2, <2>3 DEF Progress
<1> QED
  BY <1>1, <1>3, <1>4, <1>5, <1>6, RunStepRule

\* What was opened is in the bucket; a file that changed meanwhile was touched.
LEMMA PutObjectStep ==
  ASSUME BackupInv, NEW r \in Runs, PutObject(r)
  PROVE  BackupInv'
<1> DEFINE p == First(todo[r])
           c == IF p \in Gobs THEN files[p] ELSE copy[r]
<1>1. r \in Active /\ TypeOK /\ Quiet /\ (r \notin overlap => Progress(r)) /\ pc[r] = "put"
  BY DEF PutObject, GoTo, Active, BackupInv
<1>2. c \in Contents \cup {Absent}
  BY <1>1 DEF TypeOK, Paths, Kept
<1>3. ASSUME r \notin overlap, p \notin touched[r] PROVE c = files[p]
  BY <1>1, <1>3 DEF Progress, Uploading
<1> HIDE DEF p, c
<1>4. /\ pc' = [pc EXCEPT ![r] = "upload"] /\ copy' = [copy EXCEPT ![r] = Absent]
      /\ bucket' = [q \in Docs \cup Gobs |-> IF q = p THEN c ELSE bucket[q]]
      /\ todo' = [todo EXCEPT ![r] = @ \ {p}]
      /\ UNCHANGED <<files, wpc, doc, index, head, remote, staged, faults, touched, overlap>>
  BY DEF PutObject, GoTo, p, c, history
<1>5. TypeOK'
  BY <1>1, <1>2, <1>4 DEF TypeOK
<1>6. Quiet'
  BY <1>1, <1>4 DEF Quiet, TypeOK
<1>7. ASSUME r \notin overlap PROVE Progress(r)'
  <2>1. pc'[r] = "upload" /\ todo'[r] = todo[r] \ {p}
    BY <1>1, <1>4 DEF TypeOK
  <2>2. Renewal(r)' /\ Staging(r)'
    BY <1>1, <1>4, <1>7, <2>1 DEF Progress, Renewal, Staging
  <2>3. Uploading(r)'
    BY <1>1, <1>3, <1>4, <1>7, <2>1 DEF Progress, Uploading
  <2> QED
    BY <2>2, <2>3 DEF Progress
<1> QED
  BY <1>1, <1>4, <1>5, <1>6, <1>7, RunStepRule

\* The upload is over and git begins.
LEMMA EndS3Step ==
  ASSUME BackupInv, NEW r \in Runs, pc[r] \in {"upload", "put"}, EndS3(r)
  PROVE  BackupInv'
<1>1. r \in Active /\ TypeOK /\ Quiet /\ (r \notin overlap => Progress(r))
  BY DEF Active, BackupInv
<1>2. TypeOK'
  BY <1>1 DEF EndS3, trees, TypeOK
<1>3. Quiet'
  BY <1>1 DEF EndS3, Quiet, TypeOK
<1>4. ASSUME r \notin overlap PROVE Progress(r)'
  <2>1. pc'[r] = "status"
    BY <1>1 DEF EndS3, TypeOK
  <2> QED
    BY <1>1, <1>4, <2>1 DEF EndS3, trees, Progress, Renewal, Uploading, Staging
<1>5. pc' = [pc EXCEPT ![r] = "status"] /\ UNCHANGED <<wpc, doc, overlap>>
  BY DEF EndS3
<1> QED
  BY <1>1, <1>2, <1>3, <1>4, <1>5, RunStepRule

\* What differs from the tree is to be staged.
LEMMA StatusStep ==
  ASSUME BackupInv, NEW r \in Runs, Status(r)
  PROVE  BackupInv'
<1> DEFINE changed == {p \in Paths : files[p] # index[p]}
           q == IF changed = {} THEN "commit" ELSE "stage"
<1>1. r \in Active /\ TypeOK /\ Quiet /\ (r \notin overlap => Progress(r)) /\ pc[r] = "status"
  BY DEF Status, GoTo, Active, BackupInv
<1>2. /\ pc' = [pc EXCEPT ![r] = q] /\ q \in {"commit", "stage"}
      /\ todo' = [todo EXCEPT ![r] = changed]
      /\ staged' = [staged EXCEPT ![r] = index]
      /\ touched' = [touched EXCEPT ![r] = {}]
      /\ UNCHANGED <<files, wpc, doc, bucket, index, head, remote, copy, faults, overlap>>
  BY DEF Status, GoTo, trees
<1>3. changed \subseteq Paths /\ (q = "commit" => \A p \in Paths : files[p] = index[p])
  OBVIOUS
<1>4. \A p \in Paths : p \in changed <=> files[p] # index[p]
  OBVIOUS
<1> HIDE DEF changed, q
<1>5. TypeOK'
  BY <1>1, <1>2, <1>3 DEF TypeOK
<1>6. Quiet'
  BY <1>1, <1>2 DEF Quiet, TypeOK
<1>7. ASSUME r \notin overlap PROVE Progress(r)'
  <2>1. pc'[r] = q /\ todo'[r] = changed /\ staged'[r] = index
    BY <1>1, <1>2 DEF TypeOK
  <2>2. Renewal(r)' /\ Uploading(r)'
    BY <1>1, <1>2, <1>7, <2>1 DEF Progress, Renewal, Uploading
  <2>3. Staging(r)'
    BY <1>2, <1>3, <1>4, <2>1 DEF Staging
  <2> QED
    BY <2>2, <2>3 DEF Progress
<1>8. q # "idle"
  BY <1>2
<1> QED
  BY <1>1, <1>2, <1>5, <1>6, <1>7, <1>8, RunStepRule

\* A file is staged as it is now.
LEMMA StageStep ==
  ASSUME BackupInv, NEW r \in Runs, Stage(r)
  PROVE  BackupInv'
<1> DEFINE p == First(todo[r])
<1>1. r \in Active /\ TypeOK /\ Quiet /\ (r \notin overlap => Progress(r)) /\ pc[r] = "stage"
  BY DEF Stage, Active, BackupInv
<1>2. p \in todo[r] /\ p \in Paths
  BY <1>1, FirstIsThere DEF Stage, TypeOK
<1> HIDE DEF p
<1>3. /\ staged' = [staged EXCEPT ![r][p] = files[p]]
      /\ todo' = [todo EXCEPT ![r] = @ \ {p}]
      /\ UNCHANGED <<files, wpc, doc, bucket, index, head, remote, pc, copy, faults, touched, overlap>>
  BY DEF Stage, p, trees, history
<1>4. TypeOK'
  BY <1>1, <1>2, <1>3 DEF TypeOK
<1>5. Quiet'
  BY <1>1, <1>3 DEF Quiet, TypeOK
<1>6. ASSUME r \notin overlap PROVE Progress(r)'
  <2>1. todo'[r] = todo[r] \ {p} /\ staged'[r] = [staged[r] EXCEPT ![p] = files[p]]
    BY <1>1, <1>3 DEF TypeOK
  <2>2. Renewal(r)' /\ Uploading(r)'
    BY <1>1, <1>3, <1>6, <2>1 DEF Progress, Renewal, Uploading
  <2>3. staged[r] \in [Paths -> Contents \cup {Absent}]
    BY <1>1 DEF TypeOK
  <2>4. Staging(r)'
    BY <1>1, <1>2, <1>3, <1>6, <2>1, <2>3 DEF Progress, Staging
  <2> QED
    BY <2>2, <2>4 DEF Progress
<1>7. pc' = [pc EXCEPT ![r] = "stage"]
  BY <1>1, <1>3 DEF TypeOK
<1> QED
  BY <1>1, <1>3, <1>4, <1>5, <1>6, <1>7, RunStepRule

\* The staged tree becomes the index of the worktree.
LEMMA SetIndexStep ==
  ASSUME BackupInv, NEW r \in Runs, SetIndex(r)
  PROVE  BackupInv'
<1>1. /\ r \in Active /\ TypeOK /\ Quiet /\ (r \notin overlap => Progress(r))
      /\ pc[r] = "stage" /\ todo[r] = {}
  BY DEF SetIndex, GoTo, Active, BackupInv
<1>2. /\ pc' = [pc EXCEPT ![r] = "commit"] /\ index' = staged[r]
      /\ UNCHANGED <<files, wpc, doc, bucket, head, remote, todo, copy, staged, faults, touched, overlap>>
  BY DEF SetIndex, GoTo, locals, history
<1>3. TypeOK'
  BY <1>1, <1>2 DEF TypeOK
<1>4. Quiet'
  BY <1>1, <1>2 DEF Quiet, TypeOK
<1>5. ASSUME r \notin overlap PROVE Progress(r)'
  <2>1. pc'[r] = "commit"
    BY <1>1, <1>2 DEF TypeOK
  <2> QED
    BY <1>1, <1>2, <1>5, <2>1 DEF Progress, Renewal, Uploading, Staging
<1> QED
  BY <1>1, <1>2, <1>3, <1>4, <1>5, RunStepRule

\* The index becomes the head.
LEMMA CommitStep ==
  ASSUME BackupInv, NEW r \in Runs, Commit(r)
  PROVE  BackupInv'
<1>1. /\ r \in Active /\ TypeOK /\ Quiet /\ (r \notin overlap => Progress(r))
      /\ pc[r] = "commit"
  BY DEF Commit, GoTo, Active, BackupInv
<1>2. /\ pc' = [pc EXCEPT ![r] = "push"] /\ head' = index
      /\ UNCHANGED <<files, wpc, doc, bucket, index, remote, todo, copy, staged, faults, touched, overlap>>
  BY DEF Commit, GoTo, locals, history
<1>3. TypeOK'
  BY <1>1, <1>2 DEF TypeOK
<1>4. Quiet'
  BY <1>1, <1>2 DEF Quiet, TypeOK
<1>5. ASSUME r \notin overlap PROVE Progress(r)'
  <2>1. pc'[r] = "push"
    BY <1>1, <1>2 DEF TypeOK
  <2> QED
    BY <1>1, <1>2, <1>5, <2>1 DEF Progress, Renewal, Uploading, Staging
<1> QED
  BY <1>1, <1>2, <1>3, <1>4, <1>5, RunStepRule

\* A backup that comes to its end leaves nothing behind.
LEMMA EndGitStep ==
  ASSUME BackupInv, NEW r \in Runs, pc[r] \notin {"idle", "put"},
         EndGit(r), head' = head, remote' \in {remote, head}
  PROVE  BackupInv'
<1>1. r \in Active /\ TypeOK /\ Quiet
  BY DEF Active, BackupInv
<1>2. Empty \in [Paths -> Contents \cup {Absent}]
  BY DEF Empty
<1>3. TypeOK'
  BY <1>1, <1>2 DEF EndGit, TypeOK
<1>4. Quiet'
  BY <1>1 DEF EndGit, Quiet, TypeOK
<1>5. pc' = [pc EXCEPT ![r] = "idle"] /\ overlap' = overlap \ {r} /\ UNCHANGED <<wpc, doc>>
  BY DEF EndGit
<1> QED
  BY <1>1, <1>3, <1>4, <1>5, RunStepRule

\* A call that fails ends a provider's turn.
LEMMA RunFailsStep ==
  ASSUME BackupInv, NEW r \in Runs, RunFails(r)
  PROVE  BackupInv'
<1>1. TypeOK /\ Quiet /\ (r \in Active \ overlap => Progress(r))
  BY DEF BackupInv
<1>2. /\ faults' \in 0 .. MaxFaults
      /\ todo' = [todo EXCEPT ![r] = {}] /\ copy' = [copy EXCEPT ![r] = Absent]
      /\ staged' = [staged EXCEPT ![r] = Empty] /\ touched' = [touched EXCEPT ![r] = {}]
      /\ UNCHANGED <<files, wpc, doc, bucket, index, head, remote>>
  BY <1>1, FaultAssumption DEF RunFails, Fault, TypeOK, trees
<1>3. Empty \in [Paths -> Contents \cup {Absent}]
  BY DEF Empty
<1>4. ASSUME NEW q \in {"idle", "status"}, pc' = [pc EXCEPT ![r] = q]
      PROVE  TypeOK' <=> overlap' \subseteq Runs
  BY <1>1, <1>2, <1>3, <1>4 DEF TypeOK
<1>5. ASSUME NEW q \in {"idle", "status"}, pc' = [pc EXCEPT ![r] = q]
      PROVE  Quiet'
  BY <1>1, <1>2, <1>5 DEF Quiet, TypeOK
<1>6. CASE pc[r] \in {"upload", "put"} /\ pc' = [pc EXCEPT ![r] = "status"] /\ overlap' = overlap
  <2>1. TypeOK' /\ Quiet' /\ r \in Active
    BY <1>1, <1>4, <1>5, <1>6 DEF TypeOK, Active
  <2>2. ASSUME r \notin overlap PROVE Progress(r)'
    <3>1. pc'[r] = "status"
      BY <1>1, <1>6 DEF TypeOK
    <3> QED
      BY <1>1, <1>2, <1>6, <2>1, <2>2, <3>1 DEF Progress, Renewal, Uploading, Staging
  <2> QED
    BY <1>2, <1>6, <2>1, <2>2, RunStepRule
<1>7. CASE /\ pc[r] \in {"status", "stage", "commit", "push"}
           /\ pc' = [pc EXCEPT ![r] = "idle"] /\ overlap' = overlap \ {r}
  <2>1. TypeOK' /\ Quiet' /\ r \in Active
    BY <1>1, <1>4, <1>5, <1>7 DEF TypeOK, Active
  <2> QED
    BY <1>2, <1>7, <2>1, RunStepRule
<1> QED
  BY <1>6, <1>7 DEF RunFails

\* A crash ends every backup and every write.
LEMMA CrashStep == BackupInv /\ Crash => BackupInv'
<1> SUFFICES ASSUME BackupInv, Crash PROVE BackupInv'
  OBVIOUS
<1>1. Empty \in [Paths -> Contents \cup {Absent}] /\ Registry \in Kept
  BY DEF Empty, Kept
<1>2. faults' \in 0 .. MaxFaults
  BY FaultAssumption DEF Crash, Fault, BackupInv, TypeOK
<1>3. TypeOK'
  BY <1>1, <1>2 DEF Crash, trees, BackupInv, TypeOK
<1>4. Active' = {}
  BY DEF Crash, Active
<1>5. Writing' /\ Quiet'
  BY DEF Crash, Writing, Quiet
<1>6. Alone'
  BY <1>4 DEF Alone
<1> QED
  BY <1>3, <1>4, <1>5, <1>6 DEF BackupInv

\* Every step keeps the invariant.
LEMMA BackupStep == BackupInv /\ [Next]_vars => BackupInv'
<1> SUFFICES ASSUME BackupInv, [Next]_vars PROVE BackupInv'
  OBVIOUS
<1>1. CASE UNCHANGED vars
  <2>1. UNCHANGED <<files, wpc, doc, bucket, index, head, remote, pc, todo, copy, staged,
                    faults, touched, overlap>>
    BY <1>1 DEF vars, trees, locals, history
  <2> QED
    BY <2>1 DEF BackupInv, TypeOK, Writing, Alone, Quiet, Active, Progress, Renewal,
                Uploading, Staging
<1>2. ASSUME NEW r \in Runs, Run(r) PROVE BackupInv'
  <2>1. CASE OpenFails(r) \/ PutFails(r) \/ Uploaded(r)
    BY <2>1, EndS3Step DEF OpenFails, PutFails, Uploaded
  <2>2. CASE StageFails(r) \/ EmptyCommit(r) \/ Push(r)
    BY <2>2, EndGitStep DEF StageFails, EmptyCommit, Push
  <2> QED
    BY <1>2, <2>1, <2>2, ListStep, OpenStep, PutObjectStep, StatusStep, StageStep,
       SetIndexStep, CommitStep DEF Run
<1> QED
  BY <1>1, <1>2, WriteStep, SignInStep, RunFailsStep, CrashStep DEF Next

\* Whatever was not touched while a backup that is alone runs is in the bucket or the
\* tree it makes, or is still to come to it, and there is something to commit.
THEOREM BackupInvariance == Spec => []BackupInv
<1> QED
  BY BackupStart, BackupStep, PTL DEF Spec

\* The state of a backup is always of its type: no path, version or content but those
\* that there are, and a copy only of a file that is being uploaded.
THEOREM TypeCorrectness == Spec => []TypeOK
<1>1. BackupInv => TypeOK
  BY DEF BackupInv
<1> QED
  BY <1>1, BackupInvariance, PTL

\* For any directory, writers, backups and faults: a backup that no other overlapped and
\* that reports success has every file that was not written while it ran (S3Backup.Backup
\* and GitBackup.Backup).
THEOREM SuccessIsSaved == Spec => SuccessMeansSaved
<1> DEFINE Saves ==
      \A r \in Runs \ overlap :
        /\ Uploaded(r) => \A p \in (Docs \cup Gobs) \ touched[r] : files[p] # Absent => bucket[p] = files[p]
        /\ Push(r) => \A p \in Paths \ touched[r] : remote'[p] = files[p]
<1>1. BackupInv => Saves
  <2> SUFFICES ASSUME BackupInv, NEW r \in Runs \ overlap
               PROVE  /\ Uploaded(r) => \A p \in (Docs \cup Gobs) \ touched[r] :
                                          files[p] # Absent => bucket[p] = files[p]
                      /\ Push(r) => \A p \in Paths \ touched[r] : remote'[p] = files[p]
    OBVIOUS
  <2>1. pc[r] # "idle" => Progress(r)
    BY DEF BackupInv, Active
  <2>2. ASSUME Uploaded(r)
        PROVE  \A p \in (Docs \cup Gobs) \ touched[r] : files[p] # Absent => bucket[p] = files[p]
    BY <2>1, <2>2 DEF Uploaded, Progress, Uploading
  <2>3. ASSUME Push(r) PROVE \A p \in Paths \ touched[r] : remote'[p] = files[p]
    BY <2>1, <2>3 DEF Push, Progress, Staging
  <2> QED
    BY <2>2, <2>3
<1>2. BackupInv => [Saves]_vars
  BY <1>1
<1> HIDE DEF Saves
<1>3. []BackupInv => [][Saves]_vars
  BY <1>2, PTL
<1>4. [][Saves]_vars => SuccessMeansSaved
  BY PTL DEF SuccessMeansSaved, Saves
<1> QED
  BY <1>3, <1>4, BackupInvariance, PTL

\* Where no call fails, a backup reports an error only if a file was written or another
\* backup was under way meanwhile: never for having nothing to commit (GitBackup.Backup).
THEOREM ErrorsAreCaused == Spec => ErrorsHaveACause
<1> DEFINE Caused ==
      \A r \in Runs : OpenFails(r) \/ PutFails(r) \/ StageFails(r) \/ EmptyCommit(r)
        => touched[r] # {} \/ r \in overlap
<1>1. BackupInv => Caused
  <2> SUFFICES ASSUME BackupInv, NEW r \in Runs \ overlap, touched[r] = {},
                      OpenFails(r) \/ PutFails(r) \/ StageFails(r) \/ EmptyCommit(r)
               PROVE  FALSE
    OBVIOUS
  <2>1. Progress(r)
    BY DEF BackupInv, Active, OpenFails, PutFails, StageFails, EmptyCommit
  <2>2. todo[r] # {} => First(todo[r]) \in todo[r] /\ First(todo[r]) \in Paths
    BY FirstIsThere DEF BackupInv, TypeOK
  <2>3. Registry \in Paths
    BY DEF Paths, Kept
  <2>4. CASE OpenFails(r)
    BY <2>1, <2>2, <2>4 DEF OpenFails, Progress, Uploading
  <2>5. CASE PutFails(r)
    BY <2>1, <2>5 DEF PutFails, Progress, Uploading
  <2>6. CASE StageFails(r)
    BY <2>1, <2>2, <2>6 DEF StageFails, Progress, Staging
  <2>7. CASE EmptyCommit(r)
    BY <2>1, <2>3, <2>7 DEF EmptyCommit, Progress, Staging, Renewal
  <2> QED
    BY <2>4, <2>5, <2>6, <2>7
<1>2. BackupInv => [Caused]_vars
  BY <1>1
<1> HIDE DEF Caused
<1>3. []BackupInv => [][Caused]_vars
  BY <1>2, PTL
<1>4. [][Caused]_vars => ErrorsHaveACause
  BY PTL DEF ErrorsHaveACause, Caused
<1> QED
  BY <1>3, <1>4, BackupInvariance, PTL
=============================================================================
