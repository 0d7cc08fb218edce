-------------------------------- MODULE Backup --------------------------------
(***************************************************************************)
(* Backups of the data directory (infrastructure/backup) while requests    *)
(* write it.  POST /admin/backup signs its caller in, which rewrites       *)
(* principals.json, and then asks each provider in turn, whatever became   *)
(* of the one before: S3 walks the directory and uploads file by file, git *)
(* stages what has changed, commits it and pushes.  Nothing keeps writers  *)
(* or another backup out meanwhile.                                        *)
(*                                                                         *)
(* A JSON file is replaced by a temporary file beside it that is renamed;  *)
(* an index file is emptied and filled in place.  The model has one        *)
(* directory, listed at once; go-git and the bucket are external.          *)
(***************************************************************************)
EXTENDS Naturals, Sequences, FiniteSets, Functions

CONSTANTS
  Runs,      \* backups that are under way at once, each followed by others without end
  Writers,   \* one-shot requests that write; also their contents and temporary files
  Docs,      \* JSON files
  Gobs,      \* index files
  Registry,  \* principals.json
  Versions,  \* its contents, the newest first
  Walk,      \* all paths in the order in which WalkDir comes to them
  Absent, Torn,  \* no file; a file that is being filled
  MaxFaults  \* bound on failing calls and crashes

Kept  == Docs \cup Gobs \cup {Registry}
Paths == Kept \cup Writers

ASSUME WalkAssumption == Walk \in Seq(Paths) /\ IsInjective(Walk) /\ Range(Walk) = Paths
ASSUME PathAssumption ==
  Docs \cap Gobs = {} /\ Writers \cap Kept = {} /\ Registry \notin Docs \cup Gobs
ASSUME ContentAssumption ==
  /\ {"start", "old", Absent, Torn} \cap (Writers \cup Range(Versions)) = {}
  /\ Writers \cap Range(Versions) = {} /\ Absent \notin {"start", "old", Torn}
ASSUME VersionAssumption ==
  /\ Versions \in Seq(Range(Versions)) /\ IsInjective(Versions)
  /\ IsFiniteSet(Runs) /\ Len(Versions) >= Cardinality(Runs) + 3
ASSUME FaultAssumption == MaxFaults \in Nat

VARIABLES
  files,     \* the data directory: content of each path
  wpc, doc,  \* next call of each writer, and the file it is about
  bucket,    \* objects in the bucket, but for temporary files and the registry
  index, head, remote,  \* trees: the git index, the last commit, the remote
  pc,        \* next call of each backup
  todo,      \* paths it has still to upload or to stage
  copy,      \* what it has opened to upload
  staged,    \* its copy of the index
  faults,    \* failing calls and crashes so far
  touched,   \* history: paths changed since a backup listed them
  overlap    \* history: backups that were not alone

trees   == <<bucket, index, head, remote>>
locals  == <<todo, copy, staged>>
history == <<touched, overlap>>
vars    == <<files, wpc, doc, trees, pc, locals, faults, history>>

Empty    == [p \in Paths |-> Absent]

Init ==
  /\ files = [p \in Paths |-> IF p \in Writers THEN Absent
                              ELSE IF p = Registry THEN Versions[1]
                              ELSE "start"]
  /\ wpc = [w \in Writers |-> "idle"] /\ doc = [w \in Writers |-> Registry]
  /\ bucket = [p \in Docs \cup Gobs |-> Absent]
  /\ index = Empty /\ head = Empty /\ remote = Empty
  /\ pc = [r \in Runs |-> "idle"]
  /\ todo = [r \in Runs |-> {}]
  /\ copy = [r \in Runs |-> Absent]
  /\ staged = [r \in Runs |-> Empty]
  /\ faults = 0
  /\ touched = [r \in Runs |-> {}] /\ overlap = {}

-----------------------------------------------------------------------------
(* Writers.                                                                *)

Touch(S) == touched' = [r \in Runs |->
  IF pc[r] = "idle" \/ r \in overlap THEN {} ELSE touched[r] \cup S]

Put(S, c) == files' = [p \in Paths |-> IF p \in S THEN c ELSE files[p]]

WGoTo(w, from, next) == wpc[w] = from /\ wpc' = [wpc EXCEPT ![w] = next]

\* FileStore.Write: a temporary file first.
CreateTemp(w, d) ==
  /\ WGoTo(w, "idle", "rename")
  /\ doc' = [doc EXCEPT ![w] = d]
  /\ Put({w}, w) /\ Touch({w})
  /\ UNCHANGED <<trees, pc, locals, faults, overlap>>

Rename(w) ==
  /\ WGoTo(w, "rename", "done")
  /\ files' = [files EXCEPT ![doc[w]] = w, ![w] = Absent]
  /\ doc' = [doc EXCEPT ![w] = Registry]
  /\ Touch({w, doc[w]})
  /\ UNCHANGED <<trees, pc, locals, faults, overlap>>

\* FileStore.Delete.
Remove(w, d) ==
  /\ WGoTo(w, "idle", "done")
  /\ Put({d}, Absent) /\ Touch({d})
  /\ UNCHANGED <<doc, trees, pc, locals, faults, overlap>>

\* os.WriteFile on an index file.
Truncate(w, g) ==
  /\ WGoTo(w, "idle", "fill")
  /\ doc' = [doc EXCEPT ![w] = g]
  /\ Put({g}, Torn) /\ Touch({g})
  /\ UNCHANGED <<trees, pc, locals, faults, overlap>>

Fill(w) ==
  /\ WGoTo(w, "fill", "done")
  /\ Put({doc[w]}, w) /\ Touch({doc[w]})
  /\ doc' = [doc EXCEPT ![w] = Registry]
  /\ UNCHANGED <<trees, pc, locals, faults, overlap>>

Fault == faults < MaxFaults /\ faults' = faults + 1

\* A write fails: atomicWrite removes the temporary file, an index file stays as it is.
WriteFails(w) ==
  /\ Fault
  /\ wpc[w] \in {"rename", "fill"} /\ wpc' = [wpc EXCEPT ![w] = "done"]
  /\ doc' = [doc EXCEPT ![w] = Registry]
  /\ IF wpc[w] = "rename" THEN Put({w}, Absent) /\ Touch({w}) ELSE UNCHANGED <<files, touched>>
  /\ UNCHANGED <<trees, pc, locals, overlap>>

-----------------------------------------------------------------------------
(* Backups.                                                                *)

Active == {r \in Runs : pc[r] # "idle"}

GoTo(r, from, next) == pc[r] = from /\ pc' = [pc EXCEPT ![r] = next]

\* In the remote the registry is the current one or an old one, so that a version that
\* no other tree has can be used again.
Aged(f)  == [f EXCEPT ![Registry] = IF @ \in Range(Versions) THEN "old" ELSE @]

\* Versions[1] is the newest; the others that a tree still needs move up without gaps.
Rank(v) == CHOOSE i \in DOMAIN Versions : Versions[i] = v
Needed  == {f[Registry] : f \in {files, index, head} \cup Range(staged)} \cap Range(Versions)
Renewed(f) == [f EXCEPT ![Registry] =
  IF @ \in Needed
  THEN Versions[1 + Cardinality({v \in Needed : Rank(v) <= Rank(f[Registry])})] ELSE @]

\* Mutant of SignIn: a principal that is known is not written back.
SignInQuietly(r) ==
  /\ GoTo(r, "idle", "walk")
  /\ overlap' = IF Active = {} THEN overlap ELSE overlap \cup Active \cup {r}
  /\ touched' = [x \in Runs |-> IF x \in overlap' THEN {} ELSE touched[x]]
  /\ UNCHANGED <<files, wpc, doc, trees, locals, faults>>

\* JWTMiddleware and triggerBackup: the admin is seen, and principals.json says when.
SignIn(r) ==
  /\ GoTo(r, "idle", "walk")
  /\ files' = [files EXCEPT ![Registry] = Versions[1]]
  /\ index' = Renewed(index) /\ head' = Renewed(head)
  /\ staged' = [x \in Runs |-> Renewed(staged[x])]
  /\ remote' = Aged(remote)
  /\ copy' = [x \in Runs |-> IF copy[x] \in Range(Versions) THEN "old" ELSE copy[x]]
  /\ overlap' = IF Active = {} THEN overlap ELSE overlap \cup Active \cup {r}
  /\ touched' = [x \in Runs |-> IF x \in overlap' THEN {} ELSE touched[x]]
  /\ UNCHANGED <<wpc, doc, bucket, todo, faults>>

\* S3Backup.Backup: the directory is listed.
List(r) ==
  /\ GoTo(r, "walk", "upload")
  /\ todo' = [todo EXCEPT ![r] = {p \in Paths : files[p] # Absent}]
  /\ touched' = [touched EXCEPT ![r] = {}]
  /\ UNCHANGED <<files, wpc, doc, trees, copy, staged, faults, overlap>>

First(S) == Walk[CHOOSE i \in DOMAIN Walk : Walk[i] \in S /\ \A j \in 1 .. i - 1 : Walk[j] \notin S]

\* Mutant of Open: a file that is gone is opened all the same.
OpenBlindly(r) ==
  /\ todo[r] # {}
  /\ GoTo(r, "upload", "put")
  /\ copy' = [copy EXCEPT ![r] = files[First(todo[r])]]
  /\ UNCHANGED <<files, wpc, doc, trees, todo, staged, faults, history>>

Open(r) ==
  LET p == First(todo[r]) IN
  /\ todo[r] # {} /\ files[p] # Absent
  /\ GoTo(r, "upload", "put")
  /\ copy' = [copy EXCEPT ![r] = files[p]]
  /\ UNCHANGED <<files, wpc, doc, trees, todo, staged, faults, history>>

\* The provider is done, with an error or not, and the next one has its turn.
EndS3(r) ==
  /\ pc' = [pc EXCEPT ![r] = "status"]
  /\ todo' = [todo EXCEPT ![r] = {}]
  /\ copy' = [copy EXCEPT ![r] = Absent]
  /\ touched' = [touched EXCEPT ![r] = {}]
  /\ UNCHANGED <<files, wpc, doc, trees, staged, faults, overlap>>

\* The listed file is gone: the walk ends with an error.
OpenFails(r) ==
  pc[r] = "upload" /\ todo[r] # {} /\ files[First(todo[r])] = Absent /\ EndS3(r)

Uploaded(r) == pc[r] = "upload" /\ todo[r] = {} /\ EndS3(r)

\* PutObject: an open file that was replaced or removed is read to its end; one that is
\* rewritten in place is read as it now is.
PutObject(r) ==
  LET p == First(todo[r])
      c == IF p \in Gobs THEN files[p] ELSE copy[r] IN
  /\ GoTo(r, "put", "upload")
  /\ bucket' = [q \in Docs \cup Gobs |-> IF q = p THEN c ELSE bucket[q]]
  /\ todo' = [todo EXCEPT ![r] = @ \ {p}]
  /\ copy' = [copy EXCEPT ![r] = Absent]
  /\ UNCHANGED <<files, wpc, doc, index, head, remote, staged, faults, history>>

\* The length that was announced is not what is read.
PutFails(r) ==
  pc[r] = "put" /\ First(todo[r]) \in Gobs /\ files[First(todo[r])] # copy[r] /\ EndS3(r)

\* Mutant of Status: what was deleted is not looked for.
StatusOfPresent(r) ==
  LET changed == {p \in Paths : files[p] # Absent /\ files[p] # index[p]} IN
  /\ GoTo(r, "status", IF changed = {} THEN "commit" ELSE "stage")
  /\ todo' = [todo EXCEPT ![r] = changed]
  /\ staged' = [staged EXCEPT ![r] = index]
  /\ touched' = [touched EXCEPT ![r] = {}]
  /\ UNCHANGED <<files, wpc, doc, trees, copy, faults, overlap>>

\* GitBackup.Backup, AddGlob: what differs from the index.
Status(r) ==
  LET changed == {p \in Paths : files[p] # index[p]} IN
  /\ GoTo(r, "status", IF changed = {} THEN "commit" ELSE "stage")
  /\ todo' = [todo EXCEPT ![r] = changed]
  /\ staged' = [staged EXCEPT ![r] = index]
  /\ touched' = [touched EXCEPT ![r] = {}]
  /\ UNCHANGED <<files, wpc, doc, trees, copy, faults, overlap>>

\* In the order of Walk: go-git's order is arbitrary, but the copy of the index is its own.
\* A file that is gone is taken from the index.
Stage(r) ==
  LET p == First(todo[r]) IN
  /\ pc[r] = "stage" /\ todo[r] # {}
  /\ files[p] # Absent \/ staged[r][p] # Absent
  /\ staged' = [staged EXCEPT ![r][p] = files[p]]
  /\ todo' = [todo EXCEPT ![r] = @ \ {p}]
  /\ UNCHANGED <<files, wpc, doc, trees, pc, copy, faults, history>>

EndGit(r) ==
  /\ pc' = [pc EXCEPT ![r] = "idle"]
  /\ todo' = [todo EXCEPT ![r] = {}]
  /\ staged' = [staged EXCEPT ![r] = Empty]
  /\ touched' = [touched EXCEPT ![r] = {}]
  /\ overlap' = overlap \ {r}
  /\ UNCHANGED <<files, wpc, doc, bucket, index, copy, faults>>

\* Mutant of StageFails: any file that is gone is an error.
StageFailsIfGone(r) ==
  /\ pc[r] = "stage" /\ todo[r] # {}
  /\ files[First(todo[r])] = Absent
  /\ EndGit(r) /\ UNCHANGED <<head, remote>>

\* One that is gone and was never in it is an error.
StageFails(r) ==
  LET p == First(todo[r]) IN
  /\ pc[r] = "stage" /\ todo[r] # {}
  /\ files[p] = Absent /\ staged[r][p] = Absent
  /\ EndGit(r) /\ UNCHANGED <<head, remote>>

SetIndex(r) ==
  /\ GoTo(r, "stage", "commit") /\ todo[r] = {}
  /\ index' = staged[r]
  /\ UNCHANGED <<files, wpc, doc, bucket, head, remote, locals, faults, history>>

Commit(r) ==
  /\ index # head
  /\ GoTo(r, "commit", "push")
  /\ head' = index
  /\ UNCHANGED <<files, wpc, doc, bucket, index, remote, locals, faults, history>>

\* A commit that changes nothing is an error, and nothing is pushed.
EmptyCommit(r) == pc[r] = "commit" /\ index = head /\ EndGit(r) /\ UNCHANGED <<head, remote>>

Push(r) == pc[r] = "push" /\ remote' = head /\ EndGit(r) /\ UNCHANGED head

\* Any call to the bucket, the repository or the remote fails.
RunFails(r) ==
  /\ Fault
  /\ \/ /\ pc[r] \in {"upload", "put"}
        /\ pc' = [pc EXCEPT ![r] = "status"]
        /\ overlap' = overlap
     \/ /\ pc[r] \in {"status", "stage", "commit", "push"}
        /\ pc' = [pc EXCEPT ![r] = "idle"]
        /\ overlap' = overlap \ {r}
  /\ todo' = [todo EXCEPT ![r] = {}]
  /\ copy' = [copy EXCEPT ![r] = Absent]
  /\ staged' = [staged EXCEPT ![r] = Empty]
  /\ touched' = [touched EXCEPT ![r] = {}]
  /\ UNCHANGED <<files, wpc, doc, trees>>

\* The process dies and starts again: what it was writing stays as it was.
Crash ==
  /\ Fault
  /\ wpc' = [w \in Writers |-> IF wpc[w] = "idle" THEN "idle" ELSE "done"]
  /\ doc' = [w \in Writers |-> Registry]
  /\ pc' = [r \in Runs |-> "idle"]
  /\ todo' = [r \in Runs |-> {}]
  /\ copy' = [r \in Runs |-> Absent]
  /\ staged' = [r \in Runs |-> Empty]
  /\ touched' = [r \in Runs |-> {}] /\ overlap' = {}
  /\ UNCHANGED <<files, trees>>

Write(w) ==
  \/ \E d \in Docs : CreateTemp(w, d) \/ Remove(w, d)
  \/ \E g \in Gobs : Truncate(w, g)
  \/ Rename(w) \/ Fill(w) \/ WriteFails(w)

\* What a backup does of itself.
Run(r) ==
  \/ List(r) \/ Open(r) \/ OpenFails(r) \/ PutObject(r) \/ PutFails(r) \/ Uploaded(r)
  \/ Status(r) \/ Stage(r) \/ StageFails(r) \/ SetIndex(r) \/ Commit(r)
  \/ EmptyCommit(r) \/ Push(r)

Next ==
  \/ \E w \in Writers : Write(w)
  \/ \E r \in Runs : SignIn(r) \/ Run(r) \/ RunFails(r)
  \/ Crash

Spec == Init /\ [][Next]_vars

\* A backup that was begun goes on, and backups are asked for again and again.
FairSpec == Spec /\ \A r \in Runs : WF_vars(SignIn(r) \/ Run(r))

-----------------------------------------------------------------------------
Contents == {"start", "old", Torn} \cup Writers \cup Range(Versions)

TypeOK ==
  /\ files \in [Paths -> Contents \cup {Absent}]
  /\ wpc \in [Writers -> {"idle", "rename", "fill", "done"}]
  /\ doc \in [Writers -> Kept]
  /\ bucket \in [Docs \cup Gobs -> Contents \cup {Absent}]
  /\ {index, head, remote} \subseteq [Paths -> Contents \cup {Absent}]
  /\ pc \in [Runs -> {"idle", "walk", "upload", "put", "status", "stage", "commit", "push"}]
  /\ todo \in [Runs -> SUBSET Paths]
  /\ copy \in [Runs -> Contents \cup {Absent}]
  /\ \A r \in Runs : copy[r] # Absent <=> pc[r] = "put"
  /\ staged \in [Runs -> [Paths -> Contents \cup {Absent}]]
  /\ faults \in 0 .. MaxFaults
  /\ touched \in [Runs -> SUBSET Paths] /\ overlap \subseteq Runs

\* A backup that no other overlapped and that reports success has every file that was
\* not written while it ran: in the bucket, and in the remote, from which what was
\* deleted before is gone as well, whatever earlier backups left half done.
SuccessMeansSaved ==
  [][\A r \in Runs \ overlap :
       /\ Uploaded(r) => \A p \in (Docs \cup Gobs) \ touched[r] : files[p] # Absent => bucket[p] = files[p]
       /\ Push(r) => \A p \in Paths \ touched[r] : remote'[p] = files[p]]_vars

\* Where no call fails, a backup only reports an error when a file was written or
\* another backup was under way meanwhile: never for having nothing to commit.
ErrorsHaveACause ==
  [][\A r \in Runs : OpenFails(r) \/ PutFails(r) \/ StageFails(r) \/ EmptyCommit(r)
       => touched[r] # {} \/ r \in overlap]_vars

Saved ==
  \A p \in Docs \cup Gobs :
    remote[p] = files[p] /\ (files[p] # Absent => bucket[p] = files[p])

\* Writers and faults are finitely many.  Once they are through, everything is in the
\* bucket and in the remote sooner or later, also what was committed by a backup
\* whose push had failed, as long as backups are asked for again and again.
EverythingIsSaved == <>[]Saved
=============================================================================
