# ingatan: a verification project

ingatan is a memory server for people and agents: clients save texts into named
stores, search them by words and by meaning, and keep conversations, over REST, MCP and
a small WebUI. It is one Go process over one directory of JSON and gob files. There is
no database: what holds the files of one thing together is the order in which the code
writes them, and what holds concurrent requests apart is, in most places, nothing.

These TLA+ modules model that: each handler as the sequence of its file and index
operations, interleaved with those of other handlers, failing and dying between any
two of them. TLC checks them on small instances and TLAPS proves the most important
properties for instances of any size. `PROJECT.json` maps every definition to the
lines it models and lists the runs, the mutants that break each property, the hazards
and the theorems.

## Inventory

| Component | State | Operations | What is hard | What makes it correct |
|---|---|---|---|---|
| Memory service, writes (`usecase/memory/service.go`) | a record and a chunk file for each memory, entries in two indexes | Save, Update, Delete | three places to change, no lock, dropped index errors | they agree whenever no one works on the memory |
| Memory service, reads (`usecase/memory/search.go`) | none | Search, Similar, in three modes | hits resolved while the files change; two cuts and two filters one after the other | exact about what did not change and could be read; what is left out is left out for something better |
| Ingestion (`usecase/memory/ingest.go`, `infrastructure/ingest`) | none | SaveURL, SaveFile | ends in Save | as Save |
| Keyword index (`infrastructure/index/bm25*.go`) | tokens, document frequencies, totals; a cache of indexes; `bm25.gob` | Add, Delete, Search | incremental totals; lazy load; snapshot written after the unlock | totals are those of the documents; one index; survives a restart |
| Vector index (`infrastructure/index/hnsw*.go`) | graph, two maps, a 32-bit counter; `ids.gob`, `graph.bin` | Upsert, Delete, Search | two files, saves that overlap, keys that wrap | a hit is the chunk found; survives a restart |
| Repositories (`infrastructure/storage`) | JSON files | Save, Get, Update, Delete, List | read-modify-write of shared files; atomic only one by one; listings read file after file | a client that pages misses no more than was deleted or moved back; else see their users |
| Principal service (`usecase/principal`) | `principals.json` | GetOrCreate, Create, ReissueAPIKey, RevokeAPIKey, AuthenticateByAPIKey, WhoAmI, List | one file for all, written back by every authentication | a key that was replaced stays replaced; everyone has a store |
| Tokens (`rest/auth_handler.go`, `rest/middleware/auth.go`) | none: signed, not stored | exchange of a key, check of a token | a token outlives its key, and restarts | not for longer than its life |
| Store service (`usecase/store`) | `stores/{name}/store.json` | Create, Get, List, Delete | look, then write; contents outlive the record | a store stays with its owner |
| Access checks (`requireRead`, `requireWrite`, `storeAccessImpl`) | none | before every operation on memories | check, then act; a memory identifier may lead elsewhere | contents are the owner's |
| Conversation service (`usecase/conversation`) | a record and a directory of messages | Start, AddMessage, Get, List, Summarize, Promote, Delete | a stale copy is written back after a call to a language model | count, summary and answers fit the messages |
| Backup (`infrastructure/backup`) | a git worktree with index, commit and remote; an S3 bucket | Backup | runs beside writers and other backups; push fails after commit | what is reported as saved is saved; everything is saved in the end |
| REST adapter (`adapter/rest`) | rate limiters | handlers, sign-in, token exchange | sign-in writes | the caller is who the token says |
| MCP adapter (`adapter/mcp`) | none | tools | mounted outside the JWT check: tools run as `mcp-anonymous` | as the services |
| WebUI (`adapter/webui`) | sessions | login, pages, key and store management, backup | acts as the admin `webui-admin` | as the services |
| LLM and embedding clients, configuration, telemetry, mTLS, templates | none that changes | | | |

The adapters call the use cases in the goroutine of their request; the use cases call
the repositories and the indexes, and nothing calls back. So the shared state is the
files, the caches of the two indexes and the WebUI's sessions, and the interleavings
are those of the repository and index calls of concurrent requests. The server is
killed, never shut down in order: a restart may come between any two steps, and after
`os.WriteFile` has emptied a file and before it has filled it (`FileStore` avoids that
by a rename, the indexes do not).

## Modules

| Module | Models | Composes |
|---|---|---|
| `MemoryService` | Save, Update and Delete of memories, one step for each repository or index call | |
| `MemorySearch` | Search and Similar beside them | extends `MemoryService` |
| `Ranking` | what Search and Similar make of the ranks the indexes give, over a store at rest | |
| `DurableIndex` | what an index promises: entries everyone sees, never lost once settled | abstract |
| `KeywordStore` | the cache, mutex and file of the BM25 index | implements `DurableIndex` |
| `KeywordIndex` | the totals inside it and the search over them | |
| `VectorStore` | the HNSW index, its maps, its two files, its saves | implements `DurableIndex` |
| `PrincipalService` | the principal service and the store service over their files | |
| `Tokens` | the exchange of keys for tokens, and the calls made with them | extends `PrincipalService` |
| `ConversationService` | one conversation, with the language model | |
| `StoreAccess` | who reads and writes what, through which adapter, over the life of a store | |
| `Listings` | paged lists of memories and conversations beside writes and deletions | |
| `Backup` | S3 and git backups beside writers and other backups | |
| `MemoryProofs` | theorems about `MemoryService` and `MemorySearch` | extends them |
| `KeywordProofs` | theorems about `KeywordIndex` and `KeywordStore` | extends them |
| `VectorStoreProofs` | theorems about `VectorStore` | extends it |
| `AnswerProofs` | theorems about `Ranking` and `Listings` | extends them |
| `PrincipalProofs` | theorems about `PrincipalService` and `Tokens` | extends them |
| `StoreAccessProofs`, `ConversationServiceProofs`, `BackupProofs` | theorems about the module of that name | extend it |
| `MC*` | the instance TLC checks (`MCPrincipals` for two configurations) | extend it |

How they correspond to the code:

* A request is a process with a `pc`; its program variables (`mem`, `text`, `copy`,
  `list`, ...) are the locals of the handler. An action is one call of a repository or
  an index with everything the handler does up to its next one. An early return is a
  guard or a `Refuse`.
* Requests are one-shot except as said below: an instance with `n` of them shows
  every behaviour with `n` requests and its end, when nothing is left to do: the
  configurations of the memory service, the two index stores and the conversations say
  `CHECK_DEADLOCK FALSE`. In `StoreAccess` and `Listings` requests, in `MemorySearch`
  searches and in `Backup` backups follow each other without end, in `Tokens` the clock
  goes on, and `KeywordIndex` and `Ranking` have one step or one answer after the other:
  deadlock is checked for these.
* Identifiers that the code draws at random are the names of the requests that draw
  them: never the same one twice.
* Texts are model values; a text has a number of chunks, and is found by a query that
  is the same text. An embedding is the chunk it is of. Times are a sequence in which a
  message may be placed before ones already written; two equal times are not modelled.
* `Fail` and `Crash` are bounded by `MaxFaults`. In `StoreAccess` they need no
  bound, for a killed request only leaves its slot.
* History variables (`overlap`, `lost`, `damaged`, `stale`, `clobbered`, `raced`,
  `reused`, `settled`, `touched`, ...) note that something happened which the code does
  not guard against. A property says what holds as long as it has not, and the hazards in
  `PROJECT.json`, the failing run and the list of divergences below say what happens
  once it has.
* `MemoryService` takes an index call as one durable step. `KeywordStore` and
  `VectorStore` say when that is so: when the call returned with no other call on
  the same index under way.
* `Ranking` compares scores exactly, as fractions: `1/(60 + rank)` for Search, `1/rank`
  for Similar. The vector index ranks a part of the chunks in some order, the keyword
  index any of them in any order; that each returns its best first is external.
* `Tokens` counts time in ticks. `dead[k]` says for how many ticks a key has not been in
  force; ticks in which the key was under exchange do not count, for a request may take
  any time. That a clobbered registry brings a key back needs four requests, one more
  than the run has; the exception for it was checked once with four requests about one
  principal.
* `Listings` is one request of a client after the other, each from a fresh listing of
  the directory, as `FileStore.List` and the repositories do it. The three kinds of list
  differ in when the filter is applied and in the order. A request takes the time
  (`Stamp`) before it writes it, and a copy that is written back has the time it was read
  with, so `Write` writes any time that was ever taken for the file, or brings back a file
  that is gone.
* `StoreAccess` has both ways in which a memory identifier counts: over REST it is one
  segment of a path and stays in the store that was checked; an MCP tool passes on what it
  was given, `memoryPath` joins it, and the file that is read, written or deleted may be in
  any store, or be the record of one (`Places`, `DeleteRecord`). `Astray` stands for the
  author of what was written so. `PrincipalService` speaks of the principal and store
  services alone and leaves that out, and no module follows such an identifier to files
  other than those of stores.
* `MemorySearch` lets the vector index give nothing: `HNSWIndex.Search` recovers from
  panics of the library and returns an empty list without an error. It lets every read
  that the code passes over without an error fail (`ReadFails`). `VectorStore` speaks of
  what the index could answer with (`Known`); a search changes nothing there.
* `Backup` has one directory, listed at once. Sign-in writes `principals.json` in one
  step: its own temporary file is left out, those of writers are there. S3 goes first
  and git has its turn whatever became of it, as in `triggerBackup`. A crash that tears
  go-git's own index file, and what a walk finds inside `.git`, are left out; a remote is
  always configured. Versions of the registry are named by age (`Renewed`), and a copy
  that no tree needs is only "old", so that backups can go on without end in a finite
  number of states.
* External, modelled from their use: the graph of `coder/hnsw` (Export writes
  the nodes in the order of a Go map, Import reads as many as there are), go-git, the
  bucket, the chunker, the embedder and the language model (they answer or fail).

## Runs

Each passing run checks one type invariant (but for `keyword_index`, where
`StatisticsAreExact` says more) and the properties below; each property has a mutant, a
plausible mistake in one definition, under which the run fails.

| Run | Instance | Shows |
|---|---|---|
| `memory_service` | 3 requests, texts of 1 and 2 chunks, both indexes, 2 faults (0.5M states) | `QuietMemoriesAreCoherent`: a memory on which no two requests overlapped and no call failed has exactly the chunks and entries of its record. `EntriesAreReachable`: an entry is always named by a chunk file or by a request about to deal with it, also after crashes and failed writes, unless requests on its memory overlapped, an index call failed or the old chunks could not be read |
| `memory_search` | 3 writers, 1 search at a time without end, 1 fault (1.7M) | `SearchIsExact`: about memories no one touches meanwhile, a search answers what it would at rest, but for those of which it could not read a file; when the vector index gave nothing (the library panicked, or the source's chunks could not be read), what the keyword index alone would |
| `ranking` | 4 chunks of up to 4 memories or of none, `topK` asked for from 0 to one too many, 1 or 2 granted, 3 looked at for each (0.6M) | `AgreementIsKept`: where both indexes put one memory before another, so does the answer. `OmissionsAreEarned`: a memory found with the tags is left out only for enough others as good. `ShortAnswersAreWasted`: an answer without tags is shorter than asked for only when there is no more, or when places went to gone or repeated chunks |
| `keyword_store` | 4 calls on 2 chunks, 2 faults (0.9M) | `OneIndex`: concurrent first calls use one index. `ImplementsPromise`: refinement of `DurableIndex` |
| `keyword_index` | 3 chunks, 5 texts (8 thousand) | `StatisticsAreExact`, `SearchFindsEveryMatch` after every history of adds, replacements, deletions, saves and restarts |
| `vector_store` | 3 calls on 2 chunks, 3 keys, 2 faults (0.1M) | `MapsAreInverse`, `HitsAreTheirOwn`, `ImplementsPromise` |
| `principal_service` | 3 requests, 2 principals, 1 shared store, 1 key from before, tokens of 2 ticks, 1 fault (0.6M) | `RegistryIsUpToDate`: keys are the latest unless two writers overlapped. `StoresKeepTheirOwner`. `PrincipalsHaveAStore` unless a creation broke off. `TokensFollowTheirKeys`: no call is let in with a token whose key has been dead for a token's life |
| `conversation_service` | 3 requests, threshold 2, 1 fault (42 thousand) | `CountsItsMessages`, `SummaryIsAPrefix`, `SummaryKeepsUp`, `DeletionIsComplete`, `AnswersMissNothing`, `SummariesGrow` |
| `store_access` | 2 requests at a time, without end; a user, an admin, the MCP and the WebUI identity; a personal and a shared store (1.4M) | `ContentsBelongToOwner`, `PersonalContentsStay`, `ReadersSeeTheirOwn`: unless a record changed under a request or a name was used again, and but for what the memory identifier of an MCP call did to another store than the one that was checked |
| `listings` | 1 client, 4 files, pages of 2, 3 times taken or writes (3.1M) | `MissesAreSetbacks`: of what stayed the same a client that goes through all pages misses no more than there were deletions and moves back in its list; nothing if there were none |
| `backup` | 2 backups at a time, without end; 1 writer, 1 JSON file, 1 index file, the registry, 1 fault (0.7M) | `SuccessMeansSaved`: a backup alone that reports success has saved every file not written meanwhile. `ErrorsHaveACause`: none fails for having nothing to do. `EverythingIsSaved` (liveness): in the end all is in the bucket and in the remote |

Why the bounds are enough: every hazard in the list is a race of two requests, or of
one request and a crash, followed by one that meets what they left; three requests
give that, and the keyword store has four because its third party is a writer and a
reader. One fault separates a failure from a race; two let one follow the other.
Two chunks tell a loop over chunks from one call, three keys let the counter wrap, four
files are two pages, and four chunks are one more than `Breadth` times the smaller
`topK`. The conversation was also run once with four requests (5.9M states) with the
same result. Symmetry is over requests and slots, and over chunks or texts where all are
alike; no operator compares or chooses among them except the `CHOOSE` of `Idle` in
`StoreAccess`, which is over names, and names are not permuted. `StoreAccess` has no
bound on requests, but one on what they may pile up, the constraint `Few`: two authors in
a store, one in a store whose record has raced, and no step beyond a state in which the
records of both stores have raced, since nothing is promised of either. The action and
refinement properties are symmetric themselves. The run with a liveness property has
no symmetry.

Fairness is assumed in `backup` alone: `FairSpec` says that a backup that was begun goes
on (Go schedules its goroutine, and every call returns or fails) and that backups are
asked for again and again. The second is an assumption about the administrator: the code
has no schedule of its own, the configured one is read by nothing. Failures need no
fairness, they are finitely many. No other run assumes any: handlers have no loop that
waits for another and no timeouts of their own, and after a crash nothing resumes what
was under way, so that a request ends says nothing of this code. What could stop
everyone, a lock that is not released, would show as a request that can take no step;
the locks of the indexes are released by `defer`, and are in the models the atomicity
of a step.

One run is expected to fail: `revoked_key` checks "Returns UNAUTHORIZED if the key is
invalid or has been revoked" (`usecase/principal/service.go:237`) in the instance of
`principal_service`. Another request that had read the registry before the revocation
writes its copy back, and the key is exchanged again.

Other places where documents and code differ, found while modelling, without a run:

* "File writes use atomic write pattern" (`documentation/technical-details.md:100`):
  `bm25.gob` is rewritten in place (`KeywordStore`: `Truncate`, `Crash`), and so are the
  two files of the vector index.
* "The index is persisted to disk after the write" (`infrastructure/index/hnsw_store.go:32`):
  two saves hold the read lock at once and write into each other's files (`ExportNode`).
* "with full file lock" (`documentation/technical-details.md:109`): `principals.json` has none.
* "A named, isolated collection of memories" (`domain/store.go:23`): access is checked for
  the store that is named, and a memory identifier that comes over MCP is joined to its
  path unchecked (`infrastructure/storage/memory_repository.go:43`), so that it can name a
  file of another store (`StoreAccess`: `Places`, `DeleteRecord`).
* "Delete a store and all its contents" (`adapter/mcp/store_tools.go:58`): the record only.
* S3 backups "tar" the directory (`documentation/technical-details.md:74`,
  `documentation/product-details.md:171`): they upload file after file.
* The configured git `branch` and the backup `schedule`, the `auth.issuer` "to validate",
  RS256 and the token threshold of summaries are read by no code that acts on them.
* `total` of a conversation list is the length of the page that is left, not a total.
* Similar "retrieves the first chunk" of its source, but compares with the mean of all of
  them.

## Proofs

`tlapm` checks all of these from nothing; the constants are any sets that satisfy the
named assumptions of the modules. Every theorem is about the module's specification, and
comes from an inductive invariant by the same three facts: the initial states satisfy it,
every action keeps it (one lemma or step for each), and it implies the property. Every
safety invariant, every action property and every refinement that a passing run checks is
proved; only the liveness property of `backup` is not.

* `MemoryProofs`, writers: `TypeCorrect`, `Coherence` (`QuietMemoriesAreCoherent`),
  `Reachability` (`EntriesAreReachable`). Coherence of a memory at rest follows only if,
  while a request is at work, what it has already done and what it still has to do
  together make up the coherent state. `IInv` says that step by step: `Progress` gives,
  for each value of `pc`, what record, chunk file and entries are; `Solitude` says that
  an untainted memory has one request at most; `Ownership` and `Unborn` say that entries
  and files belong to memories that were begun.
* `MemoryProofs`, searches: `CoherenceBesideSearches` (searches keep `IInv`),
  `SearchTypes` and `Exactness` (`SearchIsExact`). `Stability` says that what is stable is
  untouched since the search began, `Stages` and `Known` what a search has found of it at
  each stage, or has failed to read (`missed`), and with which of the two indexes
  (`blind`); with `Coherence` that is what it would find at rest.
* `KeywordProofs`, statistics: `Statistics` and `EveryMatch`. `Exact` keeps the total
  length as the number of places of all documents, instead of a sum, so that replacing a
  document is a matter of two disjoint sets.
* `KeywordProofs`, cache and file: `TypeCorrect`, `SingleIndex` (`OneIndex`) and
  `Refinement` (`ImplementsPromise`). The refinement needs what a writer that has been
  alone knows: `Alone` says that what it has encoded is the index, `OnDisk` that once
  settled the file is whole and holds what the index in memory holds, if there is one.
* `VectorStoreProofs`: `TypeCorrect`, `Maps` (`MapsAreInverse`), `Hits`
  (`HitsAreTheirOwn`) and `Refinement` (`ImplementsPromise`). `OneChunkPerKey` extends
  the two properties to whatever is left of a key in memory and in either file,
  `NextKeyIsFree` says that the next key, saved or not, is beyond all of that. The
  refinement adds its own `Alone` and `OnDisk` (`RInv`): a writer without company finds
  its own maps in `ids.gob` and the nodes it has exported at the front of `graph.bin`.
  It is proved for finitely many chunks and as long as no more keys are given out than
  there are (`[](minted <= KeySpace)`); with a key that comes again it is false, which
  is the hazard of the 32-bit counter.
* `AnswerProofs`, rankings: `RankingTypeCorrectness`, `Agreement` (`AgreementIsKept`),
  `Omissions` (`OmissionsAreEarned`), `ShortAnswers` (`ShortAnswersAreWasted`), for any
  finite number of chunks, any constant of the fusion and any limits. The arithmetic is in
  lemmas about fractions: a smaller rank has a larger share, fusion is strictly monotone,
  and to compare fractions by cross-multiplication is a strict weak order. The invariant
  `RankInv` rests on `Resolving`: no chunk was looked at before a better one, and of each
  memory found the best chunk that was looked at is known. `Omissions` and `ShortAnswers`
  then count: the memories found by injections into the places of the lists, with the
  limits of the two indexes on the other side.
* `AnswerProofs`, lists: `ListingTypeCorrectness` and `PagingIsComplete`
  (`MissesAreSetbacks`), for any number of files, clients and writes and any page. `Coming`
  are the names that come before a given one, in the directory as it is and in the list as
  it is being read. Two sets are counted: `Passed`, names that were there all the while,
  were not given to the client and have fewer `Coming` than the client has passed; and
  `Lost`, rows already read of files that have since gone or moved back. `Sound` is the
  strengthening: together they are no more than the `setbacks`. A write that moves a
  conversation forward takes from neither; one deletion or move back takes one place from
  those behind, and as no two names have the same place in line (`TimesDiffer`) at most
  one of them is newly passed. When a page is answered, the lost rows account for those
  that it passes (`NewlyPassed`). Pages are compared by `Ahead`, the rows before a row,
  which for rows of different times is their place in the sorted list.
* `PrincipalProofs`: types, registry, owners, stores and tokens (`RegistryIsUpToDate`,
  `StoresKeepTheirOwner`, `PrincipalsHaveAStore`, `TokensFollowTheirKeys`). `Fresh` and
  `Seen` say that what a request has read of the registry or of a store is still so
  unless it was overtaken; `InTime`, that what is left to a token is no more than what
  is left of the time since its key died. `Tokens` keeps the properties of
  `PrincipalService` since its steps are steps of that, or leave it alone.
* `StoreAccessProofs`: `TypeCorrect`, `Isolation` (`ContentsBelongToOwner`), `Privacy`
  (`PersonalContentsStay`), `OwnReading` (`ReadersSeeTheirOwn`). `Seen` is the
  strengthening: what a request saw of a record still holds when it acts, unless the
  record is among the `raced`. The steps that would falsify it are exactly those that
  change a record, and they put the store there; so does the deletion of a record by the
  identifier of a memory. `IInv` also says that only an MCP call acts on another store than
  the one it looked at, which is why what a store holds beside its owner's and the admins'
  came in that way.
* `ConversationServiceProofs`: all seven properties of its run. `CopiesAreCurrent` says
  when the copy of the record that a request holds is the record, `Counting` what the
  count is while messages are under way, `Prefixes` and `Growing` how every summary, also
  one that is still in a request's hands, stands to the messages, and `KeepingUp` that a
  summary that is due is pledged by a request. That the summary then has all messages at
  rest (`UpToDate`) is so unless a call failed, a stale copy of the record was written back
  or messages were removed. It assumes finitely many requests.
* `BackupProofs`: `TypeCorrectness`, `SuccessIsSaved` (`SuccessMeansSaved`) and
  `ErrorsAreCaused` (`ErrorsHaveACause`). `Uploading` and `Staging` say where a file that
  nobody touched is while a backup that is alone goes on: in the bucket or still to be
  uploaded, in the staged tree or still to be staged. `Renewal` says why there is always
  something to commit: to ask for a backup is to sign in, which writes the registry, and
  its new version is in no tree before this backup has made one. That a new version can
  always be found when `Versions` is longer than what may be in use is a lemma
  (`Len(Versions) >= Cardinality(Runs) + 3`, for finitely many backups at a time).

What is left to TLC: `EverythingIsSaved`, which is liveness; that the violation of
`revoked_key` can happen; and that each action can be taken at all. Out of the prover's
reach and not attempted: liveness, `ENABLED`, and what a recursive definition computes for
every input. No module declares a recursive operator.

The assumptions on constants are those of the modules: orders are finite sequences
without repetition, special values are none of the ordinary ones, sizes and bounds are
numbers, and the sets over which something is counted are finite (`Chunks` of `Ranking`,
`Runs` of `Backup`, the requests of a conversation). The code counts the same things with
integers.

## Plan

Done: the memory service with its searches and rankings, its indexes and their files,
principals, stores and tokens, access over the life of a store, conversations, listings
and backups, with proofs of all their safety properties. Left, in this order:

1. An abstract memory store (a map from memories to contents that save, update and delete
   change at once) implemented by `MemoryService` for the memories that no two requests
   work on at the same time, in place of the state predicate `Coherent`.
2. The freshness of versions in `Backup` as a counter, without the recycling that `Aged`
   does for the sake of TLC.
3. Deletions that the paging client makes itself.
4. What a memory identifier over MCP can do to files that are no store's.

## Not modelled

* WebUI sessions: every call of the session store does its whole work under one mutex, so
  that two of them have no interleaving, and a session ends at its time whether it was
  pruned before or not.
* A change of the embedding model between runs of the program: a loaded index keeps
  the dimension of its file, and the fields of a store that should record the model
  (`domain/store.go`) are written by no one.
* The chunker and the extraction of text from pages and files: pure functions of their
  input, of which only the number of chunks matters here.
* The lists of stores and of principals, which change nothing and are not cut into pages.
* The rate limiter's map, which only grows; configuration, telemetry and mTLS, which do
  not change after the start; the clients of the language model and the embedder, which
  are one remote call each; the templates, which render.
