------------------------ MODULE ConversationService ------------------------
(***************************************************************************)
(* One conversation: usecase/conversation/service.go over the conversation *)
(* and message repositories.                                               *)
(*                                                                         *)
(* The record (message count and summary) is one file and every message is *)
(* a file of its own.  A handler reads the record, works on that copy, and *)
(* writes the whole copy back, with a call of the language model in between *)
(* when it summarises; no lock holds the record meanwhile.  Messages are   *)
(* ordered by the time their handler took before it wrote the file.        *)
(***************************************************************************)
EXTENDS Naturals, FiniteSets, Sequences

CONSTANTS
  Requests,   \* one-shot requests; one that adds a message names the message
  LLM,        \* a language model is configured
  Threshold,  \* message count from which every new message is summarised; 0: never
  NoRecord,   \* the conversation has no file
  NoSummary,  \* the conversation has no summary
  NoMessage,  \* what a summary of no messages covers
  MaxFaults   \* bound on failing calls and crashes

ASSUME RequestAssumption == IsFiniteSet(Requests)
ASSUME LLMAssumption == LLM \in BOOLEAN
ASSUME ThresholdAssumption == Threshold \in Nat
ASSUME FaultAssumption == MaxFaults \in Nat

Summaries == [through : Requests \cup {NoMessage}, of : SUBSET Requests]
Records   == [count : 0 .. Cardinality(Requests), summary : Summaries \cup {NoSummary}]

ASSUME NoneAssumption ==
  NoMessage \notin Requests /\ NoSummary \notin Summaries /\ NoRecord \notin Records

VARIABLES
  record,      \* conversations/{id}.json: count and summary, or NoRecord
  messages,    \* conversations/{id}-messages: the messages with a file
  order,       \* the messages by CreatedAt
  started,     \* the conversation has been started
  pc, op,      \* next call of each request, and the operation it runs
  copy,        \* its copy of the record
  found,       \* the messages it has listed, then read
  faults,      \* failing calls and crashes so far
  stale,       \* history: requests whose copy is older than the record
  clobbered,   \* history: a stale copy has been written
  emptied,     \* history: messages have been removed
  uncounted,   \* history: messages whose handler has not written the count
  overtaken,   \* history: messages written after a message with a later time
  orphans,     \* history: messages written while there was no record
  seen         \* history: the messages there were when each request began

files   == <<record, messages, order, started>>
locals  == <<op, copy, found>>
history == <<stale, clobbered, emptied, uncounted, overtaken, orphans, seen>>
vars    == <<files, pc, locals, faults, history>>

Fresh == [count |-> 0, summary |-> NoSummary]

Init ==
  /\ record = NoRecord /\ messages = {} /\ order = <<>> /\ started = FALSE
  /\ pc = [r \in Requests |-> "idle"]
  /\ op = [r \in Requests |-> "none"]
  /\ copy = [r \in Requests |-> Fresh]
  /\ found = [r \in Requests |-> {}]
  /\ faults = 0
  /\ stale = {} /\ clobbered = FALSE /\ emptied = FALSE
  /\ uncounted = {} /\ overtaken = {} /\ orphans = {}
  /\ seen = [r \in Requests |-> {}]

\* Start; nobody knows the new identifier before.
Start ==
  /\ ~started
  /\ started' = TRUE
  /\ record' = Fresh
  /\ UNCHANGED <<messages, order, pc, locals, faults, history>>

Steps == {"stamp", "append", "count", "list", "read", "llm", "saveSummary", "promote",
          "deleteAll", "deleteRecord", "deleteDir"}
InFlight == {r \in Requests : pc[r] \in Steps}

GoTo(r, from, next) == pc[r] = from /\ pc' = [pc EXCEPT ![r] = next]

-----------------------------------------------------------------------------
(* The operations: repo.Get, the access check, and on.                     *)

Access(r, o, next, contents) ==
  /\ record # NoRecord
  /\ GoTo(r, "idle", next)
  /\ op' = [op EXCEPT ![r] = o]
  /\ copy' = [copy EXCEPT ![r] = record]
  /\ found' = [found EXCEPT ![r] = contents]
  /\ seen' = [seen EXCEPT ![r] = messages]
  /\ UNCHANGED <<files, faults, stale, clobbered, emptied, uncounted, overtaken, orphans>>

AddMessage(r) == Access(r, "add", "stamp", {})
Get(r)        == Access(r, "get", "list", {})
Summarize(r)  == LLM /\ Access(r, "summarize", "list", {})
Delete(r)     == Access(r, "delete", "deleteAll", {})

\* The summary, when one is asked for and there is one, or else the transcript.
Promote(r) ==
  \/ Access(r, "promote", "list", {})
  \/ /\ record # NoRecord
     /\ record.summary # NoSummary
     /\ Access(r, "promoteSummary", "promote", record.summary.of)

\* No such conversation, not its owner, no model, no confirmation: an error.
Refuse(r) ==
  /\ GoTo(r, "idle", "failed")
  /\ UNCHANGED <<files, locals, faults, history>>

-----------------------------------------------------------------------------
(* Writing the record.                                                     *)

\* repo.Update with a request's copy, whatever the file says by now.
Save(r, conv) ==
  /\ record' = conv
  /\ copy' = [copy EXCEPT ![r] = conv]
  /\ stale' = (stale \cup InFlight) \ {r}
  /\ clobbered' = (clobbered \/ r \in stale)

\* Mutant of ShouldAutoSummarize: only when the threshold is reached exactly.
SummarizeOnce(conv) == LLM /\ Threshold > 0 /\ conv.count = Threshold

ShouldAutoSummarize(conv) == LLM /\ Threshold > 0 /\ conv.count >= Threshold

\* time.Now() for the new message.
Stamp(r) ==
  /\ GoTo(r, "stamp", "append")
  /\ order' = Append(order, r)
  /\ UNCHANGED <<record, messages, started, locals, faults, history>>

Precedes(m, n) == \E i, j \in DOMAIN order : order[i] = m /\ order[j] = n /\ i <= j

\* msgRepo.Append.
AppendMessage(r) ==
  /\ GoTo(r, "append", "count")
  /\ messages' = messages \cup {r}
  /\ uncounted' = uncounted \cup {r}
  /\ overtaken' = IF \E m \in messages : Precedes(r, m) THEN overtaken \cup {r} ELSE overtaken
  /\ orphans' = IF record = NoRecord THEN orphans \cup {r} ELSE orphans
  /\ UNCHANGED <<record, order, started, locals, faults, stale, clobbered, emptied, seen>>

\* Mutant of CountMessage: the copy that is written has no summary.
CountAfresh(r) ==
  LET conv == [count |-> copy[r].count + 1, summary |-> NoSummary] IN
  /\ GoTo(r, "count", IF ShouldAutoSummarize(conv) THEN "list" ELSE "done")
  /\ Save(r, conv)
  /\ uncounted' = uncounted \ {r}
  /\ UNCHANGED <<messages, order, started, op, found, faults, emptied, overtaken, orphans, seen>>

CountMessage(r) ==
  LET conv == [copy[r] EXCEPT !.count = @ + 1] IN
  /\ GoTo(r, "count", IF ShouldAutoSummarize(conv) THEN "list" ELSE "done")
  /\ Save(r, conv)
  /\ uncounted' = uncounted \ {r}
  /\ UNCHANGED <<messages, order, started, op, found, faults, emptied, overtaken, orphans, seen>>

-----------------------------------------------------------------------------
(* msgRepo.GetAll, for whoever reads the messages.                         *)

ListMessages(r) ==
  /\ GoTo(r, "list", "read")
  /\ found' = [found EXCEPT ![r] = messages]
  /\ UNCHANGED <<files, op, copy, faults, history>>

AfterRead(r) ==
  CASE op[r] = "get"     -> "done"
    [] op[r] = "promote" -> "promote"
    [] OTHER             -> "llm"

\* Mutant of ReadMessages: any file that cannot be read is passed over.
ReadSome(r) ==
  /\ GoTo(r, "read", AfterRead(r))
  /\ \E got \in SUBSET found[r] : found' = [found EXCEPT ![r] = got]
  /\ UNCHANGED <<files, op, copy, faults, history>>

\* Files that were removed since they were listed may be read or passed over.
ReadMessages(r) ==
  /\ GoTo(r, "read", AfterRead(r))
  /\ \E gone \in SUBSET (found[r] \ messages) : found' = [found EXCEPT ![r] = @ \ gone]
  /\ UNCHANGED <<files, op, copy, faults, history>>

\* Mutant of IsLatest: the messages are sorted newest first.
IsEarliest(m, ms) ==
  IF ms = {} THEN m = NoMessage ELSE m \in ms /\ \A n \in ms : Precedes(m, n)

\* m is the last of ms, which are sorted by time.
IsLatest(m, ms) ==
  IF ms = {} THEN m = NoMessage ELSE m \in ms /\ \A n \in ms : Precedes(n, m)

\* The model's answer.
LLMAnswers(r) ==
  /\ GoTo(r, "llm", "saveSummary")
  /\ \E m \in found[r] \cup {NoMessage} :
       /\ IsLatest(m, found[r])
       /\ copy' = [copy EXCEPT ![r].summary = [through |-> m, of |-> found[r]]]
  /\ UNCHANGED <<files, op, found, faults, history>>

\* Mutant of SaveSummary: the copy counts the message a second time.
SaveAndCount(r) ==
  /\ GoTo(r, "saveSummary", "done")
  /\ Save(r, [copy[r] EXCEPT !.count = @ + 1])
  /\ UNCHANGED <<messages, order, started, op, found, faults, emptied, uncounted, overtaken, orphans, seen>>

SaveSummary(r) ==
  /\ GoTo(r, "saveSummary", "done")
  /\ Save(r, copy[r])
  /\ UNCHANGED <<messages, order, started, op, found, faults, emptied, uncounted, overtaken, orphans, seen>>

\* memorySaver.CreateFromConversation.
SaveMemory(r) ==
  /\ GoTo(r, "promote", "done")
  /\ UNCHANGED <<files, locals, faults, history>>

-----------------------------------------------------------------------------
(* Delete: the messages, the record, and the messages once more.           *)

DeleteMessages(r) ==
  /\ GoTo(r, "deleteAll", "deleteRecord")
  /\ messages' = {} /\ emptied' = TRUE
  /\ UNCHANGED <<record, order, started, locals, faults, stale, clobbered, uncounted, overtaken, orphans, seen>>

\* Mutant of DeleteRecord: the directory is not looked at again.
DeleteRecordOnly(r) ==
  /\ GoTo(r, "deleteRecord", "done")
  /\ record' = NoRecord
  /\ stale' = (stale \cup InFlight) \ {r}
  /\ UNCHANGED <<messages, order, started, locals, faults, clobbered, emptied, uncounted, overtaken, orphans, seen>>

DeleteRecord(r) ==
  /\ GoTo(r, "deleteRecord", "deleteDir")
  /\ record' = NoRecord
  /\ stale' = (stale \cup InFlight) \ {r}
  /\ UNCHANGED <<messages, order, started, locals, faults, clobbered, emptied, uncounted, overtaken, orphans, seen>>

DeleteDir(r) ==
  /\ GoTo(r, "deleteDir", "done")
  /\ messages' = {}
  /\ UNCHANGED <<record, order, started, locals, faults, history>>

-----------------------------------------------------------------------------
Fault == faults < MaxFaults /\ faults' = faults + 1

\* The removal of a directory that stops leaves any part of it.
Remains(stopped) ==
  IF \E r \in stopped : pc[r] \in {"deleteAll", "deleteDir"}
    THEN /\ messages' \in SUBSET messages
         /\ emptied' = (emptied \/ messages' # messages)
    ELSE UNCHANGED <<messages, emptied>>

\* A call fails; AddMessage answers without minding the errors of its summary.
Fail(r) ==
  /\ Fault
  /\ pc[r] \in Steps \ {"stamp"}
  /\ pc' = [pc EXCEPT ![r] =
       IF op[r] = "add" /\ @ \in {"list", "read", "llm", "saveSummary"} THEN "done" ELSE "failed"]
  /\ Remains({r})
  /\ UNCHANGED <<record, order, started, locals, stale, clobbered, uncounted, overtaken, orphans, seen>>

\* The process dies and starts again with its files.
Crash ==
  /\ Fault
  /\ InFlight # {}
  /\ pc' = [r \in Requests |-> IF r \in InFlight THEN "failed" ELSE pc[r]]
  /\ Remains(InFlight)
  /\ UNCHANGED <<record, order, started, locals, stale, clobbered, uncounted, overtaken, orphans, seen>>

Request(r) ==
  \/ AddMessage(r) \/ Get(r) \/ Summarize(r) \/ Promote(r) \/ Delete(r) \/ Refuse(r)
  \/ Stamp(r) \/ AppendMessage(r) \/ CountMessage(r)
  \/ ListMessages(r) \/ ReadMessages(r) \/ LLMAnswers(r) \/ SaveSummary(r) \/ SaveMemory(r)
  \/ DeleteMessages(r) \/ DeleteRecord(r) \/ DeleteDir(r)
  \/ Fail(r)

Next == Start \/ (\E r \in Requests : Request(r)) \/ Crash

Spec == Init /\ [][Next]_vars

-----------------------------------------------------------------------------
TypeOK ==
  /\ record \in Records \cup {NoRecord}
  /\ messages \subseteq Requests
  /\ order \in Seq(Requests) /\ started \in BOOLEAN
  /\ pc \in [Requests -> Steps \cup {"idle", "done", "failed"}]
  /\ op \in [Requests -> {"none", "add", "get", "summarize", "promote", "promoteSummary", "delete"}]
  /\ copy \in [Requests -> Records]
  /\ found \in [Requests -> SUBSET Requests]
  /\ faults \in 0 .. MaxFaults
  /\ stale \subseteq Requests /\ clobbered \in BOOLEAN /\ emptied \in BOOLEAN
  /\ uncounted \subseteq Requests /\ overtaken \subseteq Requests /\ orphans \subseteq Requests
  /\ seen \in [Requests -> SUBSET Requests]

\* As long as no copy that was older than the record has been written, the record
\* counts the messages that have a file, but for those whose handler was cut short
\* or is not through yet.
CountsItsMessages ==
  ~clobbered /\ ~emptied /\ record # NoRecord =>
    record.count = Cardinality(messages \ uncounted)

\* "The last message ID included in the summary" (domain/conversation.go:23): no
\* message of a summary is later than the one it names, and every earlier message is
\* in it, unless its file was written after a later one or messages were removed.
SummaryIsAPrefix ==
  record # NoRecord /\ record.summary # NoSummary =>
    LET s == record.summary IN
    /\ \A m \in s.of : Precedes(m, s.through)
    /\ ~emptied =>
         \A m \in messages \ overtaken : Precedes(m, s.through) => m \in s.of

\* When nothing is under way, nothing has failed and no stale copy has been written,
\* a conversation at or above the threshold has a summary of all its messages.
SummaryKeepsUp ==
  InFlight = {} /\ faults = 0 /\ ~clobbered /\ ~emptied /\ record # NoRecord =>
    (LLM /\ Threshold > 0 /\ record.count >= Threshold =>
       record.summary # NoSummary /\ messages \subseteq record.summary.of)

\* Once a deletion has been answered the conversation stays gone, unless a copy from
\* before it is written; the only messages left are those written after the record went.
DeletionIsComplete ==
  (\E r \in Requests : op[r] = "delete" /\ pc[r] = "done") /\ ~clobbered =>
    record = NoRecord /\ messages \subseteq orphans

\* What Get, Promote and Summarize give has every message that was there when they
\* began, unless a deletion overlaps.
AnswersMissNothing ==
  \A r \in Requests :
    op[r] \in {"get", "promote", "summarize"} /\ pc[r] = "done" /\ ~emptied =>
      seen[r] \subseteq found[r]

\* A summary only grows: what one summary had, the next one of the record has too,
\* unless a stale copy is written or messages have been removed.
SummariesGrow ==
  [][record # NoRecord /\ record' # NoRecord /\ record.summary # NoSummary
       /\ ~clobbered' /\ ~emptied =>
         record'.summary # NoSummary /\ record.summary.of \subseteq record'.summary.of]_vars

-----------------------------------------------------------------------------
(* The inductive invariant.                                                 *)

OwnSteps ==
  \A r \in Requests :
    /\ pc[r] = "idle" => op[r] = "none"
    /\ op[r] = "none" => pc[r] \in {"idle", "failed"}
    /\ pc[r] \in {"stamp", "append", "count"} => op[r] = "add"
    /\ pc[r] \in {"list", "read"} => op[r] \in {"add", "get", "summarize", "promote"}
    /\ pc[r] \in {"llm", "saveSummary"} => op[r] \in {"add", "summarize"}
    /\ op[r] = "delete" => pc[r] \in {"deleteAll", "deleteRecord", "deleteDir", "done", "failed"}
    /\ pc[r] \in {"deleteAll", "deleteRecord", "deleteDir"} => op[r] = "delete"

Beginning ==
  ~started => record = NoRecord /\ messages = {} /\ \A r \in Requests : op[r] = "none"

\* A copy that is not stale is the record, but for the summary that is to be saved.
CopiesAreCurrent ==
  \A r \in InFlight \ stale : op[r] # "delete" =>
    /\ record # NoRecord /\ copy[r].count = record.count
    /\ pc[r] # "saveSummary" => copy[r].summary = record.summary

\* Nobody counts more than once: no count is beyond the requests that are past theirs.
Tallied == {r \in Requests : op[r] = "add" /\ pc[r] \notin {"stamp", "append", "count"}}
CountsAreBounded ==
  /\ record # NoRecord => record.count <= Cardinality(Tallied)
  /\ \A r \in Requests : copy[r].count <= Cardinality(Tallied)

Counting ==
  /\ IsFiniteSet(messages)
  /\ \A r \in Requests : pc[r] \in {"idle", "stamp", "append"} => r \notin messages
  /\ \A r \in Requests : pc[r] = "count" => r \in uncounted /\ (~emptied => r \in messages)
  /\ \A r \in Requests : pc[r] \in {"deleteRecord", "deleteDir"} => emptied
  /\ CountsItsMessages

Deletion ==
  /\ ~clobbered /\ (\E r \in Requests : op[r] = "delete" /\ pc[r] \in {"deleteDir", "done"})
       => record = NoRecord
  /\ DeletionIsComplete

\* Until messages are removed, whatever anybody has read of them is still there.
Reading ==
  ~emptied => \A r \in Requests :
    /\ seen[r] \subseteq messages /\ found[r] \subseteq messages
    /\ op[r] \in {"get", "promote", "summarize"}
         /\ pc[r] \in {"read", "llm", "saveSummary", "promote", "done"} => seen[r] \subseteq found[r]

Summarized(rec) == IF rec = NoRecord \/ rec.summary = NoSummary THEN {} ELSE rec.summary.of

\* A request whose copy is not stale has listed at least what the summary has.
Growing ==
  ~emptied =>
    /\ Summarized(record) \subseteq messages
    /\ \A r \in Requests : pc[r] = "saveSummary" => copy[r].summary # NoSummary
    /\ \A r \in InFlight \ stale :
         /\ pc[r] \in {"read", "llm"} => Summarized(record) \subseteq found[r]
         /\ pc[r] = "saveSummary" => Summarized(record) \subseteq copy[r].summary.of

\* What SummaryIsAPrefix asks of a summary, wherever it is kept.
Faithful(s) ==
  /\ \A m \in s.of : Precedes(m, s.through)
  /\ ~emptied =>
       /\ s.of \subseteq messages /\ s.through \in messages \cup {NoMessage}
       /\ \A m \in messages \ overtaken : Precedes(m, s.through) => m \in s.of

Prefixes ==
  /\ record # NoRecord /\ record.summary # NoSummary => Faithful(record.summary)
  /\ \A r \in Requests : copy[r].summary # NoSummary => Faithful(copy[r].summary)
  /\ ~emptied => \A r \in Requests : pc[r] \in {"read", "llm"} =>
       \A m \in messages \ overtaken, n \in found[r] : Precedes(m, n) => m \in found[r]

\* Somebody has yet to put m into the summary.
Pledged(m) ==
  \E r \in Requests : op[r] \in {"add", "summarize"} /\
    \/ pc[r] = "list"
    \/ pc[r] \in {"read", "llm"} /\ m \in found[r]
    \/ pc[r] = "saveSummary" /\ m \in copy[r].summary.of

KeepingUp ==
  /\ faults = 0 /\ ~clobbered /\ ~emptied
  /\ record # NoRecord /\ LLM /\ Threshold > 0 /\ record.count >= Threshold
  => \A m \in messages : m \in Summarized(record) \/ pc[m] = "count" \/ Pledged(m)

IInv ==
  /\ TypeOK /\ OwnSteps /\ Beginning /\ CopiesAreCurrent /\ CountsAreBounded
  /\ Counting /\ Deletion /\ Reading /\ Growing /\ Prefixes /\ KeepingUp
=============================================================================
