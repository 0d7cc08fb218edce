---------------------- MODULE ConversationServiceProofs ----------------------
(***************************************************************************)
(* For any number of requests: as long as no copy that was older than the  *)
(* record is written, a conversation counts its messages, its summary      *)
(* keeps up with them and only grows, and a deletion is complete.          *)
(***************************************************************************)
EXTENDS ConversationService, FiniteSetTheorems, TLAPS

Operations == {"add", "get", "summarize", "promote", "promoteSummary", "delete"}

\* How the operations begin.
Entry(o, next, contents) ==
  \/ o = "add" /\ next = "stamp" /\ contents = {}
  \/ o \in {"get", "summarize", "promote"} /\ next = "list" /\ contents = {}
  \/ o = "delete" /\ next = "deleteAll" /\ contents = {}
  \/ /\ o = "promoteSummary" /\ next = "promote"
     /\ record.summary # NoSummary /\ contents = record.summary.of

\* The requests that are past their count are finitely many.
LEMMA TalliedType ==
  IsFiniteSet(Tallied) /\ Cardinality(Tallied) \in Nat /\ Cardinality(Requests) \in Nat
<1>1. Tallied \subseteq Requests
  BY DEF Tallied
<1> QED BY <1>1, RequestAssumption, FS_Subset, FS_CardinalityType

\* As they grow in number, what was bounded by it stays so.
LEMMA TalliedGrows ==
  /\ Tallied \subseteq Tallied' =>
       \A k \in Int : k <= Cardinality(Tallied) => k <= Cardinality(Tallied')
  /\ Cardinality(Tallied') \in Nat /\ Cardinality(Tallied') <= Cardinality(Requests)
<1>1. Tallied' \subseteq Requests /\ IsFiniteSet(Tallied')
  BY RequestAssumption, FS_Subset DEF Tallied
<1>2. /\ Tallied \subseteq Tallied' => Cardinality(Tallied) <= Cardinality(Tallied')
      /\ Cardinality(Tallied') \in Nat /\ Cardinality(Tallied') <= Cardinality(Requests)
  BY <1>1, RequestAssumption, FS_Subset, FS_CardinalityType
<1> QED BY <1>2, TalliedType

\* A summary stays what it was while the messages, their order and their accidents do,
\* and when messages are removed.
LEMMA FaithfulStays ==
  ASSUME NEW s, Faithful(s), order' = order,
         ~emptied' => ~emptied /\ messages' = messages /\ overtaken' = overtaken
  PROVE  Faithful(s)'
BY DEF Faithful, Precedes

\* Nothing has been stored or asked for yet.
LEMMA StartStep ==
  ASSUME IInv, Start
  PROVE  IInv'
<1> USE DEF Start, Fresh, GoTo, files, locals, history, IInv
<1>1. TypeOK'
  <2>1. Fresh \in Records
    BY TalliedType DEF Records
  <2> QED BY <2>1 DEF TypeOK
<1>2. OwnSteps'
  BY DEF OwnSteps, TypeOK, AfterRead
<1>3. Beginning'
  BY DEF Beginning, TypeOK, OwnSteps
<1>4. CopiesAreCurrent'
  BY DEF CopiesAreCurrent, TypeOK, OwnSteps, InFlight, Steps, Beginning
<1>5. CountsAreBounded'
  BY TalliedType DEF CountsAreBounded, Tallied
<1>6. Counting'
  <2>1. messages = {} /\ messages \ uncounted = {}
    BY DEF Beginning
  <2>2. CountsItsMessages'
    BY <2>1, FS_EmptySet DEF CountsItsMessages
  <2> QED BY <2>2 DEF Counting
<1>7. Deletion'
  BY DEF Deletion, TypeOK, OwnSteps, Beginning, CopiesAreCurrent, DeletionIsComplete, InFlight, Steps
<1>8. Reading'
  BY DEF Reading, TypeOK, OwnSteps
<1>9. Growing'
  BY DEF Growing, TypeOK, OwnSteps, CopiesAreCurrent, Reading, Summarized, InFlight, Steps
<1>10. Prefixes'
  BY DEF Prefixes, TypeOK, OwnSteps, Faithful, Precedes
<1>11. KeepingUp'
  BY ThresholdAssumption DEF KeepingUp
<1> QED BY <1>1, <1>2, <1>3, <1>4, <1>5, <1>6, <1>7, <1>8, <1>9, <1>10, <1>11

\* A request begins with the record as it is.
LEMMA AccessStep ==
  ASSUME IInv, NEW r \in Requests, NEW o \in Operations, NEW next, NEW contents,
         Entry(o, next, contents), Access(r, o, next, contents)
  PROVE  IInv'
<1> USE DEF Access, Operations, Entry, GoTo, files, locals, history, IInv
<1>1. TypeOK'
  <2>1. record \in Records /\ contents \subseteq Requests
    BY DEF TypeOK, Records, Summaries
  <2> QED BY <2>1 DEF TypeOK, Steps
<1>2. OwnSteps'
  BY DEF OwnSteps, TypeOK, AfterRead
<1>3. Beginning'
  BY DEF Beginning, TypeOK, OwnSteps
<1>4. CopiesAreCurrent'
  BY DEF CopiesAreCurrent, TypeOK, OwnSteps, InFlight, Steps
<1>5. CountsAreBounded'
  <2>1. Tallied' = Tallied
    BY DEF TypeOK, OwnSteps, Tallied
  <2> QED BY <2>1 DEF CountsAreBounded, TypeOK
<1>6. Counting'
  BY DEF Counting, TypeOK, OwnSteps, CopiesAreCurrent, CountsItsMessages, InFlight, Steps
<1>7. Deletion'
  BY DEF Deletion, TypeOK, OwnSteps, Beginning, CopiesAreCurrent, DeletionIsComplete, InFlight, Steps
<1>8. Reading'
  <2>1. ~emptied => contents \subseteq messages
    BY DEF Growing, Summarized
  <2> QED BY <2>1 DEF Reading, TypeOK
<1>9. Growing'
  BY DEF Growing, TypeOK, OwnSteps, CopiesAreCurrent, Reading, Summarized, InFlight, Steps
<1>10. Prefixes'
  <2>1. \A s : Faithful(s) => Faithful(s)'
    BY FaithfulStays
  <2> QED BY <2>1 DEF Prefixes, TypeOK, Precedes
<1>11. KeepingUp'
  BY DEF KeepingUp, TypeOK, OwnSteps, CopiesAreCurrent, Reading, Growing, Summarized, Pledged, InFlight, Steps
<1> QED BY <1>1, <1>2, <1>3, <1>4, <1>5, <1>6, <1>7, <1>8, <1>9, <1>10, <1>11

\* A refused request leaves everything as it is.
LEMMA RefuseStep ==
  ASSUME IInv, NEW r \in Requests, Refuse(r)
  PROVE  IInv'
<1> USE DEF Refuse, GoTo, files, locals, history, IInv
<1>1. TypeOK'
  BY DEF TypeOK, InFlight, Steps
<1>2. OwnSteps'
  BY DEF OwnSteps, TypeOK, AfterRead
<1>3. Beginning'
  BY DEF Beginning, TypeOK, OwnSteps
<1>4. CopiesAreCurrent'
  BY DEF CopiesAreCurrent, TypeOK, OwnSteps, InFlight, Steps
<1>5. CountsAreBounded'
  <2>1. Tallied \subseteq Tallied'
    BY DEF TypeOK, OwnSteps, Tallied, InFlight, Steps
  <2>2. \A k \in Int : k <= Cardinality(Tallied) => k <= Cardinality(Tallied')
    BY <2>1, TalliedGrows
  <2> QED BY <2>2, TalliedType DEF CountsAreBounded, TypeOK, Records
<1>6. Counting'
  BY DEF Counting, TypeOK, OwnSteps, CopiesAreCurrent, CountsItsMessages, InFlight, Steps
<1>7. Deletion'
  BY DEF Deletion, TypeOK, OwnSteps, Beginning, CopiesAreCurrent, DeletionIsComplete, InFlight, Steps
<1>8. Reading'
  BY DEF Reading, TypeOK, OwnSteps
<1>9. Growing'
  BY DEF Growing, TypeOK, OwnSteps, CopiesAreCurrent, Reading, Summarized, InFlight, Steps
<1>10. Prefixes'
  BY DEF Prefixes, TypeOK, OwnSteps, Faithful, Precedes
<1>11. KeepingUp'
  BY DEF KeepingUp, TypeOK, OwnSteps, CopiesAreCurrent, Reading, Growing, Summarized, Pledged, InFlight, Steps
<1> QED BY <1>1, <1>2, <1>3, <1>4, <1>5, <1>6, <1>7, <1>8, <1>9, <1>10, <1>11

\* A message gets its place in the order: the last.
LEMMA StampStep ==
  ASSUME IInv, NEW r \in Requests, Stamp(r)
  PROVE  IInv'
<1> USE DEF Stamp, GoTo, files, locals, history, IInv
<1>1. TypeOK'
  BY DEF TypeOK, InFlight, Steps
<1>2. OwnSteps'
  BY DEF OwnSteps, TypeOK, AfterRead
<1>3. Beginning'
  BY DEF Beginning, TypeOK, OwnSteps
<1>4. CopiesAreCurrent'
  BY DEF CopiesAreCurrent, TypeOK, OwnSteps, InFlight, Steps
<1>5. CountsAreBounded'
  <2>1. Tallied \subseteq Tallied'
    BY DEF TypeOK, OwnSteps, Tallied, InFlight, Steps
  <2>2. \A k \in Int : k <= Cardinality(Tallied) => k <= Cardinality(Tallied')
    BY <2>1, TalliedGrows
  <2> QED BY <2>2, TalliedType DEF CountsAreBounded, TypeOK, Records
<1>6. Counting'
  BY DEF Counting, TypeOK, OwnSteps, CopiesAreCurrent, CountsItsMessages, InFlight, Steps
<1>7. Deletion'
  BY DEF Deletion, TypeOK, OwnSteps, Beginning, CopiesAreCurrent, DeletionIsComplete, InFlight, Steps
<1>8. Reading'
  BY DEF Reading, TypeOK, OwnSteps
<1>9. Growing'
  BY DEF Growing, TypeOK, OwnSteps, CopiesAreCurrent, Reading, Summarized, InFlight, Steps
<1>10. Prefixes'
  <2>1. \A m, n : Precedes(m, n) => Precedes(m, n)'
    BY DEF TypeOK, Precedes
  <2>2. \A m, n : n # r /\ Precedes(m, n)' => Precedes(m, n)
    BY DEF TypeOK, Precedes
  <2>3. r \notin messages /\ r # NoMessage
    BY NoneAssumption DEF Counting
  <2>4. ASSUME NEW s, Faithful(s) PROVE Faithful(s)'
    BY <2>1, <2>2, <2>3, <2>4 DEF Faithful
  <2>5. ~emptied => \A x \in Requests : found[x] \subseteq messages
    BY DEF Reading
  <2>6. ~emptied' => \A x \in Requests : pc'[x] \in {"read", "llm"} =>
          \A m \in messages' \ overtaken', n \in found'[x] : Precedes(m, n)' => m \in found'[x]
    BY <2>2, <2>3, <2>5 DEF Prefixes, TypeOK
  <2> QED BY <2>4, <2>6 DEF Prefixes
<1>11. KeepingUp'
  BY DEF KeepingUp, TypeOK, OwnSteps, CopiesAreCurrent, Reading, Growing, Summarized, Pledged, InFlight, Steps
<1> QED BY <1>1, <1>2, <1>3, <1>4, <1>5, <1>6, <1>7, <1>8, <1>9, <1>10, <1>11

\* A message has its file, and is not counted yet.
LEMMA AppendMessageStep ==
  ASSUME IInv, NEW r \in Requests, AppendMessage(r)
  PROVE  IInv'
<1> USE DEF AppendMessage, GoTo, files, locals, history, IInv
<1>1. TypeOK'
  BY DEF TypeOK, InFlight, Steps
<1>2. OwnSteps'
  BY DEF OwnSteps, TypeOK, AfterRead
<1>3. Beginning'
  BY DEF Beginning, TypeOK, OwnSteps
<1>4. CopiesAreCurrent'
  BY DEF CopiesAreCurrent, TypeOK, OwnSteps, InFlight, Steps
<1>5. CountsAreBounded'
  <2>1. Tallied \subseteq Tallied'
    BY DEF TypeOK, OwnSteps, Tallied, InFlight, Steps
  <2>2. \A k \in Int : k <= Cardinality(Tallied) => k <= Cardinality(Tallied')
    BY <2>1, TalliedGrows
  <2> QED BY <2>2, TalliedType DEF CountsAreBounded, TypeOK, Records
<1>6. Counting'
  <2>1. r \notin messages /\ (messages \cup {r}) \ (uncounted \cup {r}) = messages \ uncounted
    BY DEF Counting
  <2>2. CountsItsMessages'
    BY <2>1 DEF Counting, CountsItsMessages
  <2>3. IsFiniteSet(messages')
    BY FS_AddElement DEF Counting
  <2> QED BY <2>2, <2>3 DEF Counting, TypeOK
<1>7. Deletion'
  BY DEF Deletion, TypeOK, OwnSteps, Beginning, CopiesAreCurrent, DeletionIsComplete, InFlight, Steps
<1>8. Reading'
  BY DEF Reading, TypeOK, OwnSteps
<1>9. Growing'
  BY DEF Growing, TypeOK, OwnSteps, CopiesAreCurrent, Reading, Summarized, InFlight, Steps
<1>10. Prefixes'
  <2>1. ASSUME NEW m, NEW n \in messages, m \in messages' \ overtaken', Precedes(m, n)
        PROVE  m \in messages \ overtaken
    BY <2>1
  <2>2. \A m, n : Precedes(m, n)' <=> Precedes(m, n)
    BY DEF Precedes
  <2>3. \A m : ~Precedes(m, NoMessage)
    BY NoneAssumption DEF TypeOK, Precedes
  <2>4. ASSUME NEW s, Faithful(s) PROVE Faithful(s)'
    BY <2>1, <2>2, <2>3, <2>4 DEF Faithful
  <2>5. ~emptied => \A x \in Requests : found[x] \subseteq messages
    BY DEF Reading
  <2>6. ~emptied' => \A x \in Requests : pc'[x] \in {"read", "llm"} =>
          \A m \in messages' \ overtaken', n \in found'[x] : Precedes(m, n)' => m \in found'[x]
    BY <2>1, <2>2, <2>5 DEF Prefixes, TypeOK
  <2> QED BY <2>4, <2>6 DEF Prefixes
<1>11. KeepingUp'
  BY DEF KeepingUp, TypeOK, OwnSteps, CopiesAreCurrent, Reading, Growing, Summarized, Pledged, InFlight, Steps
<1> QED BY <1>1, <1>2, <1>3, <1>4, <1>5, <1>6, <1>7, <1>8, <1>9, <1>10, <1>11

\* A message is counted, or the write is that of a stale copy.
LEMMA CountMessageStep ==
  ASSUME IInv, NEW r \in Requests, CountMessage(r)
  PROVE  IInv'
<1> USE DEF CountMessage, Save, GoTo, files, locals, history, IInv
<1> DEFINE conv == [copy[r] EXCEPT !.count = @ + 1]
<1>a. copy[r] \in Records /\ copy[r].count + 1 <= Cardinality(Tallied')
  <2>1. r \notin Tallied /\ Tallied' = Tallied \cup {r}
    BY DEF TypeOK, OwnSteps, Tallied
  <2>2. Cardinality(Tallied') = Cardinality(Tallied) + 1
    BY <2>1, TalliedType, FS_AddElement
  <2> QED BY <2>2, TalliedType DEF CountsAreBounded, TypeOK, Records
<1>b. conv.count = copy[r].count + 1 /\ conv.summary = copy[r].summary
  BY <1>a DEF Records
<1>c. conv \in Records /\ conv # NoRecord
  <2>1. copy[r].count + 1 \in 0 .. Cardinality(Requests)
    BY <1>a, TalliedType, TalliedGrows DEF Records
  <2> QED BY <1>a, <2>1, NoneAssumption DEF Records
<1>d. /\ record' = conv /\ copy' = [copy EXCEPT ![r] = conv]
      /\ stale' = (stale \cup InFlight) \ {r} /\ clobbered' = (clobbered \/ r \in stale)
      /\ uncounted' = uncounted \ {r}
      /\ pc[r] = "count" /\ pc' = [pc EXCEPT ![r] = IF ShouldAutoSummarize(conv) THEN "list" ELSE "done"]
      /\ UNCHANGED <<messages, order, started, op, found, faults, emptied, overtaken, orphans, seen>>
  OBVIOUS
<1> HIDE DEF conv, CountMessage, Save, GoTo
<1>1. TypeOK'
  BY <1>c, <1>d DEF TypeOK, InFlight, Steps
<1>2. OwnSteps'
  BY <1>b, <1>c, <1>d DEF OwnSteps, TypeOK
<1>3. Beginning'
  BY <1>b, <1>c, <1>d DEF Beginning, TypeOK, OwnSteps
<1>4. CopiesAreCurrent'
  BY <1>b, <1>c, <1>d DEF CopiesAreCurrent, TypeOK, OwnSteps, InFlight, Steps
<1>5. CountsAreBounded'
  <2>1. Tallied \subseteq Tallied'
    BY <1>d DEF TypeOK, OwnSteps, Tallied
  <2>2. \A k \in Int : k <= Cardinality(Tallied) => k <= Cardinality(Tallied')
    BY <2>1, TalliedGrows
  <2>3. \A x \in Requests : copy[x].count \in Int
    BY TalliedType DEF TypeOK, Records
  <2> QED BY <1>a, <1>b, <1>d, <2>2, <2>3 DEF CountsAreBounded, TypeOK
<1>6. Counting'
  <2>1. ASSUME ~clobbered', ~emptied
        PROVE  conv.count = Cardinality(messages \ uncounted')
    <3>1. r \notin stale /\ ~clobbered
      BY <1>d, <2>1
    <3>2. record # NoRecord /\ copy[r].count = record.count
      BY <1>d, <3>1 DEF CopiesAreCurrent, OwnSteps, InFlight, Steps
    <3>3. record.count = Cardinality(messages \ uncounted)
      BY <2>1, <3>1, <3>2 DEF Counting, CountsItsMessages
    <3>4. /\ r \notin messages \ uncounted
          /\ messages \ uncounted' = (messages \ uncounted) \cup {r}
      BY <1>d, <2>1 DEF Counting
    <3>5. IsFiniteSet(messages \ uncounted)
      BY FS_Subset DEF Counting
    <3>6. Cardinality(messages \ uncounted') = Cardinality(messages \ uncounted) + 1
      BY <3>4, <3>5, FS_AddElement
    <3> QED BY <1>b, <3>2, <3>3, <3>6
  <2>2. CountsItsMessages'
    BY <1>d, <2>1 DEF CountsItsMessages
  <2> QED BY <1>d, <2>2 DEF Counting, TypeOK
<1>7. Deletion'
  BY <1>b, <1>c, <1>d DEF Deletion, TypeOK, OwnSteps, CopiesAreCurrent, Beginning, DeletionIsComplete, InFlight, Steps
<1>8. Reading'
  BY <1>b, <1>c, <1>d DEF Reading, TypeOK, OwnSteps
<1>9. Growing'
  <2>1. r \notin stale => Summarized(record') = Summarized(record)
    BY <1>b, <1>c, <1>d DEF CopiesAreCurrent, OwnSteps, Summarized, InFlight, Steps
  <2>2. ~emptied => Summarized(record') \subseteq messages
    BY <1>b, <1>c, <1>d DEF Prefixes, Faithful, Summarized
  <2> QED BY <1>d, <2>1, <2>2 DEF Growing, TypeOK, InFlight, Steps
<1>10. Prefixes'
  BY <1>b, <1>c, <1>d DEF Prefixes, TypeOK, Precedes, Faithful
<1>11. KeepingUp'
  <2>1. LLM /\ Threshold > 0 /\ conv.count >= Threshold => pc'[r] = "list"
    BY <1>d DEF TypeOK, ShouldAutoSummarize
  <2> QED BY <1>d, <2>1 DEF KeepingUp, Pledged, OwnSteps, TypeOK
<1> QED BY <1>1, <1>2, <1>3, <1>4, <1>5, <1>6, <1>7, <1>8, <1>9, <1>10, <1>11

\* The messages that are there are listed.
LEMMA ListMessagesStep ==
  ASSUME IInv, NEW r \in Requests, ListMessages(r)
  PROVE  IInv'
<1> USE DEF ListMessages, GoTo, files, locals, history, IInv
<1>1. TypeOK'
  BY DEF TypeOK, InFlight, Steps
<1>2. OwnSteps'
  BY DEF OwnSteps, TypeOK, AfterRead
<1>3. Beginning'
  BY DEF Beginning, TypeOK, OwnSteps
<1>4. CopiesAreCurrent'
  BY DEF CopiesAreCurrent, TypeOK, OwnSteps, InFlight, Steps
<1>5. CountsAreBounded'
  <2>1. Tallied \subseteq Tallied'
    BY DEF TypeOK, OwnSteps, Tallied, InFlight, Steps
  <2>2. \A k \in Int : k <= Cardinality(Tallied) => k <= Cardinality(Tallied')
    BY <2>1, TalliedGrows
  <2> QED BY <2>2, TalliedType DEF CountsAreBounded, TypeOK, Records
<1>6. Counting'
  BY DEF Counting, TypeOK, OwnSteps, CopiesAreCurrent, CountsItsMessages, InFlight, Steps
<1>7. Deletion'
  BY DEF Deletion, TypeOK, OwnSteps, Beginning, CopiesAreCurrent, DeletionIsComplete, InFlight, Steps
<1>8. Reading'
  BY DEF Reading, TypeOK, OwnSteps
<1>9. Growing'
  BY DEF Growing, TypeOK, OwnSteps, CopiesAreCurrent, Reading, Summarized, InFlight, Steps
<1>10. Prefixes'
  BY DEF Prefixes, TypeOK, OwnSteps, Faithful, Precedes
<1>11. KeepingUp'
  BY DEF KeepingUp, TypeOK, OwnSteps, CopiesAreCurrent, Reading, Growing, Summarized, Pledged, InFlight, Steps
<1> QED BY <1>1, <1>2, <1>3, <1>4, <1>5, <1>6, <1>7, <1>8, <1>9, <1>10, <1>11

\* What has been listed and is still there is read.
LEMMA ReadMessagesStep ==
  ASSUME IInv, NEW r \in Requests, ReadMessages(r)
  PROVE  IInv'
<1> USE DEF ReadMessages, AfterRead, GoTo, files, locals, history, IInv
<1>1. TypeOK'
  BY DEF TypeOK, InFlight, Steps
<1>2. OwnSteps'
  BY DEF OwnSteps, TypeOK
<1>3. Beginning'
  BY DEF Beginning, TypeOK, OwnSteps
<1>4. CopiesAreCurrent'
  BY DEF CopiesAreCurrent, TypeOK, OwnSteps, InFlight, Steps
<1>5. CountsAreBounded'
  <2>1. Tallied \subseteq Tallied'
    BY DEF TypeOK, OwnSteps, Tallied, InFlight, Steps
  <2>2. \A k \in Int : k <= Cardinality(Tallied) => k <= Cardinality(Tallied')
    BY <2>1, TalliedGrows
  <2> QED BY <2>2, TalliedType DEF CountsAreBounded, TypeOK, Records
<1>6. Counting'
  BY DEF Counting, TypeOK, OwnSteps, CopiesAreCurrent, CountsItsMessages, InFlight, Steps
<1>7. Deletion'
  BY DEF Deletion, TypeOK, OwnSteps, Beginning, CopiesAreCurrent, DeletionIsComplete, InFlight, Steps
<1>8. Reading'
  BY DEF Reading, TypeOK, OwnSteps
<1>9. Growing'
  BY DEF Growing, TypeOK, OwnSteps, CopiesAreCurrent, Reading, Summarized, InFlight, Steps
<1>10. Prefixes'
  BY DEF Prefixes, TypeOK, OwnSteps, Faithful, Precedes
<1>11. KeepingUp'
  BY DEF KeepingUp, TypeOK, OwnSteps, CopiesAreCurrent, Reading, Growing, Summarized, Pledged, InFlight, Steps
<1> QED BY <1>1, <1>2, <1>3, <1>4, <1>5, <1>6, <1>7, <1>8, <1>9, <1>10, <1>11

\* The summary covers what was read, and names the last of it.
LEMMA LLMAnswersStep ==
  ASSUME IInv, NEW r \in Requests, LLMAnswers(r)
  PROVE  IInv'
<1> USE DEF LLMAnswers, GoTo, files, locals, history, IInv
<1>a. PICK last \in found[r] \cup {NoMessage} :
        /\ IsLatest(last, found[r])
        /\ copy' = [copy EXCEPT ![r].summary = [through |-> last, of |-> found[r]]]
  OBVIOUS
<1> DEFINE s == [through |-> last, of |-> found[r]]
<1>b. s \in Summaries /\ s # NoSummary /\ s.through = last /\ s.of = found[r]
  BY NoneAssumption DEF TypeOK, Summaries
<1>c. /\ copy'[r] = [copy[r] EXCEPT !.summary = s] /\ \A x \in Requests \ {r} : copy'[x] = copy[x]
      /\ copy'[r] \in Records /\ copy'[r].count = copy[r].count /\ copy'[r].summary = s
      /\ copy' \in [Requests -> Records]
  <2> HIDE DEF s
  <2>1. copy' = [copy EXCEPT ![r].summary = s]
    BY <1>a DEF s
  <2>2. copy[r] \in Records
    BY DEF TypeOK
  <2>3. [copy[r] EXCEPT !.summary = s] \in Records
    BY <1>b, <2>2 DEF Records
  <2> QED BY <2>1, <2>2, <2>3 DEF TypeOK, Records
<1> HIDE DEF s
<1>1. TypeOK'
  BY <1>c DEF TypeOK, Steps
<1>2. OwnSteps'
  BY DEF OwnSteps, TypeOK, AfterRead
<1>3. Beginning'
  BY DEF Beginning, TypeOK, OwnSteps
<1>4. CopiesAreCurrent'
  BY <1>c DEF CopiesAreCurrent, TypeOK, OwnSteps, InFlight, Steps
<1>5. CountsAreBounded'
  <2>1. Tallied' = Tallied
    BY DEF TypeOK, OwnSteps, Tallied
  <2> QED BY <1>c, <2>1 DEF CountsAreBounded
<1>6. Counting'
  BY DEF Counting, TypeOK, OwnSteps, CopiesAreCurrent, CountsItsMessages, InFlight, Steps
<1>7. Deletion'
  BY DEF Deletion, TypeOK, OwnSteps, Beginning, CopiesAreCurrent, DeletionIsComplete, InFlight, Steps
<1>8. Reading'
  BY DEF Reading, TypeOK, OwnSteps
<1>9. Growing'
  BY <1>b, <1>c DEF Growing, TypeOK, Reading, InFlight, Steps
<1>10. Prefixes'
  <2>1. \A x : Faithful(x) => Faithful(x)'
    BY FaithfulStays
  <2>2. \A m : ~Precedes(m, NoMessage)
    BY NoneAssumption DEF TypeOK, Precedes
  <2>3. ~emptied => found[r] \subseteq messages
    BY DEF Reading
  <2>4. \A m \in found[r] : Precedes(m, last)
    BY <1>a DEF IsLatest
  <2>5. last = NoMessage \/ last \in found[r]
    OBVIOUS
  <2>6. ~emptied => \A m \in messages \ overtaken : Precedes(m, last) => m \in found[r]
    BY <2>2, <2>5 DEF Prefixes
  <2>7. Faithful(s)
    BY <1>b, <2>3, <2>4, <2>5, <2>6 DEF Faithful
  <2> QED BY <1>c, <2>1, <2>7 DEF Prefixes, TypeOK, Precedes
<1>11. KeepingUp'
  BY <1>b, <1>c DEF KeepingUp, Pledged, OwnSteps, TypeOK, Summarized
<1> QED BY <1>1, <1>2, <1>3, <1>4, <1>5, <1>6, <1>7, <1>8, <1>9, <1>10, <1>11

\* A summary is saved, or the write is that of a stale copy.
LEMMA SaveSummaryStep ==
  ASSUME IInv, NEW r \in Requests, SaveSummary(r)
  PROVE  IInv'
<1> USE DEF SaveSummary, Save, GoTo, files, locals, history, IInv
<1>a. copy[r] \in Records /\ copy[r] # NoRecord /\ copy' = copy
  BY NoneAssumption DEF TypeOK
<1>1. TypeOK'
  BY DEF TypeOK, InFlight, Steps
<1>2. OwnSteps'
  BY DEF OwnSteps, TypeOK, AfterRead
<1>3. Beginning'
  BY DEF Beginning, TypeOK, OwnSteps
<1>4. CopiesAreCurrent'
  BY DEF CopiesAreCurrent, TypeOK, OwnSteps, InFlight, Steps
<1>5. CountsAreBounded'
  <2>1. Tallied \subseteq Tallied'
    BY DEF TypeOK, OwnSteps, Tallied, InFlight, Steps
  <2>2. \A k \in Int : k <= Cardinality(Tallied) => k <= Cardinality(Tallied')
    BY <2>1, TalliedGrows
  <2> QED BY <2>2, TalliedType DEF CountsAreBounded, TypeOK, Records
<1>6. Counting'
  BY DEF Counting, TypeOK, OwnSteps, CopiesAreCurrent, CountsItsMessages, InFlight, Steps
<1>7. Deletion'
  BY DEF Deletion, TypeOK, OwnSteps, Beginning, CopiesAreCurrent, DeletionIsComplete, InFlight, Steps
<1>8. Reading'
  BY DEF Reading, TypeOK, OwnSteps
<1>9. Growing'
  <2>1. ~emptied => Summarized(record') = copy[r].summary.of /\ copy[r].summary.of \subseteq messages
    BY <1>a DEF Growing, Prefixes, Faithful, Summarized
  <2> QED BY <1>a, <2>1 DEF Growing, TypeOK, InFlight, Steps
<1>10. Prefixes'
  BY DEF Prefixes, TypeOK, OwnSteps, Faithful, Precedes
<1>11. KeepingUp'
  <2>1. SUFFICES ASSUME faults = 0, ~clobbered', ~emptied, LLM, Threshold > 0,
                         copy[r].count >= Threshold, NEW m \in messages
                  PROVE  m \in Summarized(record') \/ pc'[m] = "count" \/ Pledged(m)'
    BY <1>a DEF KeepingUp
  <2>2. r \notin stale /\ ~clobbered
    BY <2>1
  <2>3. record # NoRecord /\ copy[r].count = record.count
    BY <2>2 DEF CopiesAreCurrent, OwnSteps, InFlight, Steps
  <2>4. m \in Summarized(record) \/ pc[m] = "count" \/ Pledged(m)
    BY <2>1, <2>2, <2>3 DEF KeepingUp
  <2>5. Summarized(record') = copy[r].summary.of
    BY <1>a, <2>1 DEF Growing, Summarized
  <2>6. Summarized(record) \subseteq copy[r].summary.of
    BY <2>1, <2>2 DEF Growing, InFlight, Steps
  <2>7. CASE pc[m] = "count"
    BY <2>7 DEF TypeOK
  <2>8. CASE Pledged(m)
    BY <1>a, <2>5, <2>8 DEF Pledged, TypeOK
  <2> QED BY <2>4, <2>5, <2>6, <2>7, <2>8
<1> QED BY <1>1, <1>2, <1>3, <1>4, <1>5, <1>6, <1>7, <1>8, <1>9, <1>10, <1>11

\* A promotion ends.
LEMMA SaveMemoryStep ==
  ASSUME IInv, NEW r \in Requests, SaveMemory(r)
  PROVE  IInv'
<1> USE DEF SaveMemory, GoTo, files, locals, history, IInv
<1>1. TypeOK'
  BY DEF TypeOK, InFlight, Steps
<1>2. OwnSteps'
  BY DEF OwnSteps, TypeOK, AfterRead
<1>3. Beginning'
  BY DEF Beginning, TypeOK, OwnSteps
<1>4. CopiesAreCurrent'
  BY DEF CopiesAreCurrent, TypeOK, OwnSteps, InFlight, Steps
<1>5. CountsAreBounded'
  <2>1. Tallied \subseteq Tallied'
    BY DEF TypeOK, OwnSteps, Tallied, InFlight, Steps
  <2>2. \A k \in Int : k <= Cardinality(Tallied) => k <= Cardinality(Tallied')
    BY <2>1, TalliedGrows
  <2> QED BY <2>2, TalliedType DEF CountsAreBounded, TypeOK, Records
<1>6. Counting'
  BY DEF Counting, TypeOK, OwnSteps, CopiesAreCurrent, CountsItsMessages, InFlight, Steps
<1>7. Deletion'
  BY DEF Deletion, TypeOK, OwnSteps, Beginning, CopiesAreCurrent, DeletionIsComplete, InFlight, Steps
<1>8. Reading'
  BY DEF Reading, TypeOK, OwnSteps
<1>9. Growing'
  BY DEF Growing, TypeOK, OwnSteps, CopiesAreCurrent, Reading, Summarized, InFlight, Steps
<1>10. Prefixes'
  BY DEF Prefixes, TypeOK, OwnSteps, Faithful, Precedes
<1>11. KeepingUp'
  BY DEF KeepingUp, TypeOK, OwnSteps, CopiesAreCurrent, Reading, Growing, Summarized, Pledged, InFlight, Steps
<1> QED BY <1>1, <1>2, <1>3, <1>4, <1>5, <1>6, <1>7, <1>8, <1>9, <1>10, <1>11

\* The messages go: little is claimed of the count and the summary from here on.
LEMMA DeleteMessagesStep ==
  ASSUME IInv, NEW r \in Requests, DeleteMessages(r)
  PROVE  IInv'
<1> USE DEF DeleteMessages, GoTo, files, locals, history, IInv
<1>1. TypeOK'
  BY DEF TypeOK, InFlight, Steps
<1>2. OwnSteps'
  BY DEF OwnSteps, TypeOK, AfterRead
<1>3. Beginning'
  BY DEF Beginning, TypeOK, OwnSteps
<1>4. CopiesAreCurrent'
  BY DEF CopiesAreCurrent, TypeOK, OwnSteps, InFlight, Steps
<1>5. CountsAreBounded'
  <2>1. Tallied \subseteq Tallied'
    BY DEF TypeOK, OwnSteps, Tallied, InFlight, Steps
  <2>2. \A k \in Int : k <= Cardinality(Tallied) => k <= Cardinality(Tallied')
    BY <2>1, TalliedGrows
  <2> QED BY <2>2, TalliedType DEF CountsAreBounded, TypeOK, Records
<1>6. Counting'
  BY FS_EmptySet DEF Counting, CountsItsMessages, TypeOK
<1>7. Deletion'
  BY DEF Deletion, TypeOK, OwnSteps, Beginning, CopiesAreCurrent, DeletionIsComplete, InFlight, Steps
<1>8. Reading'
  BY DEF Reading, TypeOK, OwnSteps
<1>9. Growing'
  BY DEF Growing, TypeOK, OwnSteps, CopiesAreCurrent, Reading, Summarized, InFlight, Steps
<1>10. Prefixes'
  BY DEF Prefixes, TypeOK, OwnSteps, Faithful, Precedes
<1>11. KeepingUp'
  BY DEF KeepingUp, TypeOK, OwnSteps, CopiesAreCurrent, Reading, Growing, Summarized, Pledged, InFlight, Steps
<1> QED BY <1>1, <1>2, <1>3, <1>4, <1>5, <1>6, <1>7, <1>8, <1>9, <1>10, <1>11

\* The record goes, and every copy of it is stale.
LEMMA DeleteRecordStep ==
  ASSUME IInv, NEW r \in Requests, DeleteRecord(r)
  PROVE  IInv'
<1> USE DEF DeleteRecord, GoTo, files, locals, history, IInv
<1>1. TypeOK'
  BY DEF TypeOK, InFlight, Steps
<1>2. OwnSteps'
  BY DEF OwnSteps, TypeOK, AfterRead
<1>3. Beginning'
  BY DEF Beginning, TypeOK, OwnSteps
<1>4. CopiesAreCurrent'
  BY DEF CopiesAreCurrent, TypeOK, OwnSteps, InFlight, Steps
<1>5. CountsAreBounded'
  <2>1. Tallied \subseteq Tallied'
    BY DEF TypeOK, OwnSteps, Tallied, InFlight, Steps
  <2>2. \A k \in Int : k <= Cardinality(Tallied) => k <= Cardinality(Tallied')
    BY <2>1, TalliedGrows
  <2> QED BY <2>2, TalliedType DEF CountsAreBounded, TypeOK, Records
<1>6. Counting'
  BY DEF Counting, TypeOK, OwnSteps, CopiesAreCurrent, CountsItsMessages, InFlight, Steps
<1>7. Deletion'
  BY DEF Deletion, TypeOK, OwnSteps, Beginning, CopiesAreCurrent, DeletionIsComplete, InFlight, Steps
<1>8. Reading'
  BY DEF Reading, TypeOK, OwnSteps
<1>9. Growing'
  BY DEF Growing, TypeOK, OwnSteps, CopiesAreCurrent, Reading, Summarized, InFlight, Steps
<1>10. Prefixes'
  BY DEF Prefixes, TypeOK, OwnSteps, Faithful, Precedes
<1>11. KeepingUp'
  BY DEF KeepingUp, TypeOK, OwnSteps, CopiesAreCurrent, Reading, Growing, Summarized, Pledged, InFlight, Steps
<1> QED BY <1>1, <1>2, <1>3, <1>4, <1>5, <1>6, <1>7, <1>8, <1>9, <1>10, <1>11

\* What messages were written since go as well.
LEMMA DeleteDirStep ==
  ASSUME IInv, NEW r \in Requests, DeleteDir(r)
  PROVE  IInv'
<1> USE DEF DeleteDir, GoTo, files, locals, history, IInv
<1>a. emptied /\ emptied'
  BY DEF Counting
<1>1. TypeOK'
  BY DEF TypeOK, InFlight, Steps
<1>2. OwnSteps'
  BY DEF OwnSteps, TypeOK, AfterRead
<1>3. Beginning'
  BY DEF Beginning, TypeOK, OwnSteps
<1>4. CopiesAreCurrent'
  BY DEF CopiesAreCurrent, TypeOK, OwnSteps, InFlight, Steps
<1>5. CountsAreBounded'
  <2>1. Tallied \subseteq Tallied'
    BY DEF TypeOK, OwnSteps, Tallied, InFlight, Steps
  <2>2. \A k \in Int : k <= Cardinality(Tallied) => k <= Cardinality(Tallied')
    BY <2>1, TalliedGrows
  <2> QED BY <2>2, TalliedType DEF CountsAreBounded, TypeOK, Records
<1>6. Counting'
  BY <1>a, FS_EmptySet DEF Counting, CountsItsMessages, TypeOK
<1>7. Deletion'
  BY DEF Deletion, TypeOK, OwnSteps, Beginning, CopiesAreCurrent, DeletionIsComplete, InFlight, Steps
<1>8. Reading'
  BY <1>a DEF Reading
<1>9. Growing'
  BY <1>a DEF Growing
<1>10. Prefixes'
  <2>1. \A s : Faithful(s) => Faithful(s)'
    BY FaithfulStays, <1>a
  <2> QED BY <2>1, <1>a DEF Prefixes, TypeOK, Precedes
<1>11. KeepingUp'
  BY <1>a DEF KeepingUp
<1> QED BY <1>1, <1>2, <1>3, <1>4, <1>5, <1>6, <1>7, <1>8, <1>9, <1>10, <1>11

\* A failing call ends its request; the removal of a directory may have got anywhere.
LEMMA FailStep ==
  ASSUME IInv, NEW r \in Requests, Fail(r)
  PROVE  IInv'
<1> USE DEF Fail, Fault, GoTo, files, locals, history, IInv
<1>a. /\ messages' \subseteq messages /\ emptied' \in BOOLEAN
      /\ emptied => emptied'
      /\ ~emptied' => messages' = messages
  BY DEF TypeOK, Remains
<1>b. /\ pc[r] \in Steps \ {"stamp"} /\ pc'[r] \in {"done", "failed"}
      /\ pc'[r] = "done" => op[r] = "add"
      /\ pc' \in [Requests -> Steps \cup {"idle", "done", "failed"}]
      /\ \A x \in Requests \ {r} : pc'[x] = pc[x]
  BY DEF TypeOK
<1>1. TypeOK'
  BY <1>a, <1>b, FaultAssumption DEF TypeOK
<1>2. OwnSteps'
  BY <1>a, <1>b DEF OwnSteps, TypeOK, AfterRead, InFlight, Steps
<1>3. Beginning'
  BY <1>a, <1>b DEF Beginning, TypeOK, OwnSteps, InFlight, Steps
<1>4. CopiesAreCurrent'
  BY <1>a, <1>b DEF CopiesAreCurrent, TypeOK, OwnSteps, InFlight, Steps
<1>5. CountsAreBounded'
  <2>1. Tallied \subseteq Tallied'
    BY DEF TypeOK, OwnSteps, Tallied, InFlight, Steps
  <2>2. \A k \in Int : k <= Cardinality(Tallied) => k <= Cardinality(Tallied')
    BY <2>1, TalliedGrows
  <2> QED BY <2>2, TalliedType DEF CountsAreBounded, TypeOK, Records
<1>6. Counting'
  <2>1. CountsItsMessages'
    BY <1>a DEF Counting, CountsItsMessages
  <2>2. IsFiniteSet(messages')
    BY <1>a, FS_Subset DEF Counting
  <2> QED BY <1>a, <1>b, <2>1, <2>2 DEF Counting, TypeOK, InFlight, Steps
<1>7. Deletion'
  BY <1>a, <1>b DEF Deletion, TypeOK, OwnSteps, Beginning, CopiesAreCurrent, DeletionIsComplete, InFlight, Steps
<1>8. Reading'
  BY <1>a, <1>b DEF Reading, TypeOK, OwnSteps, InFlight, Steps
<1>9. Growing'
  BY <1>a, <1>b DEF Growing, TypeOK, OwnSteps, CopiesAreCurrent, Reading, Summarized, InFlight, Steps
<1>10. Prefixes'
  <2>1. \A s : Faithful(s) => Faithful(s)'
    BY FaithfulStays, <1>a
  <2> QED BY <2>1, <1>a, <1>b DEF Prefixes, TypeOK, Precedes
<1>11. KeepingUp'
  BY <1>a, <1>b DEF KeepingUp, TypeOK, OwnSteps, CopiesAreCurrent, Reading, Growing, Summarized, Pledged, InFlight, Steps
<1> QED BY <1>1, <1>2, <1>3, <1>4, <1>5, <1>6, <1>7, <1>8, <1>9, <1>10, <1>11

\* A crash ends whatever was under way.
LEMMA CrashStep ==
  ASSUME IInv, Crash
  PROVE  IInv'
<1> USE DEF Crash, Fault, GoTo, files, locals, history, IInv
<1>a. /\ messages' \subseteq messages /\ emptied' \in BOOLEAN
      /\ emptied => emptied'
      /\ ~emptied' => messages' = messages
  BY DEF TypeOK, Remains
<1>b. /\ \A x \in InFlight : pc'[x] = "failed"
      /\ pc' \in [Requests -> Steps \cup {"idle", "done", "failed"}]
      /\ \A x \in Requests \ InFlight : pc'[x] = pc[x]
  BY DEF TypeOK, InFlight
<1>1. TypeOK'
  BY <1>a, <1>b, FaultAssumption DEF TypeOK
<1>2. OwnSteps'
  BY <1>a, <1>b DEF OwnSteps, TypeOK, AfterRead, InFlight, Steps
<1>3. Beginning'
  BY <1>a, <1>b DEF Beginning, TypeOK, OwnSteps, InFlight, Steps
<1>4. CopiesAreCurrent'
  BY <1>a, <1>b DEF CopiesAreCurrent, TypeOK, OwnSteps, InFlight, Steps
<1>5. CountsAreBounded'
  <2>1. Tallied \subseteq Tallied'
    BY DEF TypeOK, OwnSteps, Tallied, InFlight, Steps
  <2>2. \A k \in Int : k <= Cardinality(Tallied) => k <= Cardinality(Tallied')
    BY <2>1, TalliedGrows
  <2> QED BY <2>2, TalliedType DEF CountsAreBounded, TypeOK, Records
<1>6. Counting'
  <2>1. CountsItsMessages'
    BY <1>a DEF Counting, CountsItsMessages
  <2>2. IsFiniteSet(messages')
    BY <1>a, FS_Subset DEF Counting
  <2> QED BY <1>a, <1>b, <2>1, <2>2 DEF Counting, TypeOK, InFlight, Steps
<1>7. Deletion'
  BY <1>a, <1>b DEF Deletion, TypeOK, OwnSteps, Beginning, CopiesAreCurrent, DeletionIsComplete, InFlight, Steps
<1>8. Reading'
  BY <1>a, <1>b DEF Reading, TypeOK, OwnSteps, InFlight, Steps
<1>9. Growing'
  BY <1>a, <1>b DEF Growing, TypeOK, OwnSteps, CopiesAreCurrent, Reading, Summarized, InFlight, Steps
<1>10. Prefixes'
  <2>1. \A s : Faithful(s) => Faithful(s)'
    BY FaithfulStays, <1>a
  <2> QED BY <2>1, <1>a, <1>b DEF Prefixes, TypeOK, Precedes
<1>11. KeepingUp'
  BY <1>a, <1>b DEF KeepingUp, TypeOK, OwnSteps, CopiesAreCurrent, Reading, Growing, Summarized, Pledged, InFlight, Steps
<1> QED BY <1>1, <1>2, <1>3, <1>4, <1>5, <1>6, <1>7, <1>8, <1>9, <1>10, <1>11

\* Every step preserves the invariant.
LEMMA NextIInv == IInv /\ [Next]_vars => IInv'
<1> SUFFICES ASSUME IInv, [Next]_vars PROVE IInv'
  OBVIOUS
<1>1. ASSUME NEW r \in Requests, Request(r) PROVE IInv'
  <2>1. CASE AddMessage(r)
    BY <2>1, AccessStep DEF AddMessage, Operations, Entry
  <2>2. CASE Get(r)
    BY <2>2, AccessStep DEF Get, Operations, Entry
  <2>3. CASE Summarize(r)
    BY <2>3, AccessStep DEF Summarize, Operations, Entry
  <2>4. CASE Delete(r)
    BY <2>4, AccessStep DEF Delete, Operations, Entry
  <2>5. CASE Promote(r)
    BY <2>5, AccessStep DEF Promote, Operations, Entry
  <2> QED
    BY <1>1, <2>1, <2>2, <2>3, <2>4, <2>5, RefuseStep, StampStep, AppendMessageStep,
       CountMessageStep, ListMessagesStep, ReadMessagesStep, LLMAnswersStep, SaveSummaryStep,
       SaveMemoryStep, DeleteMessagesStep, DeleteRecordStep, DeleteDirStep, FailStep DEF Request
<1>2. CASE UNCHANGED vars
  <2> USE <1>2 DEF IInv, vars, files, locals, history
  <2>1. (TypeOK /\ OwnSteps /\ Beginning /\ CopiesAreCurrent)'
    BY DEF TypeOK, OwnSteps, Beginning, CopiesAreCurrent, InFlight
  <2>2. (CountsAreBounded /\ Counting /\ Deletion /\ Reading)'
    BY DEF CountsAreBounded, Tallied, Counting, CountsItsMessages, Deletion, DeletionIsComplete, Reading
  <2>3. (Growing /\ Prefixes /\ KeepingUp)'
    BY DEF Growing, Prefixes, KeepingUp, Summarized, Faithful, Precedes, Pledged, InFlight
  <2> QED BY <2>1, <2>2, <2>3
<1> QED BY <1>1, <1>2, StartStep, CrashStep DEF Next

\* Nothing has happened at first.
LEMMA InitIInv == Init => IInv
<1> SUFFICES ASSUME Init PROVE IInv
  OBVIOUS
<1> USE DEF Init
<1>1. TypeOK
  <2>1. Fresh \in Records
    BY TalliedType DEF Fresh, Records
  <2>2. order \in Seq(Requests)
    OBVIOUS
  <2>3. pc \in [Requests -> Steps \cup {"idle", "done", "failed"}]
    OBVIOUS
  <2>4. faults \in 0 .. MaxFaults
    BY FaultAssumption
  <2>5. /\ op \in [Requests -> {"none", "add", "get", "summarize", "promote",
                              "promoteSummary", "delete"}]
        /\ copy \in [Requests -> Records]
    BY <2>1
  <2>6. started \in BOOLEAN /\ clobbered \in BOOLEAN /\ emptied \in BOOLEAN
    OBVIOUS
  <2>7. found \in [Requests -> SUBSET Requests] /\ seen \in [Requests -> SUBSET Requests]
    OBVIOUS
  <2> QED BY <2>2, <2>3, <2>4, <2>5, <2>6, <2>7 DEF TypeOK
<1>2. OwnSteps /\ Beginning
  BY DEF OwnSteps, Beginning
<1>3. CopiesAreCurrent /\ CountsAreBounded
  BY TalliedType DEF CopiesAreCurrent, CountsAreBounded, Fresh, InFlight, Steps
<1>4. Counting /\ Deletion
  BY FS_EmptySet DEF Counting, CountsItsMessages, Deletion, DeletionIsComplete
<1>5. Reading /\ Growing /\ Prefixes
  BY DEF Reading, Growing, Prefixes, Summarized, Fresh, InFlight, Steps
<1>6. KeepingUp
  BY DEF KeepingUp
<1> QED BY <1>1, <1>2, <1>3, <1>4, <1>5, <1>6 DEF IInv

\* The inductive invariant of a conversation.
THEOREM Invariance == Spec => []IInv
BY InitIInv, NextIInv, PTL DEF Spec

-----------------------------------------------------------------------------
\* The variables keep their types; the count never exceeds the messages asked for.
THEOREM TypeCorrect == Spec => []TypeOK
<1>1. IInv => TypeOK
  BY DEF IInv
<1> QED BY <1>1, Invariance, PTL

\* For any number of overlapping requests: the record counts the messages that have a
\* file, but for those of handlers that were cut short, unless a stale copy of the record
\* was written or messages were removed (AddMessage).
THEOREM Counts == Spec => []CountsItsMessages
<1>1. IInv => CountsItsMessages
  BY DEF IInv, Counting
<1> QED BY <1>1, Invariance, PTL

\* A summary names the latest message it has, and has every earlier one that was in time
\* (doSummarize), also one that a stale copy brought back.
THEOREM Prefix == Spec => []SummaryIsAPrefix
<1>1. IInv => SummaryIsAPrefix
  BY DEF IInv, Prefixes, Faithful, SummaryIsAPrefix
<1> QED BY <1>1, Invariance, PTL

\* Whenever nothing is under way the summary has all messages of a conversation that is
\* beyond the threshold, unless a call failed, a stale copy was written or messages were
\* removed (shouldAutoSummarize, AddMessage).
THEOREM UpToDate == Spec => []SummaryKeepsUp
<1>1. ASSUME IInv PROVE SummaryKeepsUp
  <2> SUFFICES ASSUME InFlight = {}, faults = 0, ~clobbered, ~emptied, record # NoRecord,
                      LLM, Threshold > 0, record.count >= Threshold
               PROVE  record.summary # NoSummary /\ messages \subseteq record.summary.of
    BY DEF SummaryKeepsUp
  <2> USE <1>1 DEF IInv
  <2>1. \A x \in Requests : pc[x] \notin Steps
    BY DEF InFlight
  <2>2. messages \subseteq Summarized(record)
    BY <2>1 DEF KeepingUp, Pledged, TypeOK, Steps
  <2>3. messages # {}
    <3>1. SUFFICES ASSUME messages = {} PROVE FALSE
      OBVIOUS
    <3>2. messages \ uncounted = {}
      BY <3>1
    <3>3. record.count = 0
      BY <3>2, FS_EmptySet DEF Counting, CountsItsMessages
    <3> QED BY <3>3, ThresholdAssumption
  <2> QED BY <2>2, <2>3 DEF Summarized
<1> QED BY <1>1, Invariance, PTL

\* Once a deletion has been answered there is no record, and no message but those that
\* were written after the record went, unless a stale copy of it was written (Delete).
THEOREM Deleted == Spec => []DeletionIsComplete
<1>1. IInv => DeletionIsComplete
  BY DEF IInv, Deletion
<1> QED BY <1>1, Invariance, PTL

\* An answer has all messages there were when it was asked for, unless messages were
\* removed (Get, Promote, Summarize).
THEOREM Answers == Spec => []AnswersMissNothing
<1>1. IInv => AnswersMissNothing
  BY DEF IInv, Reading, AnswersMissNothing
<1> QED BY <1>1, Invariance, PTL

\* The summary of a record only grows, unless a stale copy was written or messages were
\* removed (AddMessage, Summarize).
THEOREM Growth == Spec => SummariesGrow
<1>1. ASSUME IInv, [Next]_vars
      PROVE  [record # NoRecord /\ record' # NoRecord /\ record.summary # NoSummary
                /\ ~clobbered' /\ ~emptied =>
                  record'.summary # NoSummary /\ record.summary.of \subseteq record'.summary.of]_vars
  <2> SUFFICES ASSUME record # NoRecord, record' # NoRecord, record.summary # NoSummary,
                      ~clobbered', ~emptied, Next
               PROVE  record'.summary # NoSummary /\ record.summary.of \subseteq record'.summary.of
    BY <1>1
  <2> USE <1>1 DEF IInv
  <2>1. CASE Start
    BY <2>1 DEF Start, Beginning
  <2>2. ASSUME NEW r \in Requests, CountMessage(r)
        PROVE  record'.summary # NoSummary /\ record.summary.of \subseteq record'.summary.of
    <3>1. r \notin stale /\ record' = [copy[r] EXCEPT !.count = @ + 1] /\ pc[r] = "count"
      BY <2>2 DEF CountMessage, Save, GoTo
    <3>2. copy[r].summary = record.summary
      BY <3>1 DEF CopiesAreCurrent, OwnSteps, InFlight, Steps
    <3>3. record'.summary = copy[r].summary
      BY <3>1 DEF TypeOK, Records
    <3> QED BY <3>2, <3>3
  <2>3. ASSUME NEW r \in Requests, SaveSummary(r)
        PROVE  record'.summary # NoSummary /\ record.summary.of \subseteq record'.summary.of
    <3>1. r \notin stale /\ record' = copy[r] /\ pc[r] = "saveSummary"
      BY <2>3 DEF SaveSummary, Save, GoTo
    <3> QED BY <3>1 DEF Growing, Summarized, InFlight, Steps
  <2>4. \/ Start \/ record' = record \/ record' = NoRecord
        \/ \E r \in Requests : CountMessage(r) \/ SaveSummary(r)
    <3>1. ASSUME NEW r \in Requests, Request(r)
          PROVE  record' = record \/ record' = NoRecord \/ CountMessage(r) \/ SaveSummary(r)
      BY <3>1 DEF Request, AddMessage, Get, Summarize, Promote, Delete, Access, Refuse, Stamp,
                  AppendMessage, ListMessages, ReadMessages, LLMAnswers, SaveMemory,
                  DeleteMessages, DeleteRecord, DeleteDir, Fail, files
    <3>2. CASE Crash
      BY <3>2 DEF Crash
    <3> QED BY <3>1, <3>2 DEF Next
  <2> QED BY <2>1, <2>2, <2>3, <2>4
<1> QED BY <1>1, Invariance, PTL DEF Spec, SummariesGrow
=============================================================================
