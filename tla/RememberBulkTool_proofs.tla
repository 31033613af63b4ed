----------------------- MODULE RememberBulkTool_proofs -----------------------
(***************************************************************************)
(* Proofs about RememberBulkTool, for every set of calls, every batch cap  *)
(* and all durations.                                                      *)
(***************************************************************************)
EXTENDS RememberBulkTool, TLAPS, SequenceTheorems

\* The longest sleep is a duration.
LEMMA LongestSleepType == LongestSleep \in Nat
<1>1. POLL_MAX \div 4 \in Nat /\ POLL_MAX \in Nat
  BY PollAssumption
<1>2. QED
  BY <1>1 DEF LongestSleep, AtLeast

\* Backoff keeps the delay within its bounds: it never gets to zero, where the
\* loop would poll without pause, nor beyond the cap.
LEMMA BackoffBounds ==
  ASSUME NEW d \in Delays
  PROVE  next_backoff(d) \in Delays
BY PollAssumption DEF Delays, next_backoff, AtMost

\* A sleep lasts, and no longer than the longest delay with its jitter.
LEMMA SleepBounds ==
  ASSUME NEW d \in Delays, NEW t \in jittered(d)
  PROVE  /\ t \in Nat \ {0}
         /\ t <= LongestSleep
         /\ LongestSleep \in Nat
<1>1. d \in Nat \ {0} /\ d <= POLL_MAX /\ POLL_MAX \in Nat \ {0}
  BY PollAssumption DEF Delays
<1>2. d \div 4 \in Nat /\ POLL_MAX \div 4 \in Nat /\ d \div 4 <= POLL_MAX \div 4
  BY <1>1
<1>3. QED
  BY <1>1, <1>2 DEF jittered, LongestSleep, AtLeast

\* The cache of a call after an answer keeps its type.
LEMMA CachedType ==
  ASSUME TypeOK, NEW c \in Calls
  PROVE  Cached(c) \in [Items -> ItemReport]
BY DEF TypeOK, Cached

\* Reading an answer only moves the clock forward and fills the cache.
LEMMA ReadType ==
  ASSUME TypeOK, NEW c \in Calls, Read(c)
  PROVE  /\ elapsed' \in [Calls -> Nat]
         /\ terminal' \in [Calls -> [Items -> ItemReport]]
<1>1. elapsed' \in [Calls -> Nat]
  BY PollAssumption DEF TypeOK, Read, RequestTakes, Latencies
<1>2. QED
  BY <1>1, CachedType DEF TypeOK, Read

\* The answer of Assemble: one stored blob per item.
LEMMA StoredBlob ==
  ASSUME NEW report \in ItemReport, Stored(report)
  PROVE  /\ (CHOOSE b \in report.blob_id : TRUE) \in Blobs
         /\ (CHOOSE b \in report.blob_id : TRUE) \in report.blob_id
<1>1. PICK b \in Blobs : report.blob_id = {b}
  BY DEF ItemReport, Report, Stored, Some, None
<1>2. QED
  BY <1>1

\* Type correctness of every state the tool reaches.
THEOREM TypeCorrect == Spec => []TypeOK
<1>1. Init => TypeOK
  <2>1. NoReport \in ItemReport
    BY DEF NoReport, ItemReport, Report, None, JobState
  <2>2. QED
    BY <2>1, PollAssumption, BulkAssumption DEF Init, TypeOK, Delays, JobState
<1>2. TypeOK /\ [Next]_vars => TypeOK'
  <2> SUFFICES ASSUME TypeOK, [Next]_vars PROVE TypeOK'
    OBVIOUS
  <2> USE DEF TypeOK
  <2>1. ASSUME NEW c \in Calls, RefuseBatch(c) \/ RefuseText(c) \/ RefuseUnsigned(c)
        PROVE  TypeOK'
    BY <2>1 DEF RefuseBatch, RefuseText, RefuseUnsigned, Return, Errors
  <2>2. ASSUME NEW c \in Calls, PostBulk(c) PROVE TypeOK'
    BY <2>2, BulkAssumption DEF PostBulk, Fits
  <2>3. ASSUME NEW c \in Calls, RelayerAccepts(c) PROVE TypeOK'
    BY <2>3 DEF RelayerAccepts, JobState
  <2>4. ASSUME NEW c \in Calls, RelayerWorks(c) PROVE TypeOK'
    <3>1. \A i \in Items : JobSteps(job[c][i]) \subseteq JobState
      BY DEF JobState, JobSteps
    <3>2. PICK i \in Items : \E s \in JobSteps(job[c][i]) :
               job' = [job EXCEPT ![c][i] = s]
      BY <2>4 DEF RelayerWorks
    <3>3. job' \in [Calls -> [Items -> JobState]]
      BY <3>1, <3>2
    <3>4. QED
      BY <2>4, <3>3 DEF RelayerWorks
  <2>5. ASSUME NEW c \in Calls, RelayerAnswers(c) PROVE TypeOK'
    <3>1. \A i \in Items : Says(c, i) \subseteq ItemReport
      <4>1. \A i \in Items : Blob(c, i) \in Blobs
        BY DEF Blobs
      <4>2. QED
        BY <4>1 DEF Says, Reports, ItemReport, Report, JobState, NoReport, None
    <3>2. reply' \in [Calls -> [Items -> ItemReport]]
      BY <2>5, <3>1 DEF RelayerAnswers
    <3>3. QED
      BY <2>5, <3>2 DEF RelayerAnswers
  <2>6. ASSUME NEW c \in Calls, Accepted(c) \/ PostFails(c) \/ Drop(c) PROVE TypeOK'
    <3>1. CASE Accepted(c)
      BY <3>1 DEF Accepted
    <3>2. CASE PostFails(c)
      <4>1. PICK e \in HttpErrors : Return(c, e)
        BY <3>2 DEF PostFails, HttpErrors
      <4>2. inTransit' \subseteq Calls
        BY <3>2 DEF PostFails
      <4>3. QED
        BY <3>2, <4>1, <4>2 DEF PostFails, Return, Errors
    <3>3. CASE Drop(c)
      BY <3>3 DEF Drop, Return, Errors
    <3>4. QED
      BY <2>6, <3>1, <3>2, <3>3
  <2>7. ASSUME NEW c \in Calls, AskStatuses(c) PROVE TypeOK'
    <3>1. \A t \in jittered(delay[c]) : t \in Nat
      BY SleepBounds
    <3>2. elapsed' \in [Calls -> Nat]
      BY <2>7, <3>1 DEF AskStatuses
    <3>3. QED
      BY <2>7, <3>2 DEF AskStatuses
  <2>8. ASSUME NEW c \in Calls, StatusesFail(c) \/ StatusesUnreadable(c) PROVE TypeOK'
    <3>1. elapsed' \in [Calls -> Nat]
      BY <2>8, PollAssumption DEF StatusesFail, StatusesUnreadable, RequestTakes, Latencies
    <3>2. QED
      BY <2>8, <3>1 DEF StatusesFail, StatusesUnreadable, Return, Errors, HttpErrors
  <2>9. ASSUME NEW c \in Calls, PastDeadline(c) PROVE TypeOK'
    BY <2>9, ReadType DEF PastDeadline, Return, Errors
  <2>10. ASSUME NEW c \in Calls, KeepPolling(c) PROVE TypeOK'
    BY <2>10, ReadType, BackoffBounds DEF KeepPolling
  <2>11. ASSUME NEW c \in Calls, Assemble(c) PROVE TypeOK'
    <3>1. Read(c) /\ UNCHANGED <<signing, inTransit, job, size, delay, reply>>
      BY <2>11 DEF Assemble
    <3>2. blob_ids' \in [Calls -> Seq(Blobs)]
      <4>1. CASE UNCHANGED blob_ids
        BY <4>1
      <4>2. CASE /\ \A i \in 1 .. size[c] : Stored(Cached(c)[i])
                 /\ blob_ids' = [blob_ids EXCEPT ![c] =
                      [i \in 1 .. size[c] |-> CHOOSE b \in Cached(c)[i].blob_id : TRUE]]
        <5>1. \A i \in 1 .. size[c] : Cached(c)[i] \in ItemReport
          BY CachedType, BulkAssumption DEF Items
        <5>2. \A i \in 1 .. size[c] : (CHOOSE b \in Cached(c)[i].blob_id : TRUE) \in Blobs
          BY <4>2, <5>1, StoredBlob
        <5>3. size[c] \in Nat
          BY BulkAssumption
        <5>4. [i \in 1 .. size[c] |-> CHOOSE b \in Cached(c)[i].blob_id : TRUE] \in Seq(Blobs)
          <6> DEFINE answer == [i \in 1 .. size[c] |-> CHOOSE b \in Cached(c)[i].blob_id : TRUE]
          <6>1. answer \in [1 .. size[c] -> Blobs]
            BY <5>2
          <6>2. answer \in UNION {[1 .. n -> Blobs] : n \in Nat}
            BY <5>3, <6>1
          <6>3. QED
            BY <6>2, SeqDef
        <5>5. QED
          BY <4>2, <5>4
      <4>3. QED
        BY <2>11, <4>1, <4>2 DEF Assemble
    <3>3. PICK o \in {"ok", "jobFailed", "server"} : Return(c, o)
      BY <2>11 DEF Assemble
    <3>4. QED
      BY <3>1, <3>2, <3>3, ReadType DEF Return, Errors, HttpErrors
  <2>12. CASE UNCHANGED vars
    BY <2>12 DEF vars
  <2>13. QED
    BY <2>1, <2>2, <2>3, <2>4, <2>5, <2>6, <2>7, <2>8, <2>9, <2>10, <2>11, <2>12
       DEF Next, Start, Client, poll_bulk_jobs, Relayer
<1>3. QED
  BY <1>1, <1>2, PTL DEF Spec

-----------------------------------------------------------------------------
(* Between a call and the relayer.                                          *)

\* The relayer has all of a batch or nothing of it, and is asked only about a
\* batch it has.
LEMMA Stages == Spec => []StageInv
<1>1. Init => StageInv
  BY DEF Init, StageInv, Refusals
<1>2. TypeOK /\ StageInv /\ [Next]_vars => StageInv'
  <2> SUFFICES ASSUME TypeOK, StageInv, [Next]_vars PROVE StageInv'
    OBVIOUS
  <2> USE DEF TypeOK, StageInv, Return, Refusals
  <2>1. ASSUME NEW c \in Calls, RefuseBatch(c) \/ RefuseText(c) \/ RefuseUnsigned(c)
        PROVE  StageInv'
    <3>1. PICK e \in Refusals : Return(c, e)
      BY <2>1 DEF RefuseBatch, RefuseText, RefuseUnsigned
    <3>2. pc[c] = "idle" /\ UNCHANGED <<job, size, inTransit>>
      BY <2>1 DEF RefuseBatch, RefuseText, RefuseUnsigned
    <3>3. QED
      BY <3>1, <3>2
  <2>2. ASSUME NEW c \in Calls, PostBulk(c) PROVE StageInv'
    BY <2>2, BulkAssumption DEF PostBulk, Fits, Items
  <2>3. ASSUME NEW c \in Calls, RelayerAccepts(c) PROVE StageInv'
    BY <2>3, BulkAssumption DEF RelayerAccepts, Items
  <2>4. ASSUME NEW c \in Calls, RelayerWorks(c) PROVE StageInv'
    <3>1. PICK i \in Items : \E s \in JobSteps(job[c][i]) :
                 job' = [job EXCEPT ![c][i] = s]
      BY <2>4 DEF RelayerWorks
    <3>2. PICK s \in JobSteps(job[c][i]) : job' = [job EXCEPT ![c][i] = s]
      BY <3>1
    <3>3. job[c][i] # "absent" /\ s # "absent"
      BY <3>2 DEF JobSteps
    <3>4. \A d \in Calls, k \in Items : job'[d][k] = "absent" <=> job[d][k] = "absent"
      BY <3>2, <3>3
    <3>5. \A d \in Calls : \A k \in 1 .. size[d] : k \in Items
      BY BulkAssumption DEF Items
    <3>6. UNCHANGED <<inTransit, pc, size, outcome>>
      BY <2>4 DEF RelayerWorks
    <3>7. \A d \in Calls : \A k \in 1 .. size'[d] :
            job'[d][k] = "absent" <=> job[d][k] = "absent"
      <4> TAKE d \in Calls
      <4>1. size'[d] = size[d]
        BY <3>6
      <4> TAKE k \in 1 .. size'[d]
      <4>2. k \in Items
        BY <4>1, <3>5
      <4>3. QED
        BY <4>2, <3>4
    <3>8. \A d \in Calls : \A k, m \in 1 .. size'[d] :
            job'[d][k] = "absent" => job'[d][m] = "absent"
      BY <3>6, <3>7
    <3>9. \A d \in Calls : d \in inTransit' => \A k \in Items : job'[d][k] = "absent"
      BY <3>4, <3>6
    <3>10. \A d \in Calls : \A k \in Items : k > size'[d] => job'[d][k] = "absent"
      BY <3>4, <3>6
    <3>11. \A d \in Calls : pc'[d] \in {"sleeping", "asking", "answered"} =>
             \A k \in 1 .. size'[d] : job'[d][k] # "absent"
      <4>1. \A d \in Calls : pc[d] \in {"sleeping", "asking", "answered"} =>
              \A k \in 1 .. size[d] : job[d][k] # "absent"
        BY DEF StageInv
      <4>2. QED
        <5> TAKE d \in Calls
        <5> HAVE pc'[d] \in {"sleeping", "asking", "answered"}
        <5> TAKE k \in 1 .. size'[d]
        <5>1. pc[d] \in {"sleeping", "asking", "answered"} /\ k \in 1 .. size[d]
          BY <3>6
        <5>2. job[d][k] # "absent"
          BY <4>1, <5>1
        <5>3. QED
          BY <5>2, <3>7
    <3>12. QED
      BY <3>6, <3>8, <3>9, <3>10, <3>11
  <2>5. ASSUME NEW c \in Calls, RelayerAnswers(c) \/ AskStatuses(c) PROVE StageInv'
    BY <2>5 DEF RelayerAnswers, AskStatuses
  <2>6. ASSUME NEW c \in Calls, Accepted(c) PROVE StageInv'
    <3>1. 1 \in 1 .. size[c]
      <4>1. size[c] # 0
        BY <2>6 DEF Accepted
      <4>2. size[c] \in Nat
        BY BulkAssumption
      <4>3. QED
        BY <4>1, <4>2
    <3>2. \A i \in 1 .. size[c] : job[c][i] # "absent"
      BY <2>6, <3>1 DEF Accepted
    <3>3. QED
      BY <2>6, <3>2 DEF Accepted
  <2>7. ASSUME NEW c \in Calls, NEW e, Return(c, e), e \notin Refusals \cup {"none"},
               pc[c] \notin {"idle", "returned"}, UNCHANGED <<job, size>>,
               inTransit' \subseteq inTransit
        PROVE  StageInv'
    BY <2>7
  <2>8. ASSUME NEW c \in Calls, PostFails(c) \/ Drop(c) PROVE StageInv'
    <3>1. PICK e \in HttpErrors \cup {"cancelled"} : Return(c, e)
      BY <2>8 DEF PostFails, Drop, HttpErrors
    <3>2. QED
      BY <2>7, <2>8, <3>1 DEF PostFails, Drop, HttpErrors
  <2>9. ASSUME NEW c \in Calls, StatusesFail(c) \/ StatusesUnreadable(c) PROVE StageInv'
    <3>1. PICK e \in HttpErrors : Return(c, e)
      BY <2>9 DEF StatusesFail, StatusesUnreadable, HttpErrors
    <3>2. QED
      BY <2>7, <2>9, <3>1 DEF StatusesFail, StatusesUnreadable, HttpErrors
  <2>10. ASSUME NEW c \in Calls, PastDeadline(c) \/ Assemble(c) PROVE StageInv'
    <3>1. PICK e \in {"timeout", "ok", "jobFailed", "server"} : Return(c, e)
      BY <2>10 DEF PastDeadline, Assemble
    <3>2. QED
      BY <2>7, <2>10, <3>1 DEF PastDeadline, Assemble, Read
  <2>11. ASSUME NEW c \in Calls, KeepPolling(c) PROVE StageInv'
    BY <2>11 DEF KeepPolling, Read
  <2>12. CASE UNCHANGED vars
    BY <2>12 DEF vars
  <2>13. QED
    BY <2>1, <2>2, <2>3, <2>4, <2>5, <2>6, <2>8, <2>9, <2>10, <2>11, <2>12
       DEF Next, Start, Client, poll_bulk_jobs, Relayer
<1>3. QED
  BY <1>1, <1>2, TypeCorrect, PTL DEF Spec

\* What the relayer does to its jobs undoes nothing that ended.
LEMMA TerminalStays ==
  ASSUME TypeOK, StageInv, [Next]_vars
  PROVE  /\ \A c \in Calls, i \in Items : IsTerminal(job[c][i]) => job'[c][i] = job[c][i]
         /\ \A c \in Calls, i \in Items :
              job'[c][i] # job[c][i] =>
                RelayerAccepts(c) \/ job'[c][i] \in JobSteps(job[c][i])
<1> USE DEF TypeOK
<1>1. ASSUME NEW c \in Calls, RelayerAccepts(c)
      PROVE  /\ \A d \in Calls, i \in Items : IsTerminal(job[d][i]) => job'[d][i] = job[d][i]
             /\ \A d \in Calls, i \in Items : job'[d][i] # job[d][i] => d = c
  BY <1>1 DEF RelayerAccepts, StageInv, IsTerminal
<1>2. ASSUME NEW c \in Calls, RelayerWorks(c)
      PROVE  /\ \A d \in Calls, i \in Items : IsTerminal(job[d][i]) => job'[d][i] = job[d][i]
             /\ \A d \in Calls, i \in Items :
                  job'[d][i] # job[d][i] => job'[d][i] \in JobSteps(job[d][i])
  <2>1. PICK i \in Items : \E s \in JobSteps(job[c][i]) : job' = [job EXCEPT ![c][i] = s]
    BY <1>2 DEF RelayerWorks
  <2>2. PICK s \in JobSteps(job[c][i]) : job' = [job EXCEPT ![c][i] = s]
    BY <2>1
  <2>3. ~IsTerminal(job[c][i])
    BY <2>2 DEF JobSteps, IsTerminal
  <2>4. QED
    BY <2>2, <2>3
<1>3. CASE job' = job
  BY <1>3
<1>4. (\E c \in Calls : RelayerAccepts(c) \/ RelayerWorks(c)) \/ job' = job
  BY DEF Next, Start, RefuseBatch, RefuseText, RefuseUnsigned, PostBulk, Client, Accepted,
         PostFails, poll_bulk_jobs, AskStatuses, StatusesFail, StatusesUnreadable,
         PastDeadline, KeepPolling, Assemble, Relayer, RelayerAnswers, Drop, vars
<1>5. QED
  BY <1>1, <1>2, <1>3, <1>4

-----------------------------------------------------------------------------
(* What the call knows of its jobs.                                         *)

\* An answer read late is still true.
LEMMA Replies == Spec => []ReplyInv
<1>1. Init => ReplyInv
  BY DEF Init, ReplyInv
<1>2. TypeOK /\ StageInv /\ ReplyInv /\ [Next]_vars => ReplyInv'
  <2> SUFFICES ASSUME TypeOK, StageInv, ReplyInv, [Next]_vars PROVE ReplyInv'
    OBVIOUS
  <2> USE DEF TypeOK, ReplyInv
  <2>1. CASE \A d \in Calls : pc'[d] = "answered" => pc[d] = "answered" /\ reply'[d] = reply[d]
    <3>1. SUFFICES ASSUME NEW d \in Calls, NEW i \in Items, pc'[d] = "answered",
                          IsTerminal(reply'[d][i].status)
                   PROVE  /\ job'[d][i] = reply'[d][i].status
                          /\ reply'[d][i].blob_id \subseteq {Blob(d, i)}
      BY DEF ReplyInv
    <3>2. job[d][i] = reply'[d][i].status /\ reply'[d][i].blob_id \subseteq {Blob(d, i)}
      BY <2>1, <3>1
    <3>3. QED
      BY <3>1, <3>2, TerminalStays
  <2>2. ASSUME NEW c \in Calls, RelayerAnswers(c) PROVE ReplyInv'
    <3>1. \A i \in Items : IsTerminal(reply'[c][i].status) =>
            /\ job[c][i] = reply'[c][i].status
            /\ reply'[c][i].blob_id \subseteq {Blob(c, i)}
      <4>1. PICK r \in [Items -> UNION {Says(c, i) : i \in Items}] :
               /\ \A i \in Items : r[i] \in Says(c, i)
               /\ reply' = [reply EXCEPT ![c] = r]
        BY <2>2 DEF RelayerAnswers
      <4>2. \A i \in Items : \A s \in Says(c, i) : IsTerminal(s.status) =>
              job[c][i] = s.status /\ s.blob_id \subseteq {Blob(c, i)}
        BY DEF Says, Reports, NoReport, IsTerminal, Some, None
      <4>3. QED
        BY <4>1, <4>2
    <3>2. QED
      BY <2>2, <3>1 DEF RelayerAnswers
  <2>3. (\E c \in Calls : RelayerAnswers(c)) \/
          \A d \in Calls : pc'[d] = "answered" => pc[d] = "answered" /\ reply'[d] = reply[d]
    <3>1. ASSUME NEW c \in Calls,
                 Start(c) \/ Client(c) \/ RelayerAccepts(c) \/ RelayerWorks(c) \/ Drop(c)
          PROVE  \A d \in Calls : pc'[d] = "answered" => pc[d] = "answered" /\ reply'[d] = reply[d]
      BY <3>1 DEF Start, RefuseBatch, RefuseText, RefuseUnsigned, PostBulk, Client, Accepted,
         PostFails, poll_bulk_jobs, AskStatuses, StatusesFail, StatusesUnreadable,
         PastDeadline, KeepPolling, Assemble, Read, RelayerAccepts, RelayerWorks, Drop, Return
    <3>2. QED
      BY <3>1 DEF Next, Relayer, vars
  <2>4. QED
    BY <2>1, <2>2, <2>3
<1>3. QED
  BY <1>1, <1>2, TypeCorrect, Stages, PTL DEF Spec

\* The cache holds, for each item, how its own job ended.
THEOREM TrueCache == Spec => []CacheIsTrue
<1>1. Init => CacheIsTrue
  BY DEF Init, CacheIsTrue, NoReport, IsTerminal
<1>2. TypeOK /\ StageInv /\ ReplyInv /\ CacheIsTrue /\ [Next]_vars => CacheIsTrue'
  <2> SUFFICES ASSUME TypeOK, StageInv, ReplyInv, CacheIsTrue, [Next]_vars
               PROVE  CacheIsTrue'
    OBVIOUS
  <2> USE DEF TypeOK, CacheIsTrue
  <2>1. CASE terminal' = terminal
    BY <2>1, TerminalStays
  <2>2. ASSUME NEW c \in Calls, Read(c) PROVE CacheIsTrue'
    <3>1. \A i \in Items : IsTerminal(Cached(c)[i].status) =>
            job[c][i] = Cached(c)[i].status /\ Cached(c)[i].blob_id \subseteq {Blob(c, i)}
      BY <2>2 DEF Read, ReplyInv, Cached
    <3>2. \A d \in Calls, i \in Items : terminal'[d][i] = IF d = c THEN Cached(c)[i] ELSE terminal[d][i]
      BY <2>2 DEF Read
    <3>3. SUFFICES ASSUME NEW d \in Calls, NEW i \in Items, IsTerminal(terminal'[d][i].status)
                   PROVE  /\ job'[d][i] = terminal'[d][i].status
                          /\ terminal'[d][i].blob_id \subseteq {Blob(d, i)}
      BY DEF CacheIsTrue
    <3>4. /\ job[d][i] = terminal'[d][i].status
          /\ terminal'[d][i].blob_id \subseteq {Blob(d, i)}
      BY <3>1, <3>2, <3>3
    <3>5. QED
      BY <3>3, <3>4, TerminalStays
  <2>3. (\E c \in Calls : Read(c)) \/ terminal' = terminal
    BY DEF Next, Start, RefuseBatch, RefuseText, RefuseUnsigned, PostBulk, Client, Accepted,
         PostFails, poll_bulk_jobs, AskStatuses, StatusesFail, StatusesUnreadable,
         PastDeadline, KeepPolling, Assemble, Relayer, RelayerAnswers, RelayerAccepts,
         RelayerWorks, Drop, vars
  <2>4. QED
    BY <2>1, <2>2, <2>3
<1>3. QED
  BY <1>1, <1>2, TypeCorrect, Stages, Replies, PTL DEF Spec

\* What the call returns on the strength of its cache stays true of the jobs.
LEMMA VerdictStep ==
  ASSUME TypeOK, StageInv, ReplyInv, CacheIsTrue, NEW c \in Calls, Assemble(c)
  PROVE  /\ \A i \in 1 .. size[c] : i \in Items /\ job[c][i] = Cached(c)[i].status
         /\ \A i \in 1 .. size[c] : IsTerminal(job[c][i])
         /\ \A i \in 1 .. size[c] : Cached(c)[i].blob_id \subseteq {Blob(c, i)}
<1>1. \A i \in 1 .. size[c] : i \in Items
  BY BulkAssumption DEF TypeOK, Items
<1>2. \A i \in Items : IsTerminal(Cached(c)[i].status) =>
        job[c][i] = Cached(c)[i].status /\ Cached(c)[i].blob_id \subseteq {Blob(c, i)}
  BY DEF Assemble, Read, ReplyInv, Cached, CacheIsTrue
<1>3. \A i \in 1 .. size[c] : IsTerminal(Cached(c)[i].status)
  BY DEF Assemble
<1>4. QED
  BY <1>1, <1>2, <1>3

\* Ok and Err(JobFailed) speak of a batch whose jobs have all ended.
LEMMA Endings == Spec => [](OkInv /\ FailedBatchIsOver)
<1> DEFINE Ended == OkInv /\ FailedBatchIsOver
<1>1. Init => Ended
  BY DEF Init, OkInv, FailedBatchIsOver
<1>2. TypeOK /\ StageInv /\ ReplyInv /\ CacheIsTrue /\ Ended /\ [Next]_vars => Ended'
  <2> SUFFICES ASSUME TypeOK, StageInv, ReplyInv, CacheIsTrue, Ended, [Next]_vars
               PROVE  Ended'
    OBVIOUS
  <2>1. SUFFICES ASSUME NEW c \in Calls
                 PROVE  /\ outcome'[c] = "ok" => \A i \in 1 .. size'[c] : job'[c][i] = "done"
                        /\ outcome'[c] = "jobFailed" =>
                             /\ \A i \in 1 .. size'[c] : IsTerminal(job'[c][i])
                             /\ \E i \in 1 .. size'[c] : job'[c][i] = "failed"
    BY DEF OkInv, FailedBatchIsOver
  <2>2. \A i \in 1 .. size[c] : i \in Items
    BY BulkAssumption DEF TypeOK, Items
  <2>3. CASE outcome'[c] \notin {"ok", "jobFailed"}
    BY <2>3
  <2>4. CASE outcome'[c] = outcome[c] /\ size'[c] = size[c]
    <3>1. \A i \in 1 .. size[c] : IsTerminal(job[c][i]) => job'[c][i] = job[c][i]
      BY <2>2, TerminalStays
    <3>2. outcome[c] = "ok" => \A i \in 1 .. size[c] : job[c][i] = "done"
      BY DEF OkInv
    <3>3. outcome[c] = "jobFailed" =>
             /\ \A i \in 1 .. size[c] : IsTerminal(job[c][i])
             /\ \E i \in 1 .. size[c] : job[c][i] = "failed"
      BY DEF FailedBatchIsOver
    <3>4. QED
      BY <2>4, <3>1, <3>2, <3>3 DEF IsTerminal
  <2>5. CASE Assemble(c)
    <3>1. size' = size /\ job' = job
      BY <2>5 DEF Assemble
    <3>2. CASE (\A i \in 1 .. size[c] : Stored(Cached(c)[i])) /\ Return(c, "ok")
      BY <2>5, <3>1, <3>2, VerdictStep DEF Stored, Return, TypeOK
    <3>3. CASE \E i \in 1 .. size[c] :
                 /\ ~Stored(Cached(c)[i])
                 /\ \A k \in 1 .. i - 1 : Stored(Cached(c)[k])
                 /\ Return(c, IF Cached(c)[i].status = "failed" THEN "jobFailed" ELSE "server")
      <4>1. PICK i \in 1 .. size[c] :
              Return(c, IF Cached(c)[i].status = "failed" THEN "jobFailed" ELSE "server")
        BY <3>3
      <4>2. outcome'[c] = IF Cached(c)[i].status = "failed" THEN "jobFailed" ELSE "server"
        BY <4>1 DEF Return, TypeOK
      <4>3. outcome'[c] = "jobFailed" => job[c][i] = "failed"
        BY <2>5, <4>1, <4>2, VerdictStep
      <4>4. QED
        BY <2>5, <3>1, <4>2, <4>3, VerdictStep
    <3>4. QED
      BY <2>5, <3>2, <3>3 DEF Assemble
  <2>6. Assemble(c) \/ outcome'[c] \notin {"ok", "jobFailed"} \/
          (outcome'[c] = outcome[c] /\ size'[c] = size[c])
    <3>1. ASSUME NEW d \in Calls, Assemble(d), d # c
          PROVE  outcome'[c] = outcome[c] /\ size'[c] = size[c]
      BY <3>1 DEF Assemble, Return, TypeOK
    <3>2. ASSUME NEW d \in Calls, PostBulk(d)
          PROVE  outcome'[c] = outcome[c] /\ (size'[c] = size[c] \/ outcome[c] = "none")
      BY <3>2 DEF PostBulk, TypeOK, StageInv
    <3>3. ASSUME NEW d \in Calls,
                 RefuseBatch(d) \/ RefuseText(d) \/ RefuseUnsigned(d) \/ PostFails(d) \/
                 StatusesFail(d) \/ StatusesUnreadable(d) \/ PastDeadline(d) \/ Drop(d)
          PROVE  size' = size /\
                 (outcome'[c] = outcome[c] \/ outcome'[c] \notin {"ok", "jobFailed"})
      <4>1. PICK e \in Errors \ {"jobFailed"} : Return(d, e)
        BY <3>3 DEF RefuseBatch, RefuseText, RefuseUnsigned, PostFails, StatusesFail,
                    StatusesUnreadable, PastDeadline, Drop, Errors, HttpErrors
      <4>2. outcome'[c] = IF c = d THEN e ELSE outcome[c]
        BY <4>1 DEF Return, TypeOK
      <4>3. size' = size
        BY <3>3 DEF RefuseBatch, RefuseText, RefuseUnsigned, PostFails, StatusesFail,
                    StatusesUnreadable, PastDeadline, Drop
      <4>4. QED
        BY <4>2, <4>3 DEF Errors, HttpErrors
    <3>4. ASSUME NEW d \in Calls,
                 Accepted(d) \/ AskStatuses(d) \/ KeepPolling(d) \/ Relayer(d)
          PROVE  outcome' = outcome /\ size' = size
      BY <3>4 DEF Accepted, AskStatuses, KeepPolling, Relayer, RelayerAccepts, RelayerWorks,
                  RelayerAnswers
    <3>5. CASE UNCHANGED vars
      BY <3>5 DEF vars
    <3>6. QED
      BY <3>1, <3>2, <3>3, <3>4, <3>5 DEF Next, Start, Client, poll_bulk_jobs
  <2>7. QED
    BY <2>3, <2>4, <2>5, <2>6
<1>3. QED
  BY <1>1, <1>2, TypeCorrect, Stages, Replies, TrueCache, PTL DEF Spec

\* When a batch is reported failed, none of its jobs is still under way.
THEOREM FailedIsOver == Spec => []FailedBatchIsOver
BY Endings, PTL

-----------------------------------------------------------------------------
(* The clock.                                                               *)

\* The time of a call, step by step of its loop.
LEMMA Clocks == Spec => []ClockInv
<1>0. /\ LongestSleep \in Nat
      /\ POLL_BUDGET \in Nat \ {0}
      /\ HTTP_TIMEOUT \in Nat
      /\ LongestPoll = POLL_BUDGET - 1 + LongestSleep + HTTP_TIMEOUT
  BY PollAssumption, LongestSleepType DEF LongestPoll
<1>1. Init => ClockInv
  BY <1>0 DEF Init, ClockInv
<1>2. TypeOK /\ ClockInv /\ [Next]_vars => ClockInv'
  <2> SUFFICES ASSUME TypeOK, ClockInv, [Next]_vars PROVE ClockInv'
    OBVIOUS
  <2> USE DEF TypeOK, ClockInv, Return
  <2>1. ASSUME NEW c \in Calls, Start(c) PROVE ClockInv'
    BY <2>1, <1>0 DEF Start, RefuseBatch, RefuseText, RefuseUnsigned, PostBulk
  <2>2. ASSUME NEW c \in Calls, Relayer(c) PROVE ClockInv'
    BY <2>2 DEF Relayer, RelayerAccepts, RelayerWorks, RelayerAnswers
  <2>3. ASSUME NEW c \in Calls, Accepted(c) \/ PostFails(c) \/ Drop(c) PROVE ClockInv'
    BY <2>3, <1>0 DEF Accepted, PostFails, Drop
  <2>4. ASSUME NEW c \in Calls, AskStatuses(c) PROVE ClockInv'
    <3>1. PICK t \in jittered(delay[c]) : elapsed' = [elapsed EXCEPT ![c] = @ + t]
      BY <2>4 DEF AskStatuses
    <3>2. t \in Nat /\ t <= LongestSleep
      BY SleepBounds
    <3>3. elapsed'[c] < POLL_BUDGET + LongestSleep
      BY <2>4, <3>1, <3>2, <1>0 DEF AskStatuses
    <3>4. QED
      BY <2>4, <3>1, <3>2, <3>3, <1>0 DEF AskStatuses
  <2>5. ASSUME NEW c \in Calls, pc[c] \in {"asking", "answered"}, RequestTakes(c)
        PROVE  /\ elapsed'[c] <= LongestPoll
               /\ \A d \in Calls \ {c} : elapsed'[d] = elapsed[d]
    <3>1. PICK t \in Latencies : elapsed' = [elapsed EXCEPT ![c] = @ + t]
      BY <2>5 DEF RequestTakes
    <3>2. QED
      BY <2>5, <3>1, <1>0 DEF Latencies
  <2>6. ASSUME NEW c \in Calls, NEW p \in {"sleeping", "returned"},
               pc[c] \in {"asking", "answered"}, RequestTakes(c),
               pc' = [pc EXCEPT ![c] = p],
               p = "sleeping" => elapsed'[c] < POLL_BUDGET
        PROVE  ClockInv'
    BY <2>5, <2>6
  <2>7. ASSUME NEW c \in Calls, poll_bulk_jobs(c), ~AskStatuses(c) PROVE ClockInv'
    <3>1. pc[c] \in {"asking", "answered"} /\ RequestTakes(c)
      BY <2>7 DEF poll_bulk_jobs, StatusesFail, StatusesUnreadable, PastDeadline,
                  KeepPolling, Assemble, Read
    <3>2. \/ pc' = [pc EXCEPT ![c] = "returned"]
          \/ pc' = [pc EXCEPT ![c] = "sleeping"] /\ elapsed'[c] < POLL_BUDGET
      BY <2>7 DEF poll_bulk_jobs, StatusesFail, StatusesUnreadable, PastDeadline,
                  KeepPolling, Assemble
    <3>3. QED
      BY <2>6, <3>1, <3>2
  <2>8. CASE UNCHANGED vars
    BY <2>8 DEF vars
  <2>9. QED
    BY <2>1, <2>2, <2>3, <2>4, <2>7, <2>8 DEF Next, Client
<1>3. QED
  BY <1>1, <1>2, TypeCorrect, PTL DEF Spec

\* poll_bulk_jobs ends at most one sleep and one request beyond its budget.
THEOREM Bounded == Spec => []PollBounded
<1>1. ClockInv => PollBounded
  BY DEF ClockInv, PollBounded
<1>2. QED
  BY <1>1, Clocks, PTL

-----------------------------------------------------------------------------
(* The promise: what the abstract call sees of each step.                   *)

\* How a call stands in the promise before it returns, and once it has.
LEMMA VerdictReturns ==
  ASSUME TypeOK, StageInv, NEW c \in Calls, NEW o \in Errors \cup {"ok"},
         pc[c] # "returned", Return(c, o)
  PROVE  /\ verdictBar[c] = IF pc[c] = "idle" THEN "idle" ELSE "open"
         /\ verdictBar' = [verdictBar EXCEPT ![c] = IF o = "ok" THEN "ok"
                                                   ELSE IF o \in Settled THEN "settled"
                                                   ELSE "doubt"]
<1>1. /\ pc \in [Calls -> {"idle", "posting", "sleeping", "asking", "answered", "returned"}]
      /\ outcome \in [Calls -> {"none", "ok"} \cup Errors]
  BY DEF TypeOK
<1>2. outcome[c] = "none"
  BY DEF StageInv
<1>3. "none" \notin Errors
  BY DEF Errors, HttpErrors
<1>4. verdictBar[c] = IF pc[c] = "idle" THEN "idle" ELSE "open"
  BY <1>2 DEF verdictBar, Verdict
<1>5. pc'[c] = "returned" /\ outcome'[c] = o
  BY <1>1 DEF Return
<1>6. \A d \in Calls \ {c} : pc'[d] = pc[d] /\ outcome'[d] = outcome[d]
  BY <1>1 DEF Return
<1>7. verdictBar'[c] = IF o = "ok" THEN "ok" ELSE IF o \in Settled THEN "settled" ELSE "doubt"
  BY <1>3, <1>5 DEF verdictBar, Verdict
<1>8. \A d \in Calls \ {c} : verdictBar'[d] = verdictBar[d]
  BY <1>6 DEF verdictBar, Verdict
<1>9. QED
  BY <1>4, <1>7, <1>8 DEF verdictBar

\* An error that ends an open call is a GiveUp of the promise.
LEMMA ErrorGivesUp ==
  ASSUME TypeOK, StageInv, NEW c \in Calls, NEW e \in Errors,
         pc[c] \notin {"idle", "returned"}, Return(c, e),
         UNCHANGED <<job, size, blob_ids>>
  PROVE  Promise!GiveUp(c)
<1>1. /\ verdictBar[c] = "open"
      /\ verdictBar' = [verdictBar EXCEPT ![c] = IF e \in Settled THEN "settled" ELSE "doubt"]
  <2>1. e # "ok"
    BY DEF Errors, HttpErrors
  <2>2. QED
    BY <2>1, VerdictReturns
<1>2. durableBar' = durableBar
  BY DEF durableBar
<1>3. QED
  BY <1>1, <1>2 DEF Promise!GiveUp

\* A step that ends nothing is not seen, but for the jobs it lets land.
LEMMA Unseen ==
  ASSUME TypeOK, NEW c \in Calls, NEW p, pc[c] \notin {"idle", "returned"},
         p \notin {"idle", "returned"}, pc' = [pc EXCEPT ![c] = p],
         UNCHANGED <<job, size, outcome, blob_ids>>
  PROVE  UNCHANGED Promise!vars
<1>1. verdictBar' = verdictBar
  BY DEF TypeOK, verdictBar, Verdict
<1>2. durableBar' = durableBar
  BY DEF durableBar
<1>3. QED
  BY <1>1, <1>2 DEF Promise!vars

\* Every behaviour of the tool keeps the promise: Ok is said of a batch that is
\* stored item by item, with the blobs in the order of the items, and nothing
\* is stored after a settled error.
THEOREM Refines == Spec => KeepsPromise
<1>1. Init => Promise!Init
  <2>1. ASSUME Init PROVE durableBar = [c \in Calls |-> {}]
    BY <2>1 DEF Init, durableBar
  <2>2. ASSUME Init PROVE verdictBar = [c \in Calls |-> "idle"]
    BY <2>2 DEF Init, verdictBar, Verdict
  <2>3. QED
    BY <2>1, <2>2 DEF Init, Promise!Init
<1>2. TypeOK /\ StageInv /\ ReplyInv /\ CacheIsTrue /\ OkInv /\ FailedBatchIsOver /\ [Next]_vars
        => [Promise!Next]_(Promise!vars)
  <2> SUFFICES ASSUME TypeOK, StageInv, ReplyInv, CacheIsTrue, OkInv, FailedBatchIsOver,
                      [Next]_vars
               PROVE  [Promise!Next]_(Promise!vars)
    OBVIOUS
  <2>1. ASSUME NEW c \in Calls, RefuseBatch(c) \/ RefuseText(c) \/ RefuseUnsigned(c)
        PROVE  Promise!GiveUp(c)
    <3>1. PICK e \in Refusals : Return(c, e)
      BY <2>1 DEF RefuseBatch, RefuseText, RefuseUnsigned, Refusals
    <3>2. pc[c] = "idle" /\ UNCHANGED <<job, size, blob_ids>>
      BY <2>1 DEF RefuseBatch, RefuseText, RefuseUnsigned
    <3>3. /\ verdictBar[c] = "idle"
          /\ verdictBar' = [verdictBar EXCEPT ![c] = "settled"]
      <4>1. e \in Errors /\ e # "ok" /\ e \in Settled
        BY DEF Errors, Settled, Refusals
      <4>2. QED
        BY <3>1, <3>2, <4>1, VerdictReturns
    <3>4. durableBar' = durableBar
      BY <3>2 DEF durableBar
    <3>5. QED
      BY <3>2, <3>3, <3>4 DEF Promise!GiveUp
  <2>2. ASSUME NEW c \in Calls, PostBulk(c) PROVE Promise!Begin(c)
    <3>1. /\ verdictBar[c] = "idle"
          /\ verdictBar' = [verdictBar EXCEPT ![c] = "open"]
      <4>1. /\ pc[c] = "idle" /\ pc' = [pc EXCEPT ![c] = "posting"]
            /\ outcome' = outcome
        BY <2>2 DEF PostBulk
      <4>2. pc \in [Calls -> {"idle", "posting", "sleeping", "asking", "answered", "returned"}]
        BY DEF TypeOK
      <4>3. outcome[c] = "none"
        BY <4>1 DEF StageInv
      <4>4. \A d \in Calls : d # c => pc'[d] = pc[d]
        BY <4>1, <4>2
      <4>5. QED
        BY <4>1, <4>2, <4>3, <4>4 DEF verdictBar, Verdict
    <3>2. \E n \in 1 .. MAX_BULK_ITEMS : size' = [size EXCEPT ![c] = n]
      <4>1. PICK n \in 0 .. MAX_BULK_ITEMS + 1 :
                   Fits(n) /\ size' = [size EXCEPT ![c] = n]
        BY <2>2 DEF PostBulk
      <4>2. n \in 1 .. MAX_BULK_ITEMS
        BY <4>1, BulkAssumption DEF Fits
      <4>3. QED
        BY <4>1, <4>2
    <3>3. UNCHANGED <<durableBar, blob_ids>>
      BY <2>2 DEF PostBulk, durableBar
    <3>4. QED
      BY <3>1, <3>2, <3>3 DEF Promise!Begin
  <2>3. ASSUME NEW c \in Calls, RelayerAccepts(c) PROVE UNCHANGED Promise!vars
    <3>1. \A i \in Items : job[c][i] = "absent" /\ job'[c][i] # "done"
      BY <2>3 DEF RelayerAccepts, TypeOK, StageInv
    <3>2. \A d \in Calls \ {c} : job'[d] = job[d]
      BY <2>3 DEF RelayerAccepts, TypeOK
    <3>3. \A d \in Calls : {i \in Items : job'[d][i] = "done"} = {i \in Items : job[d][i] = "done"}
      BY <3>1, <3>2
    <3>4. durableBar' = durableBar
      BY <3>3 DEF durableBar
    <3>5. verdictBar' = verdictBar
      BY <2>3 DEF RelayerAccepts, verdictBar, Verdict
    <3>6. QED
      BY <2>3, <3>4, <3>5 DEF RelayerAccepts, Promise!vars
  <2>4. ASSUME NEW c \in Calls, RelayerWorks(c)
        PROVE  Promise!Land(c) \/ UNCHANGED Promise!vars
    <3>1. PICK i \in Items : \E s \in JobSteps(job[c][i]) :
                 job' = [job EXCEPT ![c][i] = s]
      BY <2>4 DEF RelayerWorks
    <3>2. PICK s \in JobSteps(job[c][i]) : job' = [job EXCEPT ![c][i] = s]
      BY <3>1
    <3>3. verdictBar' = verdictBar /\ UNCHANGED <<size, blob_ids>>
      BY <2>4 DEF RelayerWorks, verdictBar, Verdict
    <3>4. ~IsTerminal(job[c][i]) /\ job[c][i] # "absent" /\ job[c][i] # "done"
      BY <3>2 DEF JobSteps, IsTerminal
    <3>5. i \in 1 .. size[c]
      BY <3>4, BulkAssumption DEF StageInv, TypeOK, Items
    <3>6. CASE s = "done"
      <4>1. verdictBar[c] \in {"open", "doubt"}
        <5>1. outcome[c] \notin {"ok", "jobFailed"}
          BY <3>4, <3>5 DEF OkInv, FailedBatchIsOver
        <5>2. pc[c] # "idle" /\ outcome[c] \notin Refusals
          BY <3>4, <3>5 DEF StageInv, TypeOK
        <5>3. QED
          BY <5>1, <5>2 DEF TypeOK, verdictBar, Verdict, Settled, Refusals
      <4>2. i \notin durableBar[c]
        BY <3>4 DEF durableBar
      <4>3. \A d \in Calls : {k \in Items : job'[d][k] = "done"} =
              IF d = c THEN durableBar[c] \cup {i} ELSE durableBar[d]
        BY <3>2, <3>6 DEF durableBar, TypeOK
      <4>4. durableBar' = [durableBar EXCEPT ![c] = @ \cup {i}]
        BY <4>3 DEF durableBar
      <4>5. QED
        BY <3>3, <3>5, <4>1, <4>2, <4>4 DEF Promise!Land
    <3>7. CASE s # "done"
      <4>1. \A d \in Calls : {k \in Items : job'[d][k] = "done"} = {k \in Items : job[d][k] = "done"}
        BY <3>2, <3>4, <3>7 DEF TypeOK
      <4>2. durableBar' = durableBar
        BY <4>1 DEF durableBar
      <4>3. QED
        BY <3>3, <4>2 DEF Promise!vars
    <3>8. QED
      BY <3>6, <3>7
  <2>5. ASSUME NEW c \in Calls,
               RelayerAnswers(c) \/ Accepted(c) \/ AskStatuses(c) \/ KeepPolling(c)
        PROVE  UNCHANGED Promise!vars
    <3>1. PICK p \in {"sleeping", "asking", "answered"} : pc' = [pc EXCEPT ![c] = p]
      BY <2>5 DEF RelayerAnswers, Accepted, AskStatuses, KeepPolling
    <3>2. /\ pc[c] \notin {"idle", "returned"}
          /\ UNCHANGED <<job, size, outcome, blob_ids>>
      BY <2>5 DEF RelayerAnswers, Accepted, AskStatuses, KeepPolling, Read
    <3>3. QED
      BY <3>1, <3>2, Unseen
  <2>6. ASSUME NEW c \in Calls,
               PostFails(c) \/ StatusesFail(c) \/ StatusesUnreadable(c) \/ PastDeadline(c)
               \/ Drop(c)
        PROVE  Promise!GiveUp(c)
    <3>1. PICK e \in Errors : Return(c, e)
      BY <2>6 DEF PostFails, StatusesFail, StatusesUnreadable, PastDeadline, Drop, Errors,
                  HttpErrors
    <3>2. /\ pc[c] \notin {"idle", "returned"}
          /\ UNCHANGED <<job, size, blob_ids>>
      BY <2>6 DEF PostFails, StatusesFail, StatusesUnreadable, PastDeadline, Drop, Read
    <3>3. QED
      BY <3>1, <3>2, ErrorGivesUp
  <2>7. ASSUME NEW c \in Calls, Assemble(c) PROVE Promise!Confirm(c) \/ Promise!GiveUp(c)
    <3>1. pc[c] = "answered" /\ UNCHANGED <<job, size>>
      BY <2>7 DEF Assemble, Read
    <3>2. CASE /\ \A i \in 1 .. size[c] : Stored(Cached(c)[i])
               /\ blob_ids' = [blob_ids EXCEPT ![c] =
                    [i \in 1 .. size[c] |-> CHOOSE b \in Cached(c)[i].blob_id : TRUE]]
               /\ Return(c, "ok")
      <4>1. \A i \in 1 .. size[c] :
              (CHOOSE b \in Cached(c)[i].blob_id : TRUE) = Promise!Blob(c, i)
        <5>1. \A i \in 1 .. size[c] : Cached(c)[i] \in ItemReport
          BY <2>7, VerdictStep, CachedType
        <5>2. \A i \in 1 .. size[c] :
                (CHOOSE b \in Cached(c)[i].blob_id : TRUE) \in Cached(c)[i].blob_id
          BY <3>2, <5>1, StoredBlob
        <5>3. \A i \in 1 .. size[c] : Cached(c)[i].blob_id \subseteq {Blob(c, i)}
          BY <2>7, VerdictStep
        <5>4. \A i \in 1 .. size[c] : (CHOOSE b \in Cached(c)[i].blob_id : TRUE) = Blob(c, i)
          BY <5>2, <5>3
        <5>5. QED
          BY <5>4 DEF Blob, Promise!Blob
      <4>2. blob_ids' = [blob_ids EXCEPT ![c] = [i \in 1 .. size[c] |-> Promise!Blob(c, i)]]
        BY <3>2, <4>1
      <4>3. durableBar[c] = 1 .. size[c]
        <5>1. \A i \in 1 .. size[c] : i \in Items /\ job[c][i] = "done"
          BY <2>7, <3>2, VerdictStep DEF Stored
        <5>2. \A i \in Items : job[c][i] = "done" => i \in 1 .. size[c]
          <6>1. \A i \in Items : i > size[c] => job[c][i] = "absent"
            BY DEF StageInv
          <6>2. size[c] \in 0 .. MAX_BULK_ITEMS
            BY DEF TypeOK
          <6>3. QED
            BY <6>1, <6>2, BulkAssumption DEF Items
        <5>3. QED
          BY <5>1, <5>2 DEF durableBar
      <4>4. /\ verdictBar[c] = "open"
            /\ verdictBar' = [verdictBar EXCEPT ![c] = "ok"]
        BY <3>1, <3>2, VerdictReturns
      <4>5. UNCHANGED <<size, durableBar>>
        BY <3>1 DEF durableBar
      <4>6. QED
        BY <4>2, <4>3, <4>4, <4>5 DEF Promise!Confirm
    <3>3. CASE blob_ids' = blob_ids /\ \E e \in {"jobFailed", "server"} : Return(c, e)
      BY <3>1, <3>3, ErrorGivesUp DEF Errors, HttpErrors
    <3>4. QED
      BY <2>7, <3>2, <3>3 DEF Assemble
  <2>8. CASE UNCHANGED vars
    BY <2>8 DEF vars, Promise!vars, durableBar, verdictBar, Verdict
  <2>9. QED
    BY <2>1, <2>2, <2>3, <2>4, <2>5, <2>6, <2>7, <2>8
       DEF Next, Start, Client, poll_bulk_jobs, Relayer, Promise!Next
<1>3. QED
  BY <1>1, <1>2, TypeCorrect, Stages, Replies, TrueCache, Endings, PTL
     DEF Spec, KeepsPromise, Promise!Spec
=============================================================================
