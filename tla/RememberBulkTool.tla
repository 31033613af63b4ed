-------------------------- MODULE RememberBulkTool --------------------------
(***************************************************************************)
(* xyz.taluslabs.memory.memwal.remember_bulk (remember_bulk.rs) over       *)
(* MemWalClient::remember_bulk and MemWalClient::poll_bulk_jobs            *)
(* (client.rs).  One call stores a batch of items: the relayer turns each  *)
(* into a job of its own, and the call polls all of them together.  The    *)
(* relayer answers the POST with one job id per item, in order, so item i  *)
(* of call c stands for its job too.                                       *)
(***************************************************************************)
EXTENDS PollBackoff, MemWalApi, Sequences

CONSTANTS Calls, MAX_BULK_ITEMS

ASSUME BulkAssumption == MAX_BULK_ITEMS \in Nat \ {0}

VARIABLES
  signing,    \* the tool's client holds a delegate key (client.rs: signing)
  inTransit,  \* calls whose POST has left and has not been processed
  job,        \* job[c][i]: state, in the relayer, of the job of item i
  pc,         \* where the future of call c is
  size,       \* number of items of c, once its POST has left
  terminal,   \* the HashMap of poll_bulk_jobs: the reports that ended a job
  delay,      \* poll_bulk_jobs' delay
  elapsed,    \* time since poll_bulk_jobs computed its deadline
  reply,      \* the last status answer that left the relayer for c
  outcome,    \* the Output of c: "ok", or the error behind Err
  blob_ids    \* the blob ids of an Ok

vars == <<signing, inTransit, job, pc, size, terminal, delay, elapsed, reply,
          outcome, blob_ids>>

Items == 1 .. MAX_BULK_ITEMS

Blob(c, i) == [call |-> c, item |-> i]
NoReport == [status |-> "absent", blob_id |-> None]

Errors ==
  {"batchSize", "config", "auth", "jobFailed", "timeout", "cancelled"} \cup HttpErrors

Init ==
  /\ signing \in BOOLEAN
  /\ inTransit = {}
  /\ job = [c \in Calls |-> [i \in Items |-> "absent"]]
  /\ pc = [c \in Calls |-> "idle"]
  /\ size = [c \in Calls |-> 0]
  /\ terminal = [c \in Calls |-> [i \in Items |-> NoReport]]
  /\ delay = [c \in Calls |-> POLL_INITIAL]
  /\ elapsed = [c \in Calls |-> 0]
  /\ reply = [c \in Calls |-> [i \in Items |-> NoReport]]
  /\ outcome = [c \in Calls |-> "none"]
  /\ blob_ids = [c \in Calls |-> <<>>]

Return(c, o) ==
  /\ pc' = [pc EXCEPT ![c] = "returned"]
  /\ outcome' = [outcome EXCEPT ![c] = o]

-----------------------------------------------------------------------------
(* Submitting the batch.                                                    *)

Fits(n) == n # 0 /\ n <= MAX_BULK_ITEMS

\* invoke refuses an empty or an oversized batch.
RefuseBatch(c) ==
  /\ pc[c] = "idle"
  /\ \E n \in 0 .. MAX_BULK_ITEMS + 1 : ~Fits(n)
  /\ Return(c, "batchSize")
  /\ UNCHANGED <<signing, inTransit, job, size, terminal, delay, elapsed, reply, blob_ids>>

\* check_text_len refuses one of the texts: nothing of the batch is sent.
RefuseText(c) ==
  /\ pc[c] = "idle"
  /\ Return(c, "config")
  /\ UNCHANGED <<signing, inTransit, job, size, terminal, delay, elapsed, reply, blob_ids>>

RefuseUnsigned(c) ==
  /\ pc[c] = "idle"
  /\ ~signing
  /\ Return(c, "auth")
  /\ UNCHANGED <<signing, inTransit, job, size, terminal, delay, elapsed, reply, blob_ids>>

PostBulk(c) ==
  /\ pc[c] = "idle"
  /\ signing
  /\ \E n \in 0 .. MAX_BULK_ITEMS + 1 :
       /\ Fits(n)
       /\ size' = [size EXCEPT ![c] = n]
  /\ pc' = [pc EXCEPT ![c] = "posting"]
  /\ inTransit' = inTransit \cup {c}
  /\ UNCHANGED <<signing, job, terminal, delay, elapsed, reply, outcome, blob_ids>>

RelayerAccepts(c) ==
  /\ c \in inTransit
  /\ inTransit' = inTransit \ {c}
  /\ job' = [job EXCEPT ![c] =
               [i \in Items |-> IF i <= size[c] THEN "pending" ELSE "absent"]]
  /\ UNCHANGED <<signing, pc, size, terminal, delay, elapsed, reply, outcome, blob_ids>>

\* The 202 with the job ids arrives, and poll_bulk_jobs takes over.
Accepted(c) ==
  /\ pc[c] = "posting"
  /\ job[c][1] # "absent"
  /\ pc' = [pc EXCEPT ![c] = "sleeping"]
  /\ UNCHANGED <<signing, inTransit, job, size, terminal, delay, elapsed, reply,
                 outcome, blob_ids>>

\* A 429 says that the relayer refused the batch; any other failure says
\* nothing about whether the batch has arrived or still will.
PostFails(c) ==
  /\ pc[c] = "posting"
  /\ \/ /\ c \in inTransit
        /\ inTransit' = inTransit \ {c}
        /\ Return(c, "rateLimited")
     \/ /\ \E e \in HttpErrors \ {"rateLimited"} : Return(c, e)
        /\ UNCHANGED inTransit
  /\ UNCHANGED <<signing, job, size, terminal, delay, elapsed, reply, blob_ids>>

RelayerWorks(c) ==
  /\ \E i \in Items : \E s \in JobSteps(job[c][i]) :
       job' = [job EXCEPT ![c][i] = s]
  /\ UNCHANGED <<signing, inTransit, pc, size, terminal, delay, elapsed, reply,
                 outcome, blob_ids>>

-----------------------------------------------------------------------------
(* poll_bulk_jobs.                                                          *)

Pending(c) == {i \in 1 .. size[c] : ~IsTerminal(terminal[c][i].status)}

\* Top of the loop, some job pending: sleep, then ask about those.
AskStatuses(c) ==
  /\ pc[c] = "sleeping"
  /\ \E t \in jittered(delay[c]) : elapsed' = [elapsed EXCEPT ![c] = @ + t]
  /\ pc' = [pc EXCEPT ![c] = "asking"]
  /\ UNCHANGED <<signing, inTransit, job, size, terminal, delay, reply, outcome, blob_ids>>

\* What an answer may say of item i; it may leave out a job it was asked about.
Says(c, i) ==
  {NoReport} \cup (IF i \in Pending(c) THEN Reports(job[c][i], Blob(c, i)) ELSE {})

RelayerAnswers(c) ==
  /\ pc[c] = "asking"
  /\ \E r \in [Items -> UNION {Says(c, i) : i \in Items}] :
       /\ \A i \in Items : r[i] \in Says(c, i)
       /\ reply' = [reply EXCEPT ![c] = r]
  /\ pc' = [pc EXCEPT ![c] = "answered"]
  /\ UNCHANGED <<signing, inTransit, job, size, terminal, delay, elapsed, outcome, blob_ids>>

RequestTakes(c) ==
  \E t \in Latencies : elapsed' = [elapsed EXCEPT ![c] = @ + t]

\* Mutant of StatusesFail: poll_bulk_jobs is called again, with a new deadline.
StatusesFail_retried(c) ==
  /\ pc[c] \in {"asking", "answered"}
  /\ pc' = [pc EXCEPT ![c] = "sleeping"]
  /\ delay' = [delay EXCEPT ![c] = POLL_INITIAL]
  /\ elapsed' = [elapsed EXCEPT ![c] = 0]
  /\ UNCHANGED <<signing, inTransit, job, size, terminal, reply, outcome, blob_ids>>

StatusesFail(c) ==
  /\ pc[c] \in {"asking", "answered"}
  /\ RequestTakes(c)
  /\ \E e \in HttpErrors : Return(c, e)
  /\ UNCHANGED <<signing, inTransit, job, size, terminal, delay, reply, blob_ids>>

Unreadable(c) == \E i \in Pending(c) : reply[c][i].status \in {"absent", "unknown"}

\* A pending job that is missing, or in a status without a name, ends the call.
StatusesUnreadable(c) ==
  /\ pc[c] = "answered"
  /\ Unreadable(c)
  /\ RequestTakes(c)
  /\ Return(c, "server")
  /\ UNCHANGED <<signing, inTransit, job, size, terminal, delay, reply, blob_ids>>

\* Mutant of Cached: an uploaded blob is taken for a stored one.
Cached_uploaded(c) ==
  [i \in Items |->
     IF i \in Pending(c) /\ reply[c][i].status = "uploaded"
     THEN [reply[c][i] EXCEPT !.status = "done"]
     ELSE IF i \in Pending(c) /\ IsTerminal(reply[c][i].status)
     THEN reply[c][i] ELSE terminal[c][i]]

\* The cache after the answer: Done and Failed are kept, for good.
Cached(c) ==
  [i \in Items |-> IF i \in Pending(c) /\ IsTerminal(reply[c][i].status)
                   THEN reply[c][i] ELSE terminal[c][i]]

Read(c) ==
  /\ pc[c] = "answered"
  /\ ~Unreadable(c)
  /\ RequestTakes(c)
  /\ terminal' = [terminal EXCEPT ![c] = Cached(c)]

\* The deadline comes before the loop looks again at what is pending.
PastDeadline(c) ==
  /\ Read(c)
  /\ elapsed'[c] >= POLL_BUDGET
  /\ Return(c, "timeout")
  /\ UNCHANGED <<signing, inTransit, job, size, delay, reply, blob_ids>>

\* Mutant of KeepPolling: the first failed job ends the call.
KeepPolling_fail_fast(c) ==
  /\ Read(c)
  /\ elapsed'[c] < POLL_BUDGET
  /\ \E i \in 1 .. size[c] : ~IsTerminal(Cached(c)[i].status)
  /\ IF \E i \in 1 .. size[c] : Cached(c)[i].status = "failed"
     THEN Return(c, "jobFailed") /\ UNCHANGED delay
     ELSE /\ delay' = [delay EXCEPT ![c] = next_backoff(@)]
          /\ pc' = [pc EXCEPT ![c] = "sleeping"]
          /\ UNCHANGED outcome
  /\ UNCHANGED <<signing, inTransit, job, size, reply, blob_ids>>

KeepPolling(c) ==
  /\ Read(c)
  /\ elapsed'[c] < POLL_BUDGET
  /\ \E i \in 1 .. size[c] : ~IsTerminal(Cached(c)[i].status)
  /\ delay' = [delay EXCEPT ![c] = next_backoff(@)]
  /\ pc' = [pc EXCEPT ![c] = "sleeping"]
  /\ UNCHANGED <<signing, inTransit, job, size, reply, outcome, blob_ids>>

Stored(report) == report.status = "done" /\ report.blob_id # None

\* Mutant of Assemble: items that are not stored are left out of an Ok.
Assemble_partial(c) ==
  /\ Read(c)
  /\ elapsed'[c] < POLL_BUDGET
  /\ \A i \in 1 .. size[c] : IsTerminal(Cached(c)[i].status)
  /\ LET stored == SelectSeq([i \in 1 .. size[c] |-> Cached(c)[i]], Stored) IN
       blob_ids' = [blob_ids EXCEPT ![c] =
         [k \in 1 .. Len(stored) |-> CHOOSE b \in stored[k].blob_id : TRUE]]
  /\ Return(c, "ok")
  /\ UNCHANGED <<signing, inTransit, job, size, delay, reply>>

\* Every job is terminal: the first item, in the order of the batch, that is
\* not stored decides the error; with none, the blob ids are the answer.
Assemble(c) ==
  /\ Read(c)
  /\ elapsed'[c] < POLL_BUDGET
  /\ \A i \in 1 .. size[c] : IsTerminal(Cached(c)[i].status)
  /\ \/ /\ \A i \in 1 .. size[c] : Stored(Cached(c)[i])
        /\ blob_ids' = [blob_ids EXCEPT ![c] =
             [i \in 1 .. size[c] |-> CHOOSE b \in Cached(c)[i].blob_id : TRUE]]
        /\ Return(c, "ok")
     \/ /\ \E i \in 1 .. size[c] :
             /\ ~Stored(Cached(c)[i])
             /\ \A k \in 1 .. i - 1 : Stored(Cached(c)[k])
             /\ Return(c, IF Cached(c)[i].status = "failed" THEN "jobFailed" ELSE "server")
        /\ UNCHANGED blob_ids
  /\ UNCHANGED <<signing, inTransit, job, size, delay, reply>>

\* The future is dropped at an await; nothing tells the relayer.
Drop(c) ==
  /\ pc[c] \in {"posting", "sleeping", "asking", "answered"}
  /\ Return(c, "cancelled")
  /\ UNCHANGED <<signing, inTransit, job, size, terminal, delay, elapsed, reply, blob_ids>>

-----------------------------------------------------------------------------

Start(c) == RefuseBatch(c) \/ RefuseText(c) \/ RefuseUnsigned(c) \/ PostBulk(c)

poll_bulk_jobs(c) ==
  \/ AskStatuses(c)
  \/ StatusesFail(c)
  \/ StatusesUnreadable(c)
  \/ PastDeadline(c)
  \/ KeepPolling(c)
  \/ Assemble(c)

Relayer(c) == RelayerAccepts(c) \/ RelayerWorks(c) \/ RelayerAnswers(c)

Client(c) == Accepted(c) \/ PostFails(c) \/ poll_bulk_jobs(c)

Next == \E c \in Calls : Start(c) \/ Client(c) \/ Relayer(c) \/ Drop(c)

Spec == Init /\ [][Next]_vars /\ \A c \in Calls : WF_vars(Client(c))

-----------------------------------------------------------------------------

Blobs == {Blob(c, i) : c \in Calls, i \in Items}
ItemReport == Report(Blobs)

TypeOK ==
  /\ signing \in BOOLEAN
  /\ inTransit \subseteq Calls
  /\ job \in [Calls -> [Items -> JobState]]
  /\ pc \in [Calls -> {"idle", "posting", "sleeping", "asking", "answered", "returned"}]
  /\ size \in [Calls -> 0 .. MAX_BULK_ITEMS]
  /\ terminal \in [Calls -> [Items -> ItemReport]]
  /\ delay \in [Calls -> Delays]
  /\ elapsed \in [Calls -> Nat]
  /\ reply \in [Calls -> [Items -> ItemReport]]
  /\ outcome \in [Calls -> {"none", "ok"} \cup Errors]
  /\ blob_ids \in [Calls -> Seq(Blobs)]

\* The cache is never ahead of the relayer nor mixed up between items: what it
\* holds of an item is how that item's own job ended.  Every later answer of
\* the call is assembled from it, with no second look.
CacheIsTrue ==
  \A c \in Calls, i \in Items :
    LET report == terminal[c][i] IN
      IsTerminal(report.status) =>
        /\ job[c][i] = report.status
        /\ report.blob_id \subseteq {Blob(c, i)}

\* A failed batch is known item by item when it is reported: no job of it is
\* still under way, so what is stored of it then is all that ever will be.
FailedBatchIsOver ==
  \A c \in Calls : outcome[c] = "jobFailed" =>
    /\ \A i \in 1 .. size[c] : IsTerminal(job[c][i])
    /\ \E i \in 1 .. size[c] : job[c][i] = "failed"

\* However the relayer stalls, a call that polls is over at most one sleep and
\* one request after the budget.
PollBounded == \A c \in Calls : elapsed[c] <= LongestPoll

\* A call whose POST has left returns, whatever relayer and network do.
CallReturns == \A c \in Calls : pc[c] = "posting" ~> pc[c] = "returned"

\* "Poll batched jobs to terminal state ... First `failed` surfaces as
\* Err(JobFailed)": a timeout is for a batch that has a job still pending.
TimeoutIsHonest ==
  \A c \in Calls : outcome[c] = "timeout" => Pending(c) # {}

-----------------------------------------------------------------------------
(* Why the above holds: what is true between any two steps.                 *)

Refusals == {"batchSize", "config", "auth"}

\* Where a batch stands in the relayer, by where the future of its call is:
\* the relayer has all of it or nothing.
StageInv ==
  \A c \in Calls :
    /\ (outcome[c] = "none") <=> (pc[c] # "returned")
    /\ (pc[c] = "idle" \/ outcome[c] \in Refusals) <=> (size[c] = 0)
    /\ c \in inTransit => size[c] # 0 /\ \A i \in Items : job[c][i] = "absent"
    /\ \A i, k \in 1 .. size[c] : job[c][i] = "absent" => job[c][k] = "absent"
    /\ \A i \in Items : i > size[c] => job[c][i] = "absent"
    /\ pc[c] \in {"sleeping", "asking", "answered"} =>
         \A i \in 1 .. size[c] : job[c][i] # "absent"

\* What an answer says of a pending job is still true when it is read.
ReplyInv ==
  \A c \in Calls : pc[c] = "answered" =>
    \A i \in Items : IsTerminal(reply[c][i].status) =>
      /\ job[c][i] = reply[c][i].status
      /\ reply[c][i].blob_id \subseteq {Blob(c, i)}

\* The clock of a call, by where its future is.
ClockInv ==
  \A c \in Calls :
    /\ pc[c] \in {"idle", "posting"} => elapsed[c] = 0
    /\ pc[c] = "sleeping" => elapsed[c] < POLL_BUDGET
    /\ pc[c] \in {"asking", "answered"} => elapsed[c] < POLL_BUDGET + LongestSleep
    /\ elapsed[c] <= LongestPoll

\* A batch that is reported stored is stored, every item of it.
OkInv ==
  \A c \in Calls : outcome[c] = "ok" => \A i \in 1 .. size[c] : job[c][i] = "done"

-----------------------------------------------------------------------------
(* The promise to the caller, as for remember: a refusal before the POST and *)
(* a failed job settle the call, every other error leaves it in doubt.      *)

Settled == {"batchSize", "config", "auth", "jobFailed"}

Verdict(c) ==
  IF pc[c] = "idle" THEN "idle"
  ELSE IF outcome[c] = "none" THEN "open"
  ELSE IF outcome[c] = "ok" THEN "ok"
  ELSE IF outcome[c] \in Settled THEN "settled"
  ELSE "doubt"

durableBar == [c \in Calls |-> {i \in Items : job[c][i] = "done"}]
verdictBar == [c \in Calls |-> Verdict(c)]

Promise == INSTANCE DurableWrite WITH
  MaxItems <- MAX_BULK_ITEMS,
  durable <- durableBar, verdict <- verdictBar, blobs <- blob_ids

\* blob_ids[i] is the blob of item i, Ok is said only when all are stored, and
\* after a refusal or a failed job nothing more of the batch is stored.
KeepsPromise == Promise!Spec
=============================================================================
