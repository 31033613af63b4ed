---------------------------- MODULE RememberTool ----------------------------
(***************************************************************************)
(* xyz.taluslabs.memory.memwal.remember (remember.rs) over                 *)
(* MemWalClient::remember and MemWalClient::poll_job (client.rs).  Each    *)
(* call is an independent future of the tool's tokio runtime; the relayer, *)
(* the network and the caller interleave with it at every await.           *)
(***************************************************************************)
EXTENDS PollBackoff, MemWalApi, Sequences

CONSTANT Calls

VARIABLES
  signing,    \* the tool's client holds a delegate key (client.rs: signing)
  inTransit,  \* calls whose POST has left and has not been processed
  job,        \* job[c]: state, in the relayer, of the job of call c
  pc,         \* where the future of call c is
  delay,      \* poll_job's delay
  elapsed,    \* time since poll_job computed its deadline
  reply,      \* the last status answer that left the relayer for c
  outcome,    \* the Output of c: "ok", or the MemWalError behind Err
  blob_id     \* the blob id of an Ok

vars == <<signing, inTransit, job, pc, delay, elapsed, reply, outcome, blob_id>>
polling == <<delay, elapsed, reply>>

Blob(c) == [call |-> c, item |-> 1]
NoReply == [status |-> "absent", blob_id |-> None]

Errors == {"config", "auth", "jobFailed", "timeout", "cancelled"} \cup HttpErrors

Init ==
  /\ signing \in BOOLEAN
  /\ inTransit = {}
  /\ job = [c \in Calls |-> "absent"]
  /\ pc = [c \in Calls |-> "idle"]
  /\ delay = [c \in Calls |-> POLL_INITIAL]
  /\ elapsed = [c \in Calls |-> 0]
  /\ reply = [c \in Calls |-> NoReply]
  /\ outcome = [c \in Calls |-> "none"]
  /\ blob_id = [c \in Calls |-> None]

Return(c, o) ==
  /\ pc' = [pc EXCEPT ![c] = "returned"]
  /\ outcome' = [outcome EXCEPT ![c] = o]

\* check_text_len refuses the text before anything is signed.
RefuseText(c) ==
  /\ pc[c] = "idle"
  /\ Return(c, "config")
  /\ UNCHANGED <<signing, inTransit, job, polling, blob_id>>

\* signed_headers: a client without a key sends nothing.
RefuseUnsigned(c) ==
  /\ pc[c] = "idle"
  /\ ~signing
  /\ Return(c, "auth")
  /\ UNCHANGED <<signing, inTransit, job, polling, blob_id>>

PostRemember(c) ==
  /\ pc[c] = "idle"
  /\ signing
  /\ pc' = [pc EXCEPT ![c] = "posting"]
  /\ inTransit' = inTransit \cup {c}
  /\ UNCHANGED <<signing, job, polling, outcome, blob_id>>

\* The relayer enqueues the job; the caller may be gone by then.
RelayerAccepts(c) ==
  /\ c \in inTransit
  /\ inTransit' = inTransit \ {c}
  /\ job' = [job EXCEPT ![c] = "pending"]
  /\ UNCHANGED <<signing, pc, polling, outcome, blob_id>>

\* The 202 with the job id arrives, and poll_job takes over.
Accepted(c) ==
  /\ pc[c] = "posting"
  /\ job[c] # "absent"
  /\ pc' = [pc EXCEPT ![c] = "sleeping"]
  /\ UNCHANGED <<signing, inTransit, job, polling, outcome, blob_id>>

\* post fails.  A 429 says that the relayer refused the request; any other
\* failure says nothing about whether the request has arrived or still will.
PostFails(c) ==
  /\ pc[c] = "posting"
  /\ \/ /\ c \in inTransit
        /\ inTransit' = inTransit \ {c}
        /\ Return(c, "rateLimited")
     \/ /\ \E e \in HttpErrors \ {"rateLimited"} : Return(c, e)
        /\ UNCHANGED inTransit
  /\ UNCHANGED <<signing, job, polling, blob_id>>

RelayerWorks(c) ==
  /\ \E s \in JobSteps(job[c]) : job' = [job EXCEPT ![c] = s]
  /\ UNCHANGED <<signing, inTransit, pc, polling, outcome, blob_id>>

\* Top of the loop: sleep, then send the status request.
AskStatus(c) ==
  /\ pc[c] = "sleeping"
  /\ \E t \in jittered(delay[c]) : elapsed' = [elapsed EXCEPT ![c] = @ + t]
  /\ pc' = [pc EXCEPT ![c] = "asking"]
  /\ UNCHANGED <<signing, inTransit, job, delay, reply, outcome, blob_id>>

\* The relayer reads the job and answers; the job may move on while the answer
\* travels.
RelayerAnswers(c) ==
  /\ pc[c] = "asking"
  /\ \E r \in Reports(job[c], Blob(c)) : reply' = [reply EXCEPT ![c] = r]
  /\ pc' = [pc EXCEPT ![c] = "answered"]
  /\ UNCHANGED <<signing, inTransit, job, delay, elapsed, outcome, blob_id>>

RequestTakes(c) ==
  \E t \in Latencies : elapsed' = [elapsed EXCEPT ![c] = @ + t]

\* Mutant of StatusFails: poll_job is called again, with a new deadline.
StatusFails_retried(c) ==
  /\ pc[c] \in {"asking", "answered"}
  /\ pc' = [pc EXCEPT ![c] = "sleeping"]
  /\ delay' = [delay EXCEPT ![c] = POLL_INITIAL]
  /\ elapsed' = [elapsed EXCEPT ![c] = 0]
  /\ UNCHANGED <<signing, inTransit, job, reply, outcome, blob_id>>

\* Any failure of a status request ends the call: poll_job does not retry.
StatusFails(c) ==
  /\ pc[c] \in {"asking", "answered"}
  /\ RequestTakes(c)
  /\ \E e \in HttpErrors : Return(c, e)
  /\ UNCHANGED <<signing, inTransit, job, delay, reply, blob_id>>

\* Mutant of StatusDone: the deadline is checked before the status.
StatusDone_deadline_first(c) ==
  /\ pc[c] = "answered"
  /\ reply[c].status = "done"
  /\ RequestTakes(c)
  /\ \/ /\ elapsed'[c] >= POLL_BUDGET
        /\ Return(c, "timeout")
        /\ UNCHANGED blob_id
     \/ /\ elapsed'[c] < POLL_BUDGET
        /\ Return(c, IF reply[c].blob_id = None THEN "server" ELSE "ok")
        /\ blob_id' = [blob_id EXCEPT ![c] = reply[c].blob_id]
  /\ UNCHANGED <<signing, inTransit, job, delay, reply>>

StatusDone(c) ==
  /\ pc[c] = "answered"
  /\ reply[c].status = "done"
  /\ RequestTakes(c)
  /\ Return(c, IF reply[c].blob_id = None THEN "server" ELSE "ok")
  /\ blob_id' = [blob_id EXCEPT ![c] = reply[c].blob_id]
  /\ UNCHANGED <<signing, inTransit, job, delay, reply>>

\* Mutant of StatusRefused: a status without a name counts as a failed job.
StatusRefused_as_failed(c) ==
  /\ pc[c] = "answered"
  /\ reply[c].status \in {"failed", "unknown"}
  /\ RequestTakes(c)
  /\ Return(c, "jobFailed")
  /\ UNCHANGED <<signing, inTransit, job, delay, reply, blob_id>>

StatusRefused(c) ==
  /\ pc[c] = "answered"
  /\ reply[c].status \in {"failed", "unknown"}
  /\ RequestTakes(c)
  /\ Return(c, IF reply[c].status = "failed" THEN "jobFailed" ELSE "server")
  /\ UNCHANGED <<signing, inTransit, job, delay, reply, blob_id>>

\* Mutant of StatusInProgress: no deadline.
StatusInProgress_forever(c) ==
  /\ pc[c] = "answered"
  /\ IsInProgress(reply[c].status)
  /\ RequestTakes(c)
  /\ pc' = [pc EXCEPT ![c] = "sleeping"]
  /\ delay' = [delay EXCEPT ![c] = next_backoff(@)]
  /\ UNCHANGED <<signing, inTransit, job, reply, outcome, blob_id>>

\* Only a job still in progress gets to the deadline check.
StatusInProgress(c) ==
  /\ pc[c] = "answered"
  /\ IsInProgress(reply[c].status)
  /\ RequestTakes(c)
  /\ \/ /\ elapsed'[c] >= POLL_BUDGET
        /\ Return(c, "timeout")
        /\ UNCHANGED delay
     \/ /\ elapsed'[c] < POLL_BUDGET
        /\ pc' = [pc EXCEPT ![c] = "sleeping"]
        /\ delay' = [delay EXCEPT ![c] = next_backoff(@)]
        /\ UNCHANGED outcome
  /\ UNCHANGED <<signing, inTransit, job, reply, blob_id>>

\* The future is dropped at an await: its connection closed, or the server
\* stopped.  Nothing tells the relayer.
Drop(c) ==
  /\ pc[c] \in {"posting", "sleeping", "asking", "answered"}
  /\ Return(c, "cancelled")
  /\ UNCHANGED <<signing, inTransit, job, polling, blob_id>>

Start(c) == RefuseText(c) \/ RefuseUnsigned(c) \/ PostRemember(c)

poll_job(c) ==
  \/ AskStatus(c)
  \/ StatusFails(c)
  \/ StatusDone(c)
  \/ StatusRefused(c)
  \/ StatusInProgress(c)

Relayer(c) == RelayerAccepts(c) \/ RelayerWorks(c) \/ RelayerAnswers(c)

\* What the runtime runs of a call once its POST has left.  Every await in it
\* ends: a sleep by its timer, a request by the client's time limit.
Client(c) == Accepted(c) \/ PostFails(c) \/ poll_job(c)

Next == \E c \in Calls : Start(c) \/ Client(c) \/ Relayer(c) \/ Drop(c)

\* No fairness for the relayer, the network or the caller.
Spec == Init /\ [][Next]_vars /\ \A c \in Calls : WF_vars(Client(c))

-----------------------------------------------------------------------------

TypeOK ==
  /\ signing \in BOOLEAN
  /\ inTransit \subseteq Calls
  /\ job \in [Calls -> JobState]
  /\ pc \in [Calls -> {"idle", "posting", "sleeping", "asking", "answered", "returned"}]
  /\ delay \in [Calls -> Delays]
  /\ elapsed \in [Calls -> Nat]
  /\ reply \in [Calls -> Report({Blob(c) : c \in Calls})]
  /\ outcome \in [Calls -> {"none", "ok"} \cup Errors]
  /\ blob_id \in [Calls -> {None} \cup {Some(Blob(c)) : c \in Calls}]

\* A call that timed out polled for the whole budget and its last answer was
\* a job still in progress: an answer that ends the job, however late it
\* comes, is never turned into a timeout (poll_job checks the deadline after
\* it has looked at the status).
TimeoutIsHonest ==
  \A c \in Calls : outcome[c] = "timeout" =>
    /\ elapsed[c] >= POLL_BUDGET
    /\ IsInProgress(reply[c].status)

\* However the relayer stalls, a call that polls is over at most one sleep and
\* one request after the budget (the checks before each further poll, the cap
\* on the delay and the request's time limit together).
PollBounded == \A c \in Calls : elapsed[c] <= LongestPoll

\* A call whose POST has left returns, whatever relayer and network do.
CallReturns == \A c \in Calls : pc[c] = "posting" ~> pc[c] = "returned"

-----------------------------------------------------------------------------
(* Why the above holds: what is true between any two steps.                 *)

\* Where a call stands in the relayer, by where its future is.
StageInv ==
  \A c \in Calls :
    /\ (outcome[c] = "none") <=> (pc[c] # "returned")
    /\ c \in inTransit => job[c] = "absent"
    /\ pc[c] = "idle" \/ outcome[c] \in {"config", "auth"} =>
         job[c] = "absent" /\ c \notin inTransit
    /\ pc[c] \in {"sleeping", "asking", "answered"} => job[c] # "absent"

\* An answer that ends a job is still true when it is read, because a terminal
\* job does not move; what a call returned on the strength of it stays true.
ReplyInv ==
  \A c \in Calls :
    /\ pc[c] = "answered" =>
         /\ reply[c].status # "absent"
         /\ IsTerminal(reply[c].status) => job[c] = reply[c].status
         /\ reply[c].blob_id \in {None, Some(Blob(c))}
    /\ outcome[c] = "ok" => job[c] = "done" /\ blob_id[c] = Some(Blob(c))
    /\ outcome[c] = "jobFailed" => job[c] = "failed"

\* The clock of a call, by where its future is.
ClockInv ==
  \A c \in Calls :
    /\ pc[c] \in {"idle", "posting"} => elapsed[c] = 0
    /\ pc[c] = "sleeping" => elapsed[c] < POLL_BUDGET
    /\ pc[c] \in {"asking", "answered"} => elapsed[c] < POLL_BUDGET + LongestSleep
    /\ elapsed[c] <= LongestPoll

-----------------------------------------------------------------------------
(* The promise to the caller.  A refusal before the POST and a failed job   *)
(* settle the call.  Every other error leaves it in doubt: a rate limit too, *)
(* for the 429 may have answered a status request.                          *)

Settled == {"config", "auth", "jobFailed"}

Verdict(c) ==
  IF pc[c] = "idle" THEN "idle"
  ELSE IF outcome[c] = "none" THEN "open"
  ELSE IF outcome[c] = "ok" THEN "ok"
  ELSE IF outcome[c] \in Settled THEN "settled"
  ELSE "doubt"

sizeBar == [c \in Calls |-> IF pc[c] = "idle" \/ outcome[c] \in {"config", "auth"}
                            THEN 0 ELSE 1]
durableBar == [c \in Calls |-> IF job[c] = "done" THEN {1} ELSE {}]
verdictBar == [c \in Calls |-> Verdict(c)]
Listed(option) == [i \in 1 .. 1 |-> CHOOSE b \in option : TRUE]
blobsBar == [c \in Calls |-> IF outcome[c] = "ok" THEN Listed(blob_id[c]) ELSE <<>>]

Promise == INSTANCE DurableWrite WITH
  MaxItems <- 1,
  size <- sizeBar, durable <- durableBar, verdict <- verdictBar, blobs <- blobsBar

\* Ok means stored, with the blob of this call's text, and after a failed job
\* or a refusal nothing of the call is stored later: remember keeps the promise.
KeepsPromise == Promise!Spec
=============================================================================
