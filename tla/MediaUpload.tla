----------------------------- MODULE MediaUpload -----------------------------
(***************************************************************************)
(* xyz.taluslabs.social.twitter.upload-media (media/upload_media.rs): one  *)
(* call cuts the media into segments and makes a sequence of requests to   *)
(* X, INIT, APPEND for each segment, FINALIZE and, unless the upload is    *)
(* optimistic, STATUS until the media is processed.  X and the network are *)
(* not in this repository: a request that the client gave up may still     *)
(* arrive, and X processes a finalized media on its own.                   *)
(***************************************************************************)
EXTENDS MediaChunks

CONSTANTS
  Inputs,        \* the requests: [size, type, category, chunk_size, optimistic]
  MAX_CHUNKS,    \* 999, the most segments X takes
  MAX_ATTEMPTS,  \* 20, the most STATUS requests
  U32_RANGE      \* 2^32

ASSUME MediaAssumption ==
  /\ Inputs \subseteq [size : Nat, type : MediaType, category : MediaCategory,
                       chunk_size : Nat, optimistic : BOOLEAN]
  /\ MAX_CHUNKS \in Nat \ {0}
  /\ MAX_ATTEMPTS \in Nat \ {0}
  /\ U32_RANGE \in Nat \ {0}

VARIABLES
  input,     \* the request being served
  pc,        \* the await the call is suspended at
  segment,   \* the next segment to append
  attempts,  \* attempts of wait_for_processing_completion
  outcome,   \* the Output: "ok", or what lies behind Err
  inFlight,  \* the requests that X may still receive
  answer,    \* the answer to the request the client waits for
  total,     \* in X: the size that INIT announced
  segments,  \* in X: the segments it has, each with the bytes it holds
  finalized, \* in X: FINALIZE was handled
  state      \* in X: how far the media is processed, "none" if it need not be

client == <<input, pc, segment, attempts, outcome>>
session == <<total, segments, finalized, state>>
vars == <<input, pc, segment, attempts, outcome, inFlight, answer, total, segments,
          finalized, state>>

NoAnswer == [ok |-> FALSE, state |-> "none"]
Waiting == {"init", "append", "finalize", "status"}
Processing == {"none", "pending", "in_progress", "succeeded", "failed"}

chunk_size ==
  IF input.chunk_size > 0 THEN input.chunk_size
  ELSE calculate_optimal_chunk_size(input.size, input.type, input.category)

chunks == total_chunks(input.size, chunk_size)

\* media_data.len() as u32: the size that INIT announces.
announced == input.size % U32_RANGE

Init ==
  /\ input \in Inputs
  /\ pc = "idle"
  /\ segment = 0
  /\ attempts = 0
  /\ outcome = "none"
  /\ inFlight = {}
  /\ answer = NoAnswer
  /\ total = 0
  /\ segments = <<>>
  /\ finalized = FALSE
  /\ state = "none"

Return(o) == pc' = "returned" /\ outcome' = o

\* The request of a phase, and its being sent: the client waits for its answer.
Request(command, i) == [command |-> command, segment |-> i]

Send(command, i) ==
  /\ pc' = command
  /\ inFlight' = inFlight \cup {Request(command, i)}
  /\ answer' = NoAnswer

-----------------------------------------------------------------------------
(* The tool.                                                                *)

\* media_data is not base64, or is empty, or would make too many chunks.
Refuse ==
  /\ pc = "idle"
  /\ \/ Return("base64")
     \/ input.size = 0 /\ Return("empty")
     \/ input.size # 0 /\ chunks > MAX_CHUNKS /\ Return("tooManyChunks")
  /\ UNCHANGED <<input, segment, attempts, inFlight, answer, session>>

SendInit ==
  /\ pc = "idle"
  /\ input.size # 0
  /\ chunks <= MAX_CHUNKS
  /\ Send("init", 0)
  /\ UNCHANGED <<input, segment, attempts, outcome, session>>

\* The answer to INIT or to an APPEND: the next segment, or FINALIZE.
NextSegment ==
  /\ pc \in {"init", "append"}
  /\ answer.ok
  /\ IF segment < chunks
     THEN Send("append", segment) /\ segment' = segment + 1
     ELSE Send("finalize", 0) /\ UNCHANGED segment
  /\ UNCHANGED <<input, attempts, outcome, session>>

\* An optimistic upload, and one whose media needs no processing or is
\* processed already, ends with FINALIZE.
FinalizeEnds ==
  /\ pc = "finalize"
  /\ answer.ok
  /\ input.optimistic \/ answer.state \in {"none", "succeeded"}
  /\ Return("ok")
  /\ UNCHANGED <<input, segment, attempts, inFlight, answer, session>>

FinalizeWaits ==
  /\ pc = "finalize"
  /\ answer.ok
  /\ ~input.optimistic
  /\ answer.state \notin {"none", "succeeded"}
  /\ Send("status", 0)
  /\ UNCHANGED <<input, segment, attempts, outcome, session>>

\* Mutant of StatusEnds: any answer that is not a failure will do.
StatusEnds_hopeful ==
  /\ pc = "status"
  /\ answer.ok
  /\ Return(IF answer.state = "failed" THEN "processingFailed" ELSE "ok")
  /\ UNCHANGED <<input, segment, attempts, inFlight, answer, session>>

\* Processing is over; no processing info means that too.
StatusEnds ==
  /\ pc = "status"
  /\ answer.ok
  /\ \/ answer.state \in {"none", "succeeded"} /\ Return("ok")
     \/ answer.state = "failed" /\ Return("processingFailed")
  /\ UNCHANGED <<input, segment, attempts, inFlight, answer, session>>

\* Mutant of StatusWaits: the attempts are not counted.
StatusWaits_forever ==
  /\ pc = "status"
  /\ answer.ok
  /\ answer.state \in {"pending", "in_progress"}
  /\ pc' = "sleeping"
  /\ UNCHANGED <<input, segment, attempts, outcome, inFlight, answer, session>>

\* Still processing: sleep for as long as X says, unless the attempts are spent.
StatusWaits ==
  /\ pc = "status"
  /\ answer.ok
  /\ answer.state \in {"pending", "in_progress"}
  /\ attempts' = attempts + 1
  /\ IF attempts + 1 >= MAX_ATTEMPTS
     THEN Return("timedOut")
     ELSE pc' = "sleeping" /\ UNCHANGED outcome
  /\ UNCHANGED <<input, segment, inFlight, answer, session>>

AskAgain ==
  /\ pc = "sleeping"
  /\ Send("status", 0)
  /\ UNCHANGED <<input, segment, attempts, outcome, session>>

\* Mutant of RequestFails: a segment whose request fails is skipped.
RequestFails_skips ==
  /\ pc \in Waiting
  /\ IF pc = "append" /\ segment < chunks
     THEN Send("append", segment) /\ segment' = segment + 1 /\ UNCHANGED outcome
     ELSE Return("request") /\ UNCHANGED <<segment, inFlight, answer>>
  /\ UNCHANGED <<input, attempts, session>>

\* The connection breaks, X answers with an error, or the answer does not
\* parse: the call ends, whatever has become of the request.
RequestFails ==
  /\ pc \in Waiting
  /\ Return("request")
  /\ UNCHANGED <<input, segment, attempts, inFlight, answer, session>>

\* The future is dropped at an await.
Drop ==
  /\ pc \in Waiting \cup {"sleeping"}
  /\ Return("cancelled")
  /\ UNCHANGED <<input, segment, attempts, inFlight, answer, session>>

-----------------------------------------------------------------------------
(* X.                                                                       *)

\* What a request does to the session: X takes whatever segments it is sent,
\* and it is the tool that has to send them all before FINALIZE.
Takes(request) ==
  \/ /\ request.command = "init"
     /\ total' = announced
     /\ UNCHANGED <<segments, finalized, state>>
  \/ /\ request.command = "append"
     /\ segments' = [i \in DOMAIN segments \cup {request.segment} |->
          IF i = request.segment THEN Segment(input.size, chunk_size, i) ELSE segments[i]]
     /\ UNCHANGED <<total, finalized, state>>
  \/ /\ request.command = "finalize"
     /\ finalized' = TRUE
     /\ state' \in Processing
     /\ UNCHANGED <<total, segments>>
  \/ /\ request.command = "status"
     /\ UNCHANGED session

\* X handles a request; the client learns of it if it is the one it waits for.
XHandles ==
  \E request \in inFlight :
    /\ inFlight' = inFlight \ {request}
    /\ Takes(request)
    /\ answer' = IF pc = request.command /\ (pc = "append" => request.segment = segment - 1)
                 THEN [ok |-> TRUE, state |-> state'] ELSE answer
    /\ UNCHANGED client

XProcesses ==
  /\ state \in {"pending", "in_progress"}
  /\ state' \in {"in_progress", "succeeded", "failed"} \ {state}
  /\ UNCHANGED <<client, inFlight, answer, total, segments, finalized>>

-----------------------------------------------------------------------------

Client ==
  \/ NextSegment
  \/ FinalizeEnds
  \/ FinalizeWaits
  \/ StatusEnds
  \/ StatusWaits
  \/ AskAgain

Next ==
  \/ Refuse \/ SendInit
  \/ Client
  \/ RequestFails \/ Drop
  \/ XHandles \/ XProcesses

\* The runtime runs a call whose answer is there or whose sleep is over.  The
\* client sets no time limit on a request (Client::new): that X handles the
\* requests it is sent is an assumption about X.
Spec == Init /\ [][Next]_vars /\ WF_vars(Client) /\ WF_vars(XHandles)

-----------------------------------------------------------------------------

Outcomes ==
  {"none", "ok", "base64", "empty", "tooManyChunks", "request", "processingFailed",
   "timedOut", "cancelled"}

TypeOK ==
  /\ input \in Inputs
  /\ pc \in Waiting \cup {"idle", "sleeping", "returned"}
  /\ segment \in 0 .. MAX_CHUNKS
  /\ attempts \in 0 .. MAX_ATTEMPTS
  /\ outcome \in Outcomes
  /\ inFlight \subseteq [command : Waiting, segment : 0 .. MAX_CHUNKS - 1]
  /\ answer \in [ok : BOOLEAN, state : Processing]
  /\ total \in 0 .. U32_RANGE - 1
  /\ DOMAIN segments \subseteq 0 .. MAX_CHUNKS - 1
  /\ \A i \in DOMAIN segments : segments[i] \in [from : Nat, to : Nat]
  /\ finalized \in BOOLEAN
  /\ state \in Processing

\* The segments X has are all of the media, each byte of it once and in order,
\* and as many bytes as INIT announced, unless a u32 does not hold the size.
Whole ==
  LET n == chunks IN
    /\ DOMAIN segments = 0 .. n - 1
    /\ segments[0].from = 0
    /\ \A i \in 0 .. n - 2 : segments[i].to = segments[i + 1].from
    /\ segments[n - 1].to = input.size
    /\ input.size < U32_RANGE => total = input.size

\* A media is finalized only when X has all of it: no failed, skipped or late
\* request leaves a hole behind which the upload goes on.
FinalizedIsWhole == finalized => Whole

\* With an automatic chunk size no segment is empty or above the 5 MB that X
\* takes, and an upload never announces a segment beyond X's limit.
SegmentsWithinLimit ==
  \A i \in DOMAIN segments :
    LET bytes == segments[i].to - segments[i].from IN
      /\ i < MAX_CHUNKS
      /\ bytes > 0
      /\ input.chunk_size = 0 => bytes <= MAX_CHUNK_SIZE

\* Every upload that was started ends, if X answers: the STATUS loop gives up
\* on a media that is processed for ever.
UploadEnds == pc = "init" ~> pc = "returned"

-----------------------------------------------------------------------------
(* Why the above holds: what is true between any two steps.                 *)

Refused == {"base64", "empty", "tooManyChunks"}

AllSent ==
  /\ total = announced
  /\ DOMAIN segments = 0 .. chunks - 1
  /\ \A request \in inFlight : request.command \in {"finalize", "status"}

\* What X has of the upload, by how far the call has come.
SessionInv ==
  /\ pc = "returned" <=> outcome # "none"
  /\ pc # "returned" => attempts < MAX_ATTEMPTS
  /\ pc = "idle" \/ outcome \in Refused =>
       segment = 0 /\ inFlight = {} /\ DOMAIN segments = {} /\ ~finalized
  /\ pc # "idle" /\ outcome \notin Refused =>
       input.size # 0 /\ chunks <= MAX_CHUNKS /\ segment <= chunks
  /\ \A i \in DOMAIN segments :
       i < segment /\ segments[i] = Segment(input.size, chunk_size, i)
  /\ \A request \in inFlight :
       request.command = "append" => request.segment < segment
  /\ pc \in {"idle", "init", "append"} =>
       ~finalized /\ \A request \in inFlight : request.command # "finalize"
  /\ pc = "init" => segment = 0 /\ inFlight \subseteq {Request("init", 0)}
  /\ pc = "append" =>
       /\ segment >= 1
       /\ inFlight \subseteq {Request("append", segment - 1)}
       /\ total = announced
       /\ 0 .. segment - 2 \subseteq DOMAIN segments
  /\ \/ finalized \/ pc \in {"finalize", "status", "sleeping"}
     \/ \E request \in inFlight : request.command = "finalize"
     => AllSent

\* What an answer tells the call is still true when it is read.
AnswerInv ==
  /\ pc = "init" /\ answer.ok => inFlight = {} /\ total = announced
  /\ pc = "append" /\ answer.ok => inFlight = {} /\ segment - 1 \in DOMAIN segments
  /\ pc = "finalize" /\ answer.ok => finalized
  /\ pc \in {"status", "sleeping"} => finalized
  /\ outcome \in {"ok", "processingFailed", "timedOut"} => finalized
  /\ finalized => \A request \in inFlight : request.command # "finalize"
  /\ \A request \in inFlight : request.command # "append" => request.segment = 0
  /\ ~finalized => state = "none"
  /\ pc \in {"finalize", "status"} /\ answer.ok
       /\ answer.state \in {"none", "succeeded", "failed"} => state = answer.state
  /\ pc \in {"finalize", "status"} /\ answer.ok /\ answer.state \in {"pending", "in_progress"}
       => state # "none"

-----------------------------------------------------------------------------
(* The promise to the caller.                                               *)

mediaBar ==
  IF ~finalized THEN "absent"
  ELSE IF state \in {"pending", "in_progress"} THEN "uploaded"
  ELSE IF state = "failed" THEN "broken" ELSE "ready"

verdictBar ==
  IF outcome = "none" THEN IF pc = "idle" THEN "idle" ELSE "open"
  ELSE IF outcome = "ok" THEN "ok"
  ELSE IF outcome \in {"base64", "empty", "tooManyChunks", "processingFailed"} THEN "settled"
  ELSE "doubt"

Promise == INSTANCE MediaPromise WITH
  waits <- ~input.optimistic, media <- mediaBar, verdict <- verdictBar

\* Ok is said of a finalized media, of a processed one when the caller waits;
\* "processing failed" and the refusals are final; every other error may leave
\* a media that X has or will have.
KeepsPromise == Promise!Spec
==============================================================================
