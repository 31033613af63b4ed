---------------------------- MODULE WalrusUpload ----------------------------
(***************************************************************************)
(* xyz.taluslabs.storage.walrus.upload-json and upload-file: one PUT to    *)
(* the operator's publisher, and a second one after a delay if the first   *)
(* was answered with the 500 of a publisher that stored the blob but did   *)
(* not see it yet (with_publisher_retry, client.rs).  The publisher, Sui   *)
(* behind it and the files that upload-file reads are not in this          *)
(* repository.                                                             *)
(***************************************************************************)
EXTENDS Naturals, FiniteSets

CONSTANTS
  JsonCalls,   \* calls of upload-json: the content comes with the request
  FileCalls,   \* calls of upload-file: the content is read at each attempt
  Contents,    \* what there is to store; a blob id stands for its content
  Gone,        \* what is read of a file that is not there
  RETRY_DELAY, \* publisher_retry_delay()
  MaxLag       \* the longest time Sui's fullnodes disagree on a new blob

Calls == JsonCalls \cup FileCalls

\* "It's a brief consistency lag [...] which clears in well under
\* PUBLISHER_RETRY_DELAY in practice" (client.rs): an assumption about Sui.
ASSUME UploadAssumption ==
  /\ JsonCalls \cap FileCalls = {}
  /\ Gone \notin Contents
  /\ RETRY_DELAY \in Nat
  /\ MaxLag \in Nat
  /\ MaxLag <= RETRY_DELAY

VARIABLES
  pc,       \* pc[c]: the await call c is suspended at
  content,  \* content[c]: the bytes of the current attempt
  attempt,  \* attempt[c]: how many attempts have begun
  slept,    \* slept[c]: how long c has been sleeping
  answer,   \* answer[c]: what the publisher answered to the current attempt
  outcome,  \* outcome[c]: the variant of the Output, or the kind of Err
  file,     \* what the files hold; gone when there is none
  put,      \* the PUTs that the publisher may still handle
  certified,\* the contents stored on Walrus
  lag,      \* lag[x]: for how long a lookup may still miss x
  minted    \* minted[c]: the Blob objects that the PUTs of c created

client == <<pc, content, attempt, slept, outcome>>
chain == <<certified, lag, minted>>
vars == <<pc, content, attempt, slept, answer, outcome, file, put, certified, lag, minted>>

Answers == {"newlyCreated", "alreadyCertified", "neither", "notExists", "error"}

Init ==
  /\ pc = [c \in Calls |-> "idle"]
  /\ content \in [Calls -> Contents]
  /\ attempt = [c \in Calls |-> 0]
  /\ slept = [c \in Calls |-> 0]
  /\ answer = [c \in Calls |-> "none"]
  /\ outcome = [c \in Calls |-> "none"]
  /\ file \in Contents \cup {Gone}
  /\ put = {}
  /\ certified = {}
  /\ lag = [x \in Contents |-> 0]
  /\ minted = [c \in Calls |-> 0]

Return(c, o) ==
  /\ pc' = [pc EXCEPT ![c] = "returned"]
  /\ outcome' = [outcome EXCEPT ![c] = o]

\* The PUT of an attempt leaves.
Send(c) ==
  /\ pc' = [pc EXCEPT ![c] = "put"]
  /\ attempt' = [attempt EXCEPT ![c] = @ + 1]
  /\ answer' = [answer EXCEPT ![c] = "none"]
  /\ put' = put \cup {[call |-> c, content |-> content'[c]]}

-----------------------------------------------------------------------------
(* The tools.                                                               *)

\* The text is not JSON, the path is not a file of the upload root, or the
\* operator configured no publisher.
Refuse(c) ==
  /\ pc[c] = "idle"
  /\ Return(c, "validation")
  /\ UNCHANGED <<content, attempt, slept, answer, file, put, chain>>

\* Mutant of RetryDue: the second attempt does not wait.
RetryDue_at_once(c) == pc[c] = "sleeping"

RetryDue(c) == pc[c] = "sleeping" /\ slept[c] = RETRY_DELAY

\* An attempt: upload_bytes sends the request's bytes, upload_file what the
\* file holds now.
Attempt(c) ==
  /\ pc[c] = "idle" \/ RetryDue(c)
  /\ IF c \in JsonCalls THEN UNCHANGED content
     ELSE file # Gone /\ content' = [content EXCEPT ![c] = file]
  /\ Send(c)
  /\ UNCHANGED <<slept, outcome, file, chain>>

\* The file is gone when an attempt comes to read it.
FileGone(c) ==
  /\ c \in FileCalls
  /\ pc[c] = "idle" \/ RetryDue(c)
  /\ file = Gone
  /\ Return(c, "network")
  /\ UNCHANGED <<content, attempt, slept, answer, file, put, chain>>

\* Mutant of Succeeds: an answer without a result counts as stored before.
Succeeds_lenient(c) ==
  /\ pc[c] = "put"
  /\ \/ answer[c] = "newlyCreated" /\ Return(c, "newly_created")
     \/ answer[c] \in {"alreadyCertified", "neither"} /\ Return(c, "already_certified")
  /\ UNCHANGED <<content, attempt, slept, answer, file, put, chain>>

Succeeds(c) ==
  /\ pc[c] = "put"
  /\ \/ answer[c] = "newlyCreated" /\ Return(c, "newly_created")
     \/ answer[c] = "alreadyCertified" /\ Return(c, "already_certified")
  /\ UNCHANGED <<content, attempt, slept, answer, file, put, chain>>

\* Mutant of NoResult: upload-json words it as upload-file does.
NoResult_invalid(c) ==
  /\ pc[c] = "put"
  /\ answer[c] = "neither"
  /\ Return(c, "validation")
  /\ UNCHANGED <<content, attempt, slept, answer, file, put, chain>>

\* The answer holds neither result: a network error of upload-json, a
\* validation error of upload-file (handle_successful_upload).
NoResult(c) ==
  /\ pc[c] = "put"
  /\ answer[c] = "neither"
  /\ Return(c, IF c \in JsonCalls THEN "network" ELSE "validation")
  /\ UNCHANGED <<content, attempt, slept, answer, file, put, chain>>

\* Mutant of Retry: as often as the publisher asks for it.
Retry_forever(c) ==
  /\ pc[c] = "put"
  /\ answer[c] \in {"notExists", "error"}
  /\ pc' = [pc EXCEPT ![c] = "sleeping"]
  /\ slept' = [slept EXCEPT ![c] = 0]
  /\ attempt' = [attempt EXCEPT ![c] = 0]
  /\ UNCHANGED <<content, answer, outcome, file, put, chain>>

\* is_transient_publisher_500 on the first attempt.
Retry(c) ==
  /\ pc[c] = "put"
  /\ answer[c] = "notExists"
  /\ attempt[c] = 1
  /\ pc' = [pc EXCEPT ![c] = "sleeping"]
  /\ slept' = [slept EXCEPT ![c] = 0]
  /\ UNCHANGED <<content, attempt, answer, outcome, file, put, chain>>

\* Any other failure of the publisher, and any of the second attempt.
Fails(c) ==
  /\ pc[c] = "put"
  /\ answer[c] = "error" \/ (answer[c] = "notExists" /\ attempt[c] = 2)
  /\ Return(c, "network")
  /\ UNCHANGED <<content, attempt, slept, answer, file, put, chain>>

\* The connection breaks while the PUT is on its way or being handled.
ConnectionBreaks(c) ==
  /\ pc[c] = "put"
  /\ answer[c] = "none"
  /\ Return(c, "network")
  /\ UNCHANGED <<content, attempt, slept, answer, file, put, chain>>

\* The future is dropped at an await: the caller is gone, or the time limit of
\* the tool (30 s) is over.
Drop(c) ==
  /\ pc[c] # "returned"
  /\ Return(c, "cancelled")
  /\ UNCHANGED <<content, attempt, slept, answer, file, put, chain>>

-----------------------------------------------------------------------------
(* The publisher, Sui and the files.                                        *)

Answer(c, a) ==
  answer' = IF pc[c] = "put" THEN [answer EXCEPT ![c] = a] ELSE answer

\* A blob that a lookup finds is not created again.
FindsIt(x) == x \in certified /\ lag[x] = 0

Publishes(request) ==
  LET c == request.call
      x == request.content
  IN
  \/ /\ FindsIt(x)
     /\ Answer(c, "alreadyCertified")
     /\ UNCHANGED chain
  \/ /\ ~FindsIt(x)
     /\ certified' = certified \cup {x}
     /\ minted' = [minted EXCEPT ![c] = @ + 1]
     /\ IF x \in certified THEN UNCHANGED lag
        ELSE \E l \in 0 .. MaxLag : lag' = [lag EXCEPT ![x] = l]
     /\ \E a \in {"newlyCreated", "notExists", "neither", "error"} : Answer(c, a)
  \/ /\ \E a \in {"neither", "error"} : Answer(c, a)
     /\ UNCHANGED chain

PublisherHandles ==
  \E request \in put :
    /\ put' = put \ {request}
    /\ Publishes(request)
    /\ UNCHANGED <<client, file>>

\* A PUT on its way is lost; the client learns of it when the connection breaks.
PutIsLost ==
  \E request \in put :
    /\ put' = put \ {request}
    /\ UNCHANGED <<client, answer, file, chain>>

FileChanges ==
  /\ FileCalls # {}
  /\ file' \in (Contents \cup {Gone}) \ {file}
  /\ UNCHANGED <<client, answer, put, chain>>

\* Time passes for all calls that sleep, and for Sui.
Tick ==
  /\ \/ \E c \in Calls : pc[c] = "sleeping" /\ slept[c] < RETRY_DELAY
     \/ \E x \in Contents : lag[x] > 0
  /\ slept' = [c \in Calls |->
       IF pc[c] = "sleeping" /\ slept[c] < RETRY_DELAY THEN slept[c] + 1 ELSE slept[c]]
  /\ lag' = [x \in Contents |-> IF lag[x] > 0 THEN lag[x] - 1 ELSE 0]
  /\ UNCHANGED <<pc, content, attempt, answer, outcome, file, put, certified, minted>>

-----------------------------------------------------------------------------

Client(c) ==
  \/ Attempt(c) /\ pc[c] = "sleeping"
  \/ FileGone(c) /\ pc[c] = "sleeping"
  \/ Succeeds(c)
  \/ NoResult(c)
  \/ Retry(c)
  \/ Fails(c)

Next ==
  \/ \E c \in Calls :
       \/ Refuse(c) \/ Attempt(c) \/ FileGone(c)
       \/ Succeeds(c) \/ NoResult(c) \/ Retry(c) \/ Fails(c)
       \/ ConnectionBreaks(c) \/ Drop(c)
  \/ PublisherHandles \/ PutIsLost \/ FileChanges \/ Tick

\* The runtime runs a call whose answer is there or whose sleep is over, time
\* passes, and a connection that is lost breaks.  The client sets no time
\* limit on a PUT: an assumption about the publisher or the tool's own limit.
Spec ==
  /\ Init /\ [][Next]_vars
  /\ \A c \in Calls : WF_vars(Client(c)) /\ WF_vars(ConnectionBreaks(c))
  /\ WF_vars(Tick)

-----------------------------------------------------------------------------

TypeOK ==
  /\ pc \in [Calls -> {"idle", "put", "sleeping", "returned"}]
  /\ content \in [Calls -> Contents]
  /\ attempt \in [Calls -> 0 .. 2]
  /\ slept \in [Calls -> 0 .. RETRY_DELAY]
  /\ answer \in [Calls -> Answers \cup {"none"}]
  /\ outcome \in [Calls ->
       {"none", "newly_created", "already_certified", "validation", "network", "cancelled"}]
  /\ file \in Contents \cup {Gone}
  /\ put \subseteq [call : Calls, content : Contents]
  /\ certified \subseteq Contents
  /\ lag \in [Contents -> 0 .. MaxLag]
  /\ minted \in [Calls -> 0 .. 2]

\* A blob id is returned only for content that is stored, whatever answers and
\* attempts came before.
OkIsStored ==
  \A c \in Calls :
    outcome[c] \in {"newly_created", "already_certified"} => content[c] \in certified

\* A call of upload-json, whose two attempts send the same bytes, never pays for two
\* Blob objects.
MintsOnce == \A c \in JsonCalls : minted[c] <= 1

\* upload-json reports kind validation only before anything was sent: nothing
\* was or will be stored.  (upload-file also uses it for an answer it cannot use.)
ValidationIsOfInput ==
  \A c \in JsonCalls : outcome[c] = "validation" =>
    minted[c] = 0 /\ \A request \in put : request.call # c

\* A call that has begun ends, after at most one retry.
UploadReturns == \A c \in Calls : pc[c] = "put" ~> pc[c] = "returned"

-----------------------------------------------------------------------------
(* Why the above holds: what is true between any two steps.                 *)

\* An attempt is one PUT and at most one Blob object.
AttemptInv ==
  \A c \in Calls :
    /\ pc[c] = "idle" => attempt[c] = 0
    /\ pc[c] = "put" => attempt[c] >= 1
    /\ pc[c] = "sleeping" => attempt[c] = 1
    /\ minted[c] <= attempt[c]
    /\ \A request \in put : request.call = c =>
         /\ request.content = content[c]
         /\ minted[c] < attempt[c]
         /\ pc[c] # "sleeping"
         /\ pc[c] = "put" => answer[c] = "none"

\* What the publisher said is stored is, and stays so.
StoredInv ==
  \A c \in Calls :
    /\ answer[c] \in {"newlyCreated", "alreadyCertified", "notExists"} /\ pc[c] = "put"
         => content[c] \in certified
    /\ outcome[c] \in {"newly_created", "already_certified"} =>
         pc[c] = "returned" /\ content[c] \in certified

\* The second PUT of upload-json finds the blob of the first.
SeenInv ==
  \A c \in JsonCalls :
    /\ pc[c] = "sleeping" =>
         content[c] \in certified /\ lag[content[c]] + slept[c] <= RETRY_DELAY
    /\ attempt[c] = 2 => FindsIt(content[c])
    /\ minted[c] <= 1
=============================================================================
