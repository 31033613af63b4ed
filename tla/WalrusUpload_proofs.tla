------------------------ MODULE WalrusUpload_proofs ------------------------
(***************************************************************************)
(* Theorems about WalrusUpload, for any calls, contents and delays.        *)
(***************************************************************************)
EXTENDS WalrusUpload, TLAPS

IInv == TypeOK /\ AttemptInv /\ StoredInv /\ SeenInv

LEMMA Initially == Init => IInv
<1> SUFFICES ASSUME Init PROVE IInv
  OBVIOUS
<1> USE UploadAssumption DEF Init, Calls
<1>1. TypeOK
  <2>1. 0 \in 0 .. RETRY_DELAY /\ 0 \in 0 .. MaxLag
    OBVIOUS
  <2>2. QED
    BY <2>1 DEF TypeOK, Answers
<1>2. AttemptInv
  BY DEF AttemptInv
<1>3. StoredInv
  BY DEF StoredInv
<1>4. SeenInv
  BY DEF SeenInv
<1>5. QED
  BY <1>1, <1>2, <1>3, <1>4 DEF IInv

\* What a step of a call's future can change.
Returns(c) ==
  /\ pc[c] # "returned"
  /\ \E o \in {"newly_created", "already_certified", "validation", "network", "cancelled"} :
       /\ Return(c, o)
       /\ o \in {"newly_created", "already_certified"} =>
            pc[c] = "put" /\ answer[c] \in {"newlyCreated", "alreadyCertified"}
  /\ UNCHANGED <<content, attempt, slept, answer, file, put, chain>>

LEMMA WaysToReturn ==
  ASSUME TypeOK, NEW c \in Calls,
         \/ Refuse(c) \/ FileGone(c) \/ Succeeds(c) \/ NoResult(c) \/ Fails(c)
         \/ ConnectionBreaks(c) \/ Drop(c)
  PROVE  Returns(c)
BY DEF Refuse, FileGone, RetryDue, Succeeds, NoResult, Fails, ConnectionBreaks, Drop, Returns

LEMMA ReturnStep ==
  ASSUME IInv, NEW c \in Calls, Returns(c)
  PROVE  IInv'
<1>1. PICK o \in {"newly_created", "already_certified", "validation", "network", "cancelled"} :
        /\ Return(c, o)
        /\ o \in {"newly_created", "already_certified"} =>
             pc[c] = "put" /\ answer[c] \in {"newlyCreated", "alreadyCertified"}
  BY DEF Returns
<1>2. UNCHANGED <<content, attempt, slept, answer, file, put, certified, lag, minted>>
  BY DEF Returns, chain
<1>3. /\ pc' = [pc EXCEPT ![c] = "returned"]
      /\ outcome' = [outcome EXCEPT ![c] = o]
  BY <1>1 DEF Return
<1> USE DEF IInv
<1>4. TypeOK'
  BY <1>2, <1>3 DEF TypeOK
<1>5. AttemptInv'
  BY <1>2, <1>3 DEF TypeOK, AttemptInv
<1>6. StoredInv'
  BY <1>1, <1>2, <1>3 DEF TypeOK, StoredInv
<1>7. SeenInv'
  BY <1>2, <1>3 DEF TypeOK, SeenInv, FindsIt, Calls
<1>8. QED
  BY <1>4, <1>5, <1>6, <1>7

LEMMA AttemptStep ==
  ASSUME IInv, NEW c \in Calls, Attempt(c)
  PROVE  IInv'
<1> DEFINE request == [call |-> c, content |-> content'[c]]
<1>1. /\ pc' = [pc EXCEPT ![c] = "put"]
      /\ attempt' = [attempt EXCEPT ![c] = @ + 1]
      /\ answer' = [answer EXCEPT ![c] = "none"]
      /\ put' = put \cup {request}
      /\ UNCHANGED <<slept, outcome, file, certified, lag, minted>>
  BY DEF Attempt, Send, chain
<1>2. /\ content' \in [Calls -> Contents]
      /\ \A d \in Calls : d # c => content'[d] = content[d]
      /\ c \in JsonCalls => content'[c] = content[c]
  BY DEF Attempt, IInv, TypeOK
<1>3. \/ pc[c] = "idle" /\ attempt[c] = 0
      \/ RetryDue(c) /\ attempt[c] = 1
  <2>1. pc[c] = "idle" \/ RetryDue(c)
    BY DEF Attempt
  <2>2. /\ pc[c] = "idle" => attempt[c] = 0
        /\ pc[c] = "sleeping" => attempt[c] = 1
    BY DEF IInv, AttemptInv
  <2>3. QED
    BY <2>1, <2>2 DEF RetryDue
<1>4. attempt[c] \in {0, 1} /\ pc[c] \in {"idle", "sleeping"}
  BY <1>3 DEF RetryDue
<1>5. \A r \in put : r.call # c
  BY <1>4 DEF IInv, AttemptInv, TypeOK
<1>6. request.call = c /\ request.content = content'[c]
  OBVIOUS
<1>7. request \in [call : Calls, content : Contents]
  BY <1>2
<1> HIDE DEF request
<1> USE DEF IInv
<1>8. TypeOK'
  <2>1. attempt[c] + 1 \in 0 .. 2
    BY <1>4
  <2>2. attempt' \in [Calls -> 0 .. 2]
    BY <1>1, <2>1 DEF TypeOK
  <2>3. /\ pc' \in [Calls -> {"idle", "put", "sleeping", "returned"}]
        /\ answer' \in [Calls -> Answers \cup {"none"}]
        /\ put' \subseteq [call : Calls, content : Contents]
    BY <1>1, <1>7 DEF TypeOK
  <2>4. QED
    BY <1>1, <1>2, <2>2, <2>3 DEF TypeOK
<1>9. AttemptInv'
  <2> SUFFICES ASSUME NEW d \in Calls
      PROVE  /\ pc'[d] = "idle" => attempt'[d] = 0
             /\ pc'[d] = "put" => attempt'[d] >= 1
             /\ pc'[d] = "sleeping" => attempt'[d] = 1
             /\ minted'[d] <= attempt'[d]
             /\ \A r \in put' : r.call = d =>
                  /\ r.content = content'[d]
                  /\ minted'[d] < attempt'[d]
                  /\ pc'[d] # "sleeping"
                  /\ pc'[d] = "put" => answer'[d] = "none"
    BY DEF AttemptInv
  <2>1. CASE d = c
    BY <1>1, <1>3, <1>4, <1>5, <1>6, <2>1 DEF TypeOK, AttemptInv
  <2>2. CASE d # c
    BY <1>1, <1>2, <1>6, <2>2 DEF TypeOK, AttemptInv
  <2>3. QED
    BY <2>1, <2>2
<1>10. StoredInv'
  BY <1>1, <1>2, <1>4 DEF TypeOK, StoredInv
<1>11. SeenInv'
  <2>1. c \in JsonCalls /\ attempt[c] = 1 => FindsIt(content[c])
    <3>1. c \in JsonCalls /\ attempt[c] = 1 =>
            content[c] \in certified /\ lag[content[c]] + RETRY_DELAY <= RETRY_DELAY
      BY <1>3 DEF RetryDue, SeenInv
    <3>2. lag[content[c]] \in Nat /\ RETRY_DELAY \in Nat
      BY UploadAssumption DEF TypeOK
    <3>3. QED
      BY <3>1, <3>2 DEF FindsIt
  <2>2. QED
    BY <1>1, <1>2, <1>4, <2>1 DEF TypeOK, SeenInv, FindsIt, Calls
<1>12. QED
  BY <1>8, <1>9, <1>10, <1>11

LEMMA RetryStep ==
  ASSUME IInv, NEW c \in Calls, Retry(c)
  PROVE  IInv'
<1>1. /\ pc[c] = "put" /\ answer[c] = "notExists" /\ attempt[c] = 1
      /\ pc' = [pc EXCEPT ![c] = "sleeping"]
      /\ slept' = [slept EXCEPT ![c] = 0]
      /\ UNCHANGED <<content, attempt, answer, outcome, file, put, certified, lag, minted>>
  BY DEF Retry, chain
<1>2. 0 \in 0 .. RETRY_DELAY
  BY UploadAssumption
<1> USE DEF IInv
<1>3. TypeOK'
  BY <1>1, <1>2 DEF TypeOK
<1>4. AttemptInv'
  BY <1>1 DEF TypeOK, AttemptInv
<1>5. StoredInv'
  BY <1>1 DEF TypeOK, StoredInv
<1>6. SeenInv'
  <2>1. content[c] \in certified
    BY <1>1 DEF StoredInv
  <2>2. lag[content[c]] + 0 <= RETRY_DELAY
    BY UploadAssumption DEF TypeOK
  <2>3. QED
    BY <1>1, <2>1, <2>2 DEF TypeOK, SeenInv, FindsIt, Calls
<1>7. QED
  BY <1>3, <1>4, <1>5, <1>6

\* Looking a blob up never becomes harder.
LEMMA FoundStays ==
  ASSUME IInv, NEW x \in Contents,
         certified \subseteq certified',
         x \in certified => lag'[x] = lag[x] \/ lag'[x] = 0
  PROVE  /\ FindsIt(x) => FindsIt(x)'
         /\ \A n \in Nat : x \in certified /\ lag[x] + n <= RETRY_DELAY => lag'[x] + n <= RETRY_DELAY
<1>1. lag[x] \in Nat /\ RETRY_DELAY \in Nat
  BY UploadAssumption DEF IInv, TypeOK
<1>2. QED
  BY <1>1 DEF FindsIt

LEMMA HandleStep ==
  ASSUME IInv, PublisherHandles
  PROVE  IInv'
<1>1. PICK request \in put :
        /\ put' = put \ {request}
        /\ Publishes(request)
        /\ UNCHANGED <<pc, content, attempt, slept, outcome, file>>
  BY DEF PublisherHandles, client
<1> DEFINE c == request.call
           x == request.content
<1> USE DEF IInv
<1>2. c \in Calls /\ x \in Contents /\ x = content[c]
  BY <1>1 DEF TypeOK, AttemptInv
<1>3. /\ minted[c] < attempt[c]
      /\ pc[c] # "sleeping"
      /\ \A r \in put : r.call = c => r = request
  <2>1. minted[c] < attempt[c] /\ pc[c] # "sleeping"
    BY <1>1, <1>2 DEF AttemptInv
  <2>2. ASSUME NEW r \in put, r.call = c PROVE r = request
    BY <1>1, <1>2, <2>2 DEF TypeOK, AttemptInv
  <2>3. QED
    BY <2>1, <2>2
<1>4. PICK a \in Answers : Answer(c, a) /\ (a \in {"newlyCreated", "alreadyCertified", "notExists"} => x \in certified')
  BY <1>1 DEF Publishes, Answers, FindsIt, chain
<1>5. /\ minted' \in [Calls -> Nat]
      /\ minted'[c] = minted[c] \/ (minted'[c] = minted[c] + 1 /\ ~FindsIt(x))
      /\ \A d \in Calls : d # c => minted'[d] = minted[d]
  BY <1>1, <1>2 DEF Publishes, chain, TypeOK
<1>6. /\ certified \subseteq certified' /\ certified' \subseteq Contents
      /\ lag' \in [Contents -> 0 .. MaxLag]
      /\ \A y \in certified : lag'[y] = lag[y]
  BY <1>1, <1>2 DEF Publishes, chain, TypeOK
<1>7. /\ answer' \in [Calls -> Answers \cup {"none"}]
      /\ \A d \in Calls : d # c => answer'[d] = answer[d]
      /\ answer'[c] = answer[c] \/ answer'[c] = a
      /\ pc[c] # "put" => answer' = answer
  BY <1>2, <1>4 DEF Answer, TypeOK
<1> HIDE DEF c, x
<1>8. TypeOK'
  <2>1. attempt[c] \in 0 .. 2 /\ minted[c] \in 0 .. 2
    BY <1>2 DEF TypeOK
  <2>2. minted'[c] \in 0 .. 2
    BY <1>3, <1>5, <2>1
  <2>3. minted' \in [Calls -> 0 .. 2]
    BY <1>5, <2>2 DEF TypeOK
  <2>4. QED
    BY <1>1, <1>6, <1>7, <2>3 DEF TypeOK
<1>9. AttemptInv'
  <2> SUFFICES ASSUME NEW d \in Calls
      PROVE  /\ minted'[d] <= attempt[d]
             /\ \A r \in put' : r.call = d =>
                  /\ minted'[d] < attempt[d]
                  /\ pc[d] = "put" => answer'[d] = "none"
    BY <1>1 DEF AttemptInv
  <2>1. CASE d = c
    <3>1. \A r \in put' : r.call # c
      BY <1>1, <1>3
    <3>2. minted'[c] <= attempt[c]
      BY <1>2, <1>3, <1>5 DEF TypeOK
    <3>3. QED
      BY <2>1, <3>1, <3>2
  <2>2. CASE d # c
    BY <1>1, <1>5, <1>7, <2>2 DEF AttemptInv
  <2>3. QED
    BY <2>1, <2>2
<1>10. StoredInv'
  <2> SUFFICES ASSUME NEW d \in Calls,
                      answer'[d] \in {"newlyCreated", "alreadyCertified", "notExists"}, pc[d] = "put"
      PROVE  content[d] \in certified'
    BY <1>1, <1>6 DEF StoredInv
  <2>1. CASE answer'[d] = answer[d]
    BY <1>6, <2>1 DEF StoredInv
  <2>2. CASE answer'[d] # answer[d]
    BY <1>2, <1>4, <1>7, <2>2
  <2>3. QED
    BY <2>1, <2>2
<1>11. SeenInv'
  <2> SUFFICES ASSUME NEW d \in JsonCalls
      PROVE  /\ pc[d] = "sleeping" =>
                  content[d] \in certified' /\ lag'[content[d]] + slept[d] <= RETRY_DELAY
             /\ attempt[d] = 2 => FindsIt(content[d])'
             /\ minted'[d] <= 1
    BY <1>1 DEF SeenInv, FindsIt
  <2>1. d \in Calls /\ content[d] \in Contents /\ slept[d] \in Nat /\ attempt[d] \in 0 .. 2
    BY DEF Calls, TypeOK
  <2>2. /\ FindsIt(content[d]) => FindsIt(content[d])'
        /\ content[d] \in certified /\ lag[content[d]] + slept[d] <= RETRY_DELAY
             => lag'[content[d]] + slept[d] <= RETRY_DELAY
    <3>1. content[d] \in certified => lag'[content[d]] = lag[content[d]]
      BY <1>6
    <3>2. QED
      BY <1>1, <1>6, <3>1 DEF FindsIt
  <2>3. minted'[d] <= 1
    <3>1. CASE d # c \/ minted'[d] = minted[d]
      BY <1>5, <2>1, <3>1 DEF SeenInv
    <3>2. CASE d = c /\ minted'[d] # minted[d]
      <4>1. ~FindsIt(content[d]) /\ minted'[d] = minted[d] + 1
        BY <1>2, <1>5, <3>2
      <4>2. attempt[d] # 2
        BY <4>1 DEF SeenInv
      <4>3. minted[d] < attempt[d] /\ minted[d] \in Nat
        BY <1>3, <2>1, <3>2 DEF TypeOK
      <4>4. QED
        BY <2>1, <4>1, <4>2, <4>3
    <3>3. QED
      BY <3>1, <3>2
  <2>4. QED
    BY <1>6, <2>2, <2>3 DEF SeenInv
<1>12. QED
  BY <1>8, <1>9, <1>10, <1>11

LEMMA WorldStep ==
  ASSUME IInv, PutIsLost \/ FileChanges \/ UNCHANGED vars
  PROVE  IInv'
<1>1. /\ put' \subseteq put
      /\ file' \in Contents \cup {Gone}
      /\ UNCHANGED <<pc, content, attempt, slept, answer, outcome, certified, lag, minted>>
  BY DEF PutIsLost, FileChanges, vars, client, chain, IInv, TypeOK
<1>2. TypeOK'
  BY <1>1 DEF IInv, TypeOK
<1>3. AttemptInv'
  BY <1>1 DEF IInv, AttemptInv
<1>4. StoredInv' /\ SeenInv'
  BY <1>1 DEF IInv, StoredInv, SeenInv, FindsIt
<1>5. QED
  BY <1>2, <1>3, <1>4 DEF IInv

LEMMA TickStep ==
  ASSUME IInv, Tick
  PROVE  IInv'
<1>1. UNCHANGED <<pc, content, attempt, answer, outcome, file, put, certified, minted>>
  BY DEF Tick
<1>2. /\ slept' = [c \in Calls |->
           IF pc[c] = "sleeping" /\ slept[c] < RETRY_DELAY THEN slept[c] + 1 ELSE slept[c]]
      /\ lag' = [x \in Contents |-> IF lag[x] > 0 THEN lag[x] - 1 ELSE 0]
  BY DEF Tick
<1> USE UploadAssumption DEF IInv
<1>3. TypeOK'
  <2>1. slept' \in [Calls -> 0 .. RETRY_DELAY]
    BY <1>2 DEF TypeOK
  <2>2. lag' \in [Contents -> 0 .. MaxLag]
    BY <1>2 DEF TypeOK
  <2>3. QED
    BY <1>1, <2>1, <2>2 DEF TypeOK
<1>4. AttemptInv' /\ StoredInv'
  BY <1>1 DEF AttemptInv, StoredInv
<1>5. SeenInv'
  <2> SUFFICES ASSUME NEW c \in JsonCalls
      PROVE  /\ pc[c] = "sleeping" =>
                  content[c] \in certified /\ lag'[content[c]] + slept'[c] <= RETRY_DELAY
             /\ attempt[c] = 2 => FindsIt(content[c])'
             /\ minted[c] <= 1
    BY <1>1 DEF SeenInv, FindsIt
  <2>1. c \in Calls /\ content[c] \in Contents
    BY DEF Calls, TypeOK
  <2>2. lag[content[c]] \in Nat /\ slept[c] \in 0 .. RETRY_DELAY
    BY <2>1 DEF TypeOK
  <2>3. /\ lag'[content[c]] = IF lag[content[c]] > 0 THEN lag[content[c]] - 1 ELSE 0
        /\ slept'[c] = IF pc[c] = "sleeping" /\ slept[c] < RETRY_DELAY THEN slept[c] + 1 ELSE slept[c]
    BY <1>2, <2>1
  <2>4. pc[c] = "sleeping" => lag'[content[c]] + slept'[c] <= RETRY_DELAY
    <3>1. pc[c] = "sleeping" => lag[content[c]] + slept[c] <= RETRY_DELAY
      BY DEF SeenInv
    <3>2. QED
      BY <2>2, <2>3, <3>1
  <2>5. FindsIt(content[c]) => FindsIt(content[c])'
    BY <1>1, <2>2, <2>3 DEF FindsIt
  <2>6. QED
    BY <2>4, <2>5 DEF SeenInv
<1>6. QED
  BY <1>3, <1>4, <1>5

LEMMA Invariant == Spec => []IInv
<1>1. Init => IInv
  BY Initially
<1>2. IInv /\ [Next]_vars => IInv'
  <2> SUFFICES ASSUME IInv, [Next]_vars PROVE IInv'
    OBVIOUS
  <2>1. ASSUME NEW c \in Calls,
               \/ Refuse(c) \/ FileGone(c) \/ Succeeds(c) \/ NoResult(c) \/ Fails(c)
               \/ ConnectionBreaks(c) \/ Drop(c)
        PROVE  IInv'
    <3>1. Returns(c)
      BY <2>1, WaysToReturn DEF IInv
    <3>2. QED
      BY <3>1, ReturnStep
  <2>2. QED
    BY <2>1, AttemptStep, RetryStep, HandleStep, WorldStep, TickStep DEF Next
<1>3. QED
  BY <1>1, <1>2, PTL DEF Spec

-----------------------------------------------------------------------------

\* The variables keep their types: at most two attempts, at most one Blob
\* object for each.
THEOREM TypeCorrect == Spec => []TypeOK
<1>1. IInv => TypeOK
  BY DEF IInv
<1>2. QED
  BY <1>1, Invariant, PTL

\* A blob id is returned only for content that is stored.
THEOREM Stored == Spec => []OkIsStored
<1>1. IInv => OkIsStored
  BY DEF IInv, StoredInv, OkIsStored
<1>2. QED
  BY <1>1, Invariant, PTL

\* The retry of an upload-json call never creates a second Blob object, if Sui
\* settles within the retry delay.
THEOREM MintedOnce == Spec => []MintsOnce
<1>1. IInv => MintsOnce
  BY DEF IInv, SeenInv, MintsOnce
<1>2. QED
  BY <1>1, Invariant, PTL

\* A call that was told "validation" by upload-json never made an attempt.
RefusedInv ==
  \A c \in JsonCalls : outcome[c] = "validation" => pc[c] = "returned" /\ attempt[c] = 0

LEMMA RefusedStep ==
  ASSUME IInv, RefusedInv, [Next]_vars
  PROVE  RefusedInv'
<1> SUFFICES ASSUME NEW c \in JsonCalls, outcome'[c] = "validation"
    PROVE  pc'[c] = "returned" /\ attempt'[c] = 0
  BY DEF RefusedInv
<1> USE DEF IInv, TypeOK
<1>0. c \in Calls
  BY DEF Calls
<1>1. ASSUME NEW d \in Calls, Refuse(d)
      PROVE  pc'[c] = "returned" /\ attempt'[c] = 0
  BY <1>0, <1>1 DEF Refuse, Return, RefusedInv, AttemptInv
<1>2. ASSUME NEW d \in Calls, Attempt(d) \/ Retry(d)
      PROVE  pc'[c] = "returned" /\ attempt'[c] = 0
  BY <1>0, <1>2 DEF Attempt, Retry, RetryDue, Send, RefusedInv
<1>3. ASSUME NEW d \in Calls,
             FileGone(d) \/ Succeeds(d) \/ NoResult(d) \/ Fails(d) \/ ConnectionBreaks(d) \/ Drop(d)
      PROVE  pc'[c] = "returned" /\ attempt'[c] = 0
  BY <1>0, <1>3 DEF FileGone, Succeeds, NoResult, Fails, ConnectionBreaks, Drop, Return, RefusedInv
<1>4. CASE PublisherHandles \/ PutIsLost \/ FileChanges \/ Tick \/ UNCHANGED vars
  <2>1. UNCHANGED <<pc, attempt, outcome>>
    BY <1>4 DEF PublisherHandles, PutIsLost, FileChanges, Tick, vars, client
  <2>2. QED
    BY <2>1 DEF RefusedInv
<1>5. QED
  BY <1>1, <1>2, <1>3, <1>4 DEF Next

\* What upload-json calls a validation error has left nothing behind, and will not.
THEOREM ValidatedInput == Spec => []ValidationIsOfInput
<1>1. Init => RefusedInv
  BY DEF Init, RefusedInv, Calls
<1>2. IInv /\ RefusedInv /\ [Next]_vars => RefusedInv'
  BY RefusedStep
<1>3. IInv /\ RefusedInv => ValidationIsOfInput
  <2> SUFFICES ASSUME IInv, RefusedInv, NEW c \in JsonCalls, outcome[c] = "validation"
      PROVE  minted[c] = 0 /\ \A request \in put : request.call # c
    BY DEF ValidationIsOfInput
  <2>1. c \in Calls /\ attempt[c] = 0 /\ minted[c] \in Nat
    BY DEF Calls, RefusedInv, IInv, TypeOK
  <2>2. QED
    BY <2>1 DEF IInv, AttemptInv
<1>4. QED
  BY <1>1, <1>2, <1>3, Invariant, PTL DEF Spec
=============================================================================
