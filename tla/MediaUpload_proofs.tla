------------------------- MODULE MediaUpload_proofs -------------------------
(***************************************************************************)
(* Theorems about MediaUpload, for any set of inputs, any limits and an X  *)
(* that takes, loses and delays requests as it likes.                      *)
(***************************************************************************)
EXTENDS MediaUpload, TLAPS

(* What calculate_optimal_chunk_size returns, for a media of any size.      *)

\* Rounding down to the alignment keeps a size between the two bounds, which
\* are multiples of it.
LEMMA AlignedBounds ==
  ASSUME NEW size \in Nat
  PROVE  /\ aligned_chunk_size(size) \in Nat
         /\ aligned_chunk_size(size) >= MIN_CHUNK_SIZE
         /\ aligned_chunk_size(size) <= MAX_CHUNK_SIZE
<1>1. /\ ideal_chunk_count(size) \in {8, 15, 25}
  BY SMT DEF ideal_chunk_count
<1> DEFINE s == Clamp(size \div ideal_chunk_count(size), MIN_CHUNK_SIZE, MAX_CHUNK_SIZE)
<1>2. /\ s \in Nat
      /\ s >= 131072
      /\ s <= 5242880
  BY <1>1, SMT DEF Clamp, MIN_CHUNK_SIZE, MAX_CHUNK_SIZE, KB, MB
<1> HIDE DEF s
<1>3. /\ (s \div 131072) * 131072 \in Nat
      /\ (s \div 131072) * 131072 >= 131072
      /\ (s \div 131072) * 131072 <= 5242880
  BY <1>2, SMT
<1>4. QED
  BY <1>3, SMT DEF aligned_chunk_size, s, CHUNK_SIZE_ALIGNMENT, MIN_CHUNK_SIZE, MAX_CHUNK_SIZE, KB, MB

\* The automatic chunk size is never zero (which div_ceil and chunks would
\* panic on), never above the 5 MB that X takes, and never above the media.
THEOREM AutoChunkBounds ==
  ASSUME NEW size \in Nat \ {0}, NEW type \in MediaType, NEW category \in MediaCategory
  PROVE  /\ calculate_optimal_chunk_size(size, type, category) \in Nat \ {0}
         /\ calculate_optimal_chunk_size(size, type, category) <= MAX_CHUNK_SIZE
         /\ calculate_optimal_chunk_size(size, type, category) <= size
<1> USE DEF MAX_CHUNK_SIZE, MIN_CHUNK_SIZE, KB, MB
<1>1. CASE size <= MAX_CHUNK_SIZE
  BY <1>1, SMT DEF calculate_optimal_chunk_size
<1>2. CASE ~(size <= MAX_CHUNK_SIZE) /\ type \in ChunkedAsImage
  <2>1. /\ size \div 4 \in Nat \ {0}
        /\ size \div 4 <= size
    BY <1>2, SMT
  <2>2. calculate_optimal_chunk_size(size, type, category) =
          IF size \div 4 < 2 * MB THEN size \div 4 ELSE 2 * MB
    BY <1>2, SMT DEF calculate_optimal_chunk_size
  <2>3. QED
    BY <1>2, <2>1, <2>2, SMT
<1>3. CASE ~(size <= MAX_CHUNK_SIZE) /\ type \notin ChunkedAsImage
  <2>1. /\ aligned_chunk_size(size) \in Nat \ {0}
        /\ aligned_chunk_size(size) <= MAX_CHUNK_SIZE
    BY AlignedBounds, SMT
  <2>2. \/ calculate_optimal_chunk_size(size, type, category) = 3 * MB
        \/ calculate_optimal_chunk_size(size, type, category) = 4 * MB
        \/ calculate_optimal_chunk_size(size, type, category) = MAX_CHUNK_SIZE
        \/ calculate_optimal_chunk_size(size, type, category) = aligned_chunk_size(size)
    BY <1>3, SMT DEF calculate_optimal_chunk_size
  <2>3. QED
    BY <1>3, <2>1, <2>2, SMT
<1>4. QED
  BY <1>1, <1>2, <1>3, SMT

\* The chunks cover the media, and no chunk is empty.
LEMMA ChunksCover ==
  ASSUME NEW size \in Nat \ {0}, NEW chunk \in Nat \ {0}
  PROVE  /\ total_chunks(size, chunk) \in Nat \ {0}
         /\ total_chunks(size, chunk) * chunk >= size
         /\ (total_chunks(size, chunk) - 1) * chunk < size
<1> DEFINE a == size + chunk - 1
<1> DEFINE n == a \div chunk
<1>1. a \in Nat /\ a >= chunk
  BY SMT
<1> HIDE DEF a
<1>2. n \in Int /\ a = n * chunk + (a % chunk) /\ a % chunk \in 0 .. chunk - 1
  BY <1>1, SMT
<1> HIDE DEF n
<1>3. n * chunk >= size /\ (n - 1) * chunk < size
  BY <1>2, SMT DEF a
<1>4. n >= 1
  BY <1>2, <1>3, SMT DEF a
<1>5. QED
  BY <1>2, <1>3, <1>4, SMT DEF total_chunks, a, n

LEMMA Monotone ==
  ASSUME NEW a \in Nat, NEW b \in Nat, NEW c \in Nat, a <= b
  PROVE  a * c \in Nat /\ a * c <= b * c
BY SMT

\* Where the segments of a media begin and end: the first at its first byte,
\* each of the others where the one before it ends, the last at its end.
LEMMA SegmentsJoin ==
  ASSUME NEW size \in Nat \ {0}, NEW chunk \in Nat \ {0}, NEW n,
         n = total_chunks(size, chunk)
  PROVE  /\ Segment(size, chunk, 0).from = 0
         /\ Segment(size, chunk, n - 1).to = size
         /\ \A i \in 0 .. n - 1 :
              /\ Segment(size, chunk, i) \in [from : Nat, to : Nat]
              /\ Segment(size, chunk, i).to - Segment(size, chunk, i).from \in 1 .. chunk
         /\ \A i \in 0 .. n - 2 :
              Segment(size, chunk, i).to = Segment(size, chunk, i + 1).from
<1>1. /\ n \in Nat \ {0}
      /\ n * chunk >= size
      /\ (n - 1) * chunk < size
  BY ChunksCover
<1>2. Segment(size, chunk, 0).from = 0
  BY SMT DEF Segment
<1>3. Segment(size, chunk, n - 1).to = size
  BY <1>1, SMT DEF Segment
<1>4. ASSUME NEW i \in 0 .. n - 1
      PROVE  /\ Segment(size, chunk, i) \in [from : Nat, to : Nat]
             /\ Segment(size, chunk, i).to - Segment(size, chunk, i).from \in 1 .. chunk
  <2>1. /\ i * chunk \in Nat
        /\ i * chunk < size
        /\ (i + 1) * chunk = i * chunk + chunk
    <3>1. i * chunk \in Nat /\ i * chunk <= (n - 1) * chunk
      BY <1>1, Monotone, SMT
    <3>2. (i + 1) * chunk = i * chunk + chunk
      BY SMT
    <3>3. QED
      BY <1>1, <3>1, <3>2, SMT
  <2>2. QED
    BY <2>1, SMT DEF Segment
<1>5. ASSUME NEW i \in 0 .. n - 2
      PROVE  Segment(size, chunk, i).to = Segment(size, chunk, i + 1).from
  <2>1. /\ i + 1 \in Nat
        /\ n - 1 \in Nat
        /\ i + 1 <= n - 1
    BY <1>1, SMT
  <2>2. (i + 1) * chunk <= (n - 1) * chunk
    BY <2>1, Monotone, SMT
  <2>3. (i + 1) * chunk \in Nat
    BY <2>1, Monotone, SMT
  <2>4. QED
    BY <1>1, <2>2, <2>3, SMT DEF Segment
<1>6. QED
  BY <1>2, <1>3, <1>4, <1>5

-----------------------------------------------------------------------------
(* The upload.                                                              *)

\* The cut of a media that is not empty.
LEMMA Cut ==
  ASSUME input \in Inputs, input.size # 0
  PROVE  /\ input.size \in Nat \ {0}
         /\ chunk_size \in Nat \ {0}
         /\ chunks \in Nat \ {0}
<1>1. /\ input.size \in Nat \ {0}
      /\ input.chunk_size \in Nat
      /\ input.type \in MediaType
      /\ input.category \in MediaCategory
  BY MediaAssumption
<1>2. calculate_optimal_chunk_size(input.size, input.type, input.category) \in Nat \ {0}
  BY <1>1, AutoChunkBounds
<1>3. chunk_size \in Nat \ {0}
  BY <1>1, <1>2, SMT DEF chunk_size
<1>4. chunks \in Nat \ {0}
  BY <1>1, <1>3, ChunksCover DEF chunks
<1>5. QED
  BY <1>1, <1>3, <1>4

\* A step keeps the input, and with it the cut.
LEMMA CutStays ==
  ASSUME [Next]_vars
  PROVE  input' = input /\ chunk_size' = chunk_size /\ chunks' = chunks
<1>1. input' = input
  BY DEF Next, Client, Refuse, SendInit, NextSegment, FinalizeEnds, FinalizeWaits, StatusEnds,
         StatusWaits, AskAgain, RequestFails, Drop, XHandles, XProcesses, client, vars
<1>2. chunk_size' = chunk_size
  BY <1>1, Zenon DEF chunk_size
<1>3. QED
  BY <1>1, <1>2, Zenon DEF chunks

-----------------------------------------------------------------------------
(* The invariant, one lemma per part.                                       *)

IInv == TypeOK /\ SessionInv /\ AnswerInv

LEMMA Initially == Init => IInv
<1> SUFFICES ASSUME Init PROVE IInv
  OBVIOUS
<1>1. segments = <<>> /\ DOMAIN segments = {}
  BY DEF Init
<1>2. TypeOK
  <2>1. total \in 0 .. U32_RANGE - 1 /\ attempts \in 0 .. MAX_ATTEMPTS /\ segment \in 0 .. MAX_CHUNKS
    BY MediaAssumption DEF Init
  <2>2. answer \in [ok : BOOLEAN, state : Processing] /\ state \in Processing
    BY DEF Init, NoAnswer, Processing
  <2>3. QED
    BY <1>1, <2>1, <2>2 DEF Init, TypeOK, Waiting, Outcomes
<1>3. SessionInv
  BY <1>1, MediaAssumption DEF Init, SessionInv, Refused
<1>4. AnswerInv
  BY DEF Init, AnswerInv, NoAnswer
<1>5. QED
  BY <1>2, <1>3, <1>4 DEF IInv

LEMMA SendType ==
  ASSUME TypeOK, NEW command \in Waiting, NEW i \in 0 .. MAX_CHUNKS - 1, Send(command, i)
  PROVE  /\ pc' \in Waiting
         /\ inFlight' \subseteq [command : Waiting, segment : 0 .. MAX_CHUNKS - 1]
         /\ answer' \in [ok : BOOLEAN, state : Processing]
<1>1. Request(command, i) \in [command : Waiting, segment : 0 .. MAX_CHUNKS - 1]
  BY DEF Request
<1>2. inFlight' = inFlight \cup {Request(command, i)} /\ pc' = command /\ answer' = NoAnswer
  BY DEF Send
<1>3. NoAnswer \in [ok : BOOLEAN, state : Processing]
  BY DEF NoAnswer, Processing
<1>4. QED
  BY <1>1, <1>2, <1>3 DEF TypeOK

LEMMA TypeStep == IInv /\ [Next]_vars => TypeOK'
<1> SUFFICES ASSUME IInv, [Next]_vars PROVE TypeOK'
  OBVIOUS
<1> USE MediaAssumption DEF IInv, TypeOK, Waiting, Outcomes, Processing
<1>0. 0 \in 0 .. MAX_CHUNKS - 1
  OBVIOUS
<1>1. CASE Refuse
  BY <1>1 DEF Refuse, Return, session
<1>2. CASE SendInit
  BY <1>0, <1>2, SendType DEF SendInit, session
<1>3. CASE NextSegment
  <2>1. chunks <= MAX_CHUNKS /\ chunks \in Nat
    BY <1>3, Cut DEF NextSegment, SessionInv, Refused
  <2>2. CASE segment < chunks
    <3>1. segment \in 0 .. MAX_CHUNKS - 1 /\ segment + 1 \in 0 .. MAX_CHUNKS
      BY <2>1, <2>2
    <3>2. Send("append", segment)
      BY <1>3, <2>2 DEF NextSegment
    <3>3. QED
      BY <1>3, <2>2, <3>1, <3>2, SendType DEF NextSegment, session
  <2>3. CASE ~(segment < chunks)
    BY <1>0, <1>3, <2>3, SendType DEF NextSegment, session
  <2>4. QED
    BY <2>2, <2>3
<1>4. CASE FinalizeEnds \/ StatusEnds \/ RequestFails \/ Drop
  BY <1>4 DEF FinalizeEnds, StatusEnds, RequestFails, Drop, Return, session
<1>5. CASE FinalizeWaits \/ AskAgain
  <2>1. Send("status", 0)
    BY <1>5 DEF FinalizeWaits, AskAgain
  <2>2. QED
    BY <1>0, <1>5, <2>1, SendType DEF FinalizeWaits, AskAgain, session
<1>6. CASE StatusWaits
  BY <1>6 DEF StatusWaits, SessionInv, Return, session
<1>7. CASE XHandles
  <2>1. PICK request \in inFlight :
          /\ inFlight' = inFlight \ {request}
          /\ Takes(request)
          /\ answer' = IF pc = request.command /\ (pc = "append" => request.segment = segment - 1)
                       THEN [ok |-> TRUE, state |-> state'] ELSE answer
          /\ UNCHANGED client
    BY <1>7 DEF XHandles
  <2>2. CASE request.command = "append"
    <3>1. request.segment \in 0 .. MAX_CHUNKS - 1
      BY <2>1
    <3>2. request.segment < segment /\ segment <= chunks /\ input.size # 0
      BY <2>1, <2>2 DEF SessionInv, Refused
    <3>3. Segment(input.size, chunk_size, request.segment) \in [from : Nat, to : Nat]
      BY <3>1, <3>2, Cut, SegmentsJoin, SMTT(30) DEF chunks
    <3>4. segments' = [i \in DOMAIN segments \cup {request.segment} |->
            IF i = request.segment THEN Segment(input.size, chunk_size, i) ELSE segments[i]]
      BY <2>1, <2>2 DEF Takes
    <3>5. /\ DOMAIN segments' \subseteq 0 .. MAX_CHUNKS - 1
          /\ \A i \in DOMAIN segments' : segments'[i] \in [from : Nat, to : Nat]
      BY <3>1, <3>3, <3>4
    <3>6. QED
      BY <2>1, <2>2, <3>5 DEF Takes, client
  <2>3. CASE request.command # "append"
    <3>a. announced \in 0 .. U32_RANGE - 1
      BY MediaAssumption DEF announced
    <3>1. total' \in 0 .. U32_RANGE - 1
      BY <2>1, <2>3, <3>a DEF Takes, session
    <3>2. QED
      BY <2>1, <2>3, <3>1 DEF Takes, client, session
  <2>4. QED
    BY <2>2, <2>3
<1>8. CASE XProcesses
  BY <1>8 DEF XProcesses, client
<1>9. CASE UNCHANGED vars
  BY <1>9 DEF vars
<1>10. QED
  BY <1>1, <1>2, <1>3, <1>4, <1>5, <1>6, <1>7, <1>8, <1>9 DEF Next, Client

LEMMA InitTotal ==
  ASSUME NEW request, Takes(request), request.command = "init"
  PROVE  total' = announced /\ UNCHANGED <<segments, finalized>>
BY DEF Takes

LEMMA SessionStep == IInv /\ [Next]_vars => SessionInv'
<1> SUFFICES ASSUME IInv, [Next]_vars PROVE SessionInv'
  OBVIOUS
<1>0. /\ input' = input /\ chunk_size' = chunk_size /\ chunks' = chunks
      /\ announced' = announced
  BY CutStays DEF announced
<1>a. MAX_ATTEMPTS \in Nat /\ attempts \in Nat /\ segment \in Nat
  BY MediaAssumption DEF IInv, TypeOK
<1> USE DEF IInv, SessionInv, AllSent
<1>1. CASE Refuse
  BY <1>0, <1>1 DEF Refuse, Return, session, Refused
<1>2. CASE SendInit
  <2>1. segment = 0 /\ inFlight = {} /\ DOMAIN segments = {} /\ ~finalized
    BY <1>2 DEF SendInit
  <2>2. outcome = "none" /\ chunks \in Nat
    BY <1>2, Cut DEF SendInit, TypeOK
  <2>3. inFlight' = {Request("init", 0)} /\ pc' = "init"
    BY <1>2, <2>1 DEF SendInit, Send
  <2>4. Request("init", 0).command = "init"
    BY DEF Request
  <2>5. QED
    BY <1>0, <1>2, <2>1, <2>2, <2>3, <2>4 DEF SendInit, session, Refused
<1>3. CASE NextSegment
  <2>1. /\ inFlight = {} /\ total = announced /\ ~finalized
        /\ outcome = "none" /\ input.size # 0 /\ chunks <= MAX_CHUNKS /\ segment <= chunks
        /\ attempts < MAX_ATTEMPTS
    BY <1>3 DEF NextSegment, AnswerInv, Refused
  <2>2. DOMAIN segments = 0 .. segment - 1
    <3>1. \A i \in DOMAIN segments : i \in Nat /\ i < segment
      BY MediaAssumption DEF TypeOK
    <3>2. CASE pc = "init"
      <4>1. segment = 0
        BY <3>2
      <4>2. QED
        BY <3>1, <4>1
    <3>3. CASE pc = "append"
      <4>1. /\ segment >= 1
            /\ 0 .. segment - 2 \subseteq DOMAIN segments
            /\ segment - 1 \in DOMAIN segments
        BY <1>3, <3>3 DEF NextSegment, AnswerInv
      <4>2. \A i \in 0 .. segment - 1 : i = segment - 1 \/ i \in 0 .. segment - 2
        BY <1>a, <4>1, SMT
      <4>3. 0 .. segment - 1 \subseteq DOMAIN segments
        BY <4>1, <4>2
      <4>4. \A i \in Nat : i < segment => i \in 0 .. segment - 1
        BY <1>a, SMT
      <4>5. DOMAIN segments \subseteq 0 .. segment - 1
        BY <3>1, <4>4
      <4>6. QED
        BY <4>3, <4>5
    <3>4. QED
      BY <1>3, <3>2, <3>3 DEF NextSegment
  <2>3. chunks \in Nat
    BY <2>1, Cut DEF TypeOK
  <2>4. CASE segment < chunks
    <3>1. /\ segment' = segment + 1 /\ pc' = "append"
          /\ inFlight' = {Request("append", segment)}
      BY <1>3, <2>1, <2>4 DEF NextSegment, Send
    <3>2. /\ Request("append", segment).command = "append"
          /\ Request("append", segment).segment = segment
      BY DEF Request
    <3>3. UNCHANGED <<attempts, outcome, total, segments, finalized>>
      BY <1>3 DEF NextSegment, session
    <3>4. \A i \in DOMAIN segments : i < segment'
      BY <1>a, <2>2, <3>1
    <3>5. QED
      BY <1>0, <1>a, <2>1, <2>2, <2>3, <2>4, <3>1, <3>2, <3>3, <3>4 DEF Refused
  <2>5. CASE ~(segment < chunks)
    <3>1. /\ segment' = segment /\ pc' = "finalize"
          /\ inFlight' = {Request("finalize", 0)}
      BY <1>3, <2>1, <2>5 DEF NextSegment, Send
    <3>2. Request("finalize", 0).command = "finalize"
      BY DEF Request
    <3>3. UNCHANGED <<attempts, outcome, total, segments, finalized>>
      BY <1>3 DEF NextSegment, session
    <3>4. segment = chunks
      BY <1>a, <2>1, <2>3, <2>5
    <3>5. QED
      BY <1>0, <1>a, <2>1, <2>2, <2>3, <3>1, <3>2, <3>3, <3>4 DEF Refused
  <2>6. QED
    BY <2>4, <2>5
<1>4. CASE FinalizeEnds \/ StatusEnds \/ StatusWaits \/ RequestFails \/ Drop
  BY <1>0, <1>a, <1>4 DEF FinalizeEnds, StatusEnds, StatusWaits, RequestFails, Drop, Return, session,
              Refused, Waiting
<1>5. CASE FinalizeWaits \/ AskAgain
  <2>1. pc \in {"finalize", "sleeping"} /\ pc' = "status" /\ AllSent
    BY <1>5 DEF FinalizeWaits, AskAgain, Send
  <2>2. inFlight' = inFlight \cup {Request("status", 0)}
    BY <1>5 DEF FinalizeWaits, AskAgain, Send
  <2>3. Request("status", 0).command = "status"
    BY DEF Request
  <2>4. UNCHANGED <<segment, attempts, outcome, total, segments, finalized>>
    BY <1>5 DEF FinalizeWaits, AskAgain, session
  <2>5. AllSent'
    BY <1>0, <2>1, <2>2, <2>3, <2>4
  <2>6. QED
    BY <1>0, <2>1, <2>2, <2>3, <2>4, <2>5 DEF Refused
<1>6. CASE XHandles
  <2>1. PICK request \in inFlight :
          /\ inFlight' = inFlight \ {request}
          /\ Takes(request)
          /\ UNCHANGED client
    BY <1>6 DEF XHandles
  <2>2. UNCHANGED <<pc, segment, attempts, outcome>>
    BY <2>1 DEF client
  <2>3. CASE request.command = "init"
    <3>1. total' = announced /\ UNCHANGED <<segments, finalized>>
      BY <2>1, <2>3, InitTotal
    <3>2. QED
      BY <1>0, <2>1, <2>2, <2>3, <3>1
  <2>4. CASE request.command = "append"
    <3>1. UNCHANGED <<total, finalized>>
      BY <2>1, <2>4 DEF Takes
    <3>2. DOMAIN segments' = DOMAIN segments \cup {request.segment}
      BY <2>1, <2>4 DEF Takes
    <3>3. \A i \in DOMAIN segments' :
            segments'[i] = IF i = request.segment THEN Segment(input.size, chunk_size, i)
                           ELSE segments[i]
      BY <2>1, <2>4 DEF Takes
    <3>4. ~finalized /\ pc \notin {"finalize", "status", "sleeping"}
      BY <2>1, <2>4
    <3>5. \A r \in inFlight' : r.command # "finalize"
      BY <2>1, <2>4
    <3>6. request.segment < segment
      BY <2>1, <2>4
    <3>7. QED
      BY <1>0, <2>1, <2>2, <3>1, <3>2, <3>3, <3>4, <3>5, <3>6
  <2>5. CASE request.command = "finalize"
    <3>1. UNCHANGED <<total, segments>> /\ AllSent
      BY <2>1, <2>5 DEF Takes
    <3>2. AllSent'
      BY <1>0, <2>1, <3>1
    <3>3. pc \notin {"idle", "init", "append"}
      BY <2>1, <2>5
    <3>4. outcome \notin Refused
      BY <2>1
    <3>5. QED
      BY <1>0, <2>1, <2>2, <3>1, <3>2, <3>3, <3>4
  <2>6. CASE request.command = "status"
    <3>1. UNCHANGED <<total, segments, finalized>>
      BY <2>1, <2>6 DEF Takes, session
    <3>2. QED
      BY <1>0, <2>1, <2>2, <2>6, <3>1
  <2>7. QED
    BY <2>1, <2>3, <2>4, <2>5, <2>6 DEF Takes
<1>7. CASE XProcesses
  BY <1>0, <1>7 DEF XProcesses, client
<1>8. CASE UNCHANGED vars
  BY <1>0, <1>8 DEF vars
<1>9. QED
  BY <1>1, <1>2, <1>3, <1>4, <1>5, <1>6, <1>7, <1>8 DEF Next, Client

LEMMA AnswerStep == IInv /\ [Next]_vars => AnswerInv'
<1> SUFFICES ASSUME IInv, [Next]_vars PROVE AnswerInv'
  OBVIOUS
<1>0. /\ input' = input /\ chunk_size' = chunk_size /\ chunks' = chunks
      /\ announced' = announced
  BY CutStays DEF announced
<1> USE DEF IInv, AnswerInv, Waiting
<1>1. CASE Refuse
  BY <1>1 DEF Refuse, Return, session, SessionInv
<1>2. CASE SendInit \/ NextSegment \/ FinalizeWaits \/ AskAgain
  <2>1. /\ pc' \in Waiting
        /\ answer' = NoAnswer
        /\ UNCHANGED <<outcome, finalized, state>>
    BY <1>2 DEF SendInit, NextSegment, FinalizeWaits, AskAgain, Send, session
  <2>2. ~answer'.ok
    BY <2>1 DEF NoAnswer
  <2>3. pc' = "status" => finalized
    BY <1>2 DEF SendInit, NextSegment, FinalizeWaits, AskAgain, Send
  <2>4. finalized => pc \in {"finalize", "status", "sleeping"} /\ pc' = "status"
    <3>1. finalized => pc \notin {"idle", "init", "append"}
      BY DEF SessionInv
    <3>2. QED
      BY <1>2, <3>1 DEF SendInit, NextSegment, FinalizeWaits, AskAgain, Send
  <2>5. pc' = "status" => inFlight' = inFlight \cup {Request("status", 0)}
    BY <1>2 DEF SendInit, NextSegment, FinalizeWaits, AskAgain, Send
  <2>6. Request("status", 0).command = "status"
    BY DEF Request
  <2>7. \A r \in inFlight' : r.command # "append" => r.segment = 0
    BY <1>2 DEF SendInit, NextSegment, FinalizeWaits, AskAgain, Send, Request
  <2>8. QED
    BY <2>1, <2>2, <2>3, <2>4, <2>5, <2>6, <2>7
<1>3. CASE FinalizeEnds \/ StatusEnds \/ StatusWaits \/ RequestFails \/ Drop
  BY <1>3 DEF FinalizeEnds, StatusEnds, StatusWaits, RequestFails, Drop, Return, session
<1>4. CASE XHandles
  <2>1. PICK request \in inFlight :
          /\ inFlight' = inFlight \ {request}
          /\ Takes(request)
          /\ answer' = IF pc = request.command /\ (pc = "append" => request.segment = segment - 1)
                       THEN [ok |-> TRUE, state |-> state'] ELSE answer
          /\ UNCHANGED client
    BY <1>4 DEF XHandles
  <2>2. UNCHANGED <<pc, segment, outcome>>
    BY <2>1 DEF client
  <2>3. \A r \in inFlight' : r \in inFlight /\ r # request
    BY <2>1
  <2>4. CASE request.command \in {"init", "append"}
    <3>1. pc \in {"init", "append", "returned"} /\ ~finalized
      BY <2>1, <2>4 DEF SessionInv, AllSent, TypeOK
    <3>2. UNCHANGED <<finalized, state>>
      BY <2>1, <2>4 DEF Takes
    <3>3. CASE pc = "init"
      <4>1. inFlight \subseteq {Request("init", 0)}
        BY <3>3 DEF SessionInv
      <4>2. request.command = "init" /\ inFlight' = {}
        BY <2>1, <4>1 DEF Request
      <4>3. total' = announced
        BY <2>1, <4>2, InitTotal
      <4>4. QED
        BY <1>0, <2>2, <3>1, <3>2, <3>3, <4>2, <4>3
    <3>4. CASE pc = "append"
      <4>1. inFlight \subseteq {Request("append", segment - 1)}
        BY <3>4 DEF SessionInv
      <4>2. /\ request.command = "append" /\ request.segment = segment - 1
            /\ inFlight' = {}
        BY <2>1, <4>1 DEF Request
      <4>3. segment - 1 \in DOMAIN segments'
        BY <2>1, <4>2 DEF Takes
      <4>4. QED
        BY <1>0, <2>2, <3>1, <3>2, <3>4, <4>2, <4>3
    <3>5. CASE pc = "returned"
      BY <2>2, <2>3, <3>1, <3>2, <3>5
    <3>6. QED
      BY <3>1, <3>3, <3>4, <3>5
  <2>5. CASE request.command = "finalize"
    <3>1. pc \in {"finalize", "returned"} /\ ~finalized
      BY <2>1, <2>5 DEF SessionInv, TypeOK
    <3>2. finalized' = TRUE /\ state' \in Processing
      BY <2>1, <2>5 DEF Takes
    <3>3. \A r \in inFlight' : r.command # "finalize"
      <4>1. ASSUME NEW r \in inFlight, r.command = "finalize" PROVE r = request
        BY <2>1, <2>5, <4>1 DEF TypeOK
      <4>2. QED
        BY <2>3, <4>1
    <3>4. pc = "finalize" => answer' = [ok |-> TRUE, state |-> state']
      BY <2>1, <2>5
    <3>5. pc # "finalize" => pc = "returned"
      BY <3>1
    <3>6. QED
      BY <2>2, <2>3, <3>1, <3>2, <3>3, <3>4, <3>5 DEF Processing
  <2>6. CASE request.command = "status"
    <3>1. UNCHANGED <<total, segments, finalized, state>>
      BY <2>1, <2>6 DEF Takes, session
    <3>2. pc \notin {"init", "append"}
      BY <2>1, <2>6 DEF SessionInv, Request
    <3>3. answer' = answer \/ (pc = "status" /\ answer' = [ok |-> TRUE, state |-> state])
      BY <2>1, <2>6, <3>1
    <3>4. QED
      BY <2>2, <2>3, <3>1, <3>2, <3>3
  <2>7. QED
    BY <2>1, <2>4, <2>5, <2>6 DEF TypeOK
<1>5. CASE XProcesses
  BY <1>0, <1>5 DEF XProcesses, client
<1>6. CASE UNCHANGED vars
  BY <1>0, <1>6 DEF vars
<1>7. QED
  BY <1>1, <1>2, <1>3, <1>4, <1>5, <1>6 DEF Next, Client

LEMMA Invariant == Spec => []IInv
<1>1. Init => IInv
  BY Initially
<1>2. IInv /\ [Next]_vars => IInv'
  BY TypeStep, SessionStep, AnswerStep, Zenon DEF IInv
<1>3. QED
  BY <1>1, <1>2, PTL DEF Spec

-----------------------------------------------------------------------------
(* The properties.                                                          *)

\* The variables keep their types; the attempts and the segments stay within
\* the limits.
THEOREM TypeCorrect == Spec => []TypeOK
<1>1. IInv => TypeOK
  BY DEF IInv
<1>2. QED
  BY <1>1, Invariant, PTL

\* A finalized media is whole, whatever was lost, delayed or cancelled; INIT announced
\* its size if a u32 holds it.
THEOREM Finalized == Spec => []FinalizedIsWhole
<1>1. IInv => FinalizedIsWhole
  <2> SUFFICES ASSUME IInv, finalized PROVE Whole
    BY DEF FinalizedIsWhole
  <2>1. AllSent
    BY DEF IInv, SessionInv
  <2>2. pc # "idle" /\ outcome \notin Refused
    BY DEF IInv, SessionInv
  <2>3. input.size # 0 /\ input \in Inputs
    BY <2>2 DEF IInv, SessionInv, TypeOK
  <2>4. /\ input.size \in Nat \ {0}
        /\ chunk_size \in Nat \ {0}
        /\ chunks \in Nat \ {0}
    BY <2>3, Cut
  <2>5. \A i \in 0 .. chunks - 1 : segments[i] = Segment(input.size, chunk_size, i)
    BY <2>1 DEF AllSent, IInv, SessionInv
  <2>6. /\ Segment(input.size, chunk_size, 0).from = 0
        /\ Segment(input.size, chunk_size, chunks - 1).to = input.size
        /\ \A i \in 0 .. chunks - 2 :
             Segment(input.size, chunk_size, i).to = Segment(input.size, chunk_size, i + 1).from
    BY <2>4, SegmentsJoin, SMTT(30) DEF chunks
  <2>7. 0 \in 0 .. chunks - 1 /\ chunks - 1 \in 0 .. chunks - 1
    BY <2>4, SMT
  <2>8. \A i \in 0 .. chunks - 2 : i \in 0 .. chunks - 1 /\ i + 1 \in 0 .. chunks - 1
    BY <2>4, SMT
  <2>9. input.size < U32_RANGE => total = input.size
    <3>1. U32_RANGE \in Nat \ {0} /\ total = input.size % U32_RANGE
      BY <2>1, MediaAssumption DEF AllSent, announced
    <3>2. QED
      BY <2>4, <3>1
  <2>10. QED
    BY <2>1, <2>5, <2>6, <2>7, <2>8, <2>9 DEF Whole, AllSent
<1>2. QED
  BY <1>1, Invariant, PTL

\* No segment that X has is empty, beyond its limit of segments or, if the tool
\* chose the size, above 5 MB.
THEOREM SegmentsLimited == Spec => []SegmentsWithinLimit
<1>1. IInv => SegmentsWithinLimit
  <2> SUFFICES ASSUME IInv, NEW i \in DOMAIN segments
      PROVE  /\ i < MAX_CHUNKS
             /\ segments[i].to - segments[i].from > 0
             /\ input.chunk_size = 0 => segments[i].to - segments[i].from <= MAX_CHUNK_SIZE
    BY DEF SegmentsWithinLimit
  <2>1. pc # "idle" /\ outcome \notin Refused
    BY DEF IInv, SessionInv
  <2>2. input.size # 0 /\ input \in Inputs /\ segment <= chunks
    BY <2>1 DEF IInv, SessionInv, TypeOK
  <2>3. /\ input.size \in Nat \ {0}
        /\ chunk_size \in Nat \ {0}
        /\ chunks \in Nat \ {0}
    BY <2>2, Cut
  <2>4. i \in Nat /\ i < segment /\ i < MAX_CHUNKS /\ segment \in Nat
    BY MediaAssumption DEF IInv, SessionInv, TypeOK
  <2>5. i \in 0 .. chunks - 1 /\ segments[i] = Segment(input.size, chunk_size, i)
    BY <2>2, <2>3, <2>4 DEF IInv, SessionInv
  <2>6. /\ segments[i] \in [from : Nat, to : Nat]
        /\ segments[i].to - segments[i].from \in 1 .. chunk_size
    BY <2>3, <2>5, SegmentsJoin, SMTT(30) DEF chunks
  <2>7. input.chunk_size = 0 => chunk_size <= MAX_CHUNK_SIZE
    <3>1. input.type \in MediaType /\ input.category \in MediaCategory
      BY <2>2, MediaAssumption
    <3>2. calculate_optimal_chunk_size(input.size, input.type, input.category) <= MAX_CHUNK_SIZE
      BY <2>3, <3>1, AutoChunkBounds
    <3>3. QED
      BY <3>2 DEF chunk_size
  <2>8. MAX_CHUNK_SIZE \in Nat
    BY SMT DEF MAX_CHUNK_SIZE, MB, KB
  <2>9. QED
    BY <2>3, <2>4, <2>6, <2>7, <2>8
<1>2. QED
  BY <1>1, Invariant, PTL

\* MediaUpload implements MediaPromise: what the caller is told of a media is
\* true of it.
THEOREM Refines == Spec => KeepsPromise
<1>1. Init => Promise!Init
  <2> SUFFICES ASSUME Init PROVE Promise!Init
    OBVIOUS
  <2>1. input.optimistic \in BOOLEAN
    BY MediaAssumption DEF Init
  <2>2. QED
    BY <2>1 DEF Init, Promise!Init, mediaBar, verdictBar
<1>2. IInv /\ IInv' /\ [Next]_vars => [Promise!Next]_(Promise!vars)
  <2> SUFFICES ASSUME IInv, IInv', [Next]_vars PROVE [Promise!Next]_(Promise!vars)
    OBVIOUS
  <2>0. input' = input
    BY CutStays
  <2> USE DEF Promise!vars, IInv
  <2>1. CASE Refuse
    <3>1. mediaBar' = mediaBar
      BY <2>1 DEF Refuse, session, mediaBar
    <3>2. verdictBar = "idle" /\ verdictBar' = "settled"
      BY <2>1 DEF Refuse, Return, verdictBar, SessionInv
    <3>3. QED
      BY <2>0, <3>1, <3>2 DEF Promise!Next, Promise!GiveUp
  <2>2. CASE SendInit
    <3>1. mediaBar' = mediaBar
      BY <2>2 DEF SendInit, session, mediaBar
    <3>2. verdictBar = "idle" /\ verdictBar' = "open"
      BY <2>2 DEF SendInit, Send, verdictBar, SessionInv
    <3>3. QED
      BY <2>0, <3>1, <3>2 DEF Promise!Next, Promise!Begin
  <2>3. CASE NextSegment \/ FinalizeWaits \/ AskAgain
    <3>1. UNCHANGED <<outcome, finalized, state>> /\ pc # "idle" /\ pc' # "idle"
      BY <2>3 DEF NextSegment, FinalizeWaits, AskAgain, Send, session
    <3>2. mediaBar' = mediaBar /\ verdictBar' = verdictBar
      BY <3>1 DEF mediaBar, verdictBar
    <3>3. QED
      BY <2>0, <3>2
  <2>4. CASE FinalizeEnds \/ StatusEnds
    <3>1. UNCHANGED <<finalized, state>> /\ finalized /\ verdictBar = "open"
      BY <2>4 DEF FinalizeEnds, StatusEnds, session, AnswerInv, SessionInv, verdictBar
    <3>2. mediaBar' = mediaBar
      BY <3>1 DEF mediaBar
    <3>3. CASE outcome' = "ok"
      <4>1. input.optimistic \/ state \in {"none", "succeeded"}
        BY <2>4, <3>3 DEF FinalizeEnds, StatusEnds, Return, AnswerInv
      <4>2. /\ mediaBar # "absent"
            /\ ~input.optimistic => mediaBar = "ready"
            /\ verdictBar' = "ok"
        BY <3>1, <3>3, <4>1 DEF mediaBar, verdictBar
      <4>3. QED
        BY <2>0, <3>1, <3>2, <4>2 DEF Promise!Next, Promise!Confirm
    <3>4. CASE outcome' # "ok"
      <4>1. outcome' = "processingFailed" /\ state = "failed"
        BY <2>4, <3>4 DEF FinalizeEnds, StatusEnds, Return, AnswerInv
      <4>2. mediaBar = "broken" /\ verdictBar' = "settled"
        BY <3>1, <4>1 DEF mediaBar, verdictBar
      <4>3. QED
        BY <2>0, <3>1, <3>2, <4>2 DEF Promise!Next, Promise!GiveUp
    <3>5. QED
      BY <3>3, <3>4
  <2>5. CASE StatusWaits \/ RequestFails \/ Drop
    <3>1. mediaBar' = mediaBar
      BY <2>5 DEF StatusWaits, RequestFails, Drop, session, mediaBar
    <3>2. verdictBar = "open" /\ verdictBar' \in {"open", "doubt"}
      BY <2>5 DEF StatusWaits, RequestFails, Drop, Return, SessionInv, Waiting, verdictBar
    <3>3. QED
      BY <2>0, <3>1, <3>2 DEF Promise!Next, Promise!GiveUp
  <2>6. CASE XHandles
    <3>1. PICK request \in inFlight : Takes(request) /\ UNCHANGED client
      BY <2>6 DEF XHandles
    <3>2. verdictBar' = verdictBar
      BY <3>1 DEF client, verdictBar
    <3>3. CASE request.command = "finalize"
      <4>1. ~finalized /\ finalized' = TRUE
        BY <3>1, <3>3 DEF Takes, AnswerInv
      <4>2. mediaBar = "absent" /\ mediaBar' \in {"uploaded", "ready", "broken"}
        BY <4>1 DEF mediaBar
      <4>3. pc \in {"finalize", "returned"} /\ outcome \notin Refused
        BY <3>1, <3>3, <4>1 DEF SessionInv, AnswerInv, TypeOK, Waiting
      <4>4. verdictBar \in {"open", "doubt"}
        BY <4>1, <4>3 DEF verdictBar, Refused, AnswerInv, SessionInv
      <4>5. QED
        BY <2>0, <3>2, <4>2, <4>4 DEF Promise!Next, Promise!Land
    <3>4. CASE request.command # "finalize"
      <4>1. UNCHANGED <<finalized, state>>
        BY <3>1, <3>4 DEF Takes, session
      <4>2. QED
        BY <2>0, <3>2, <4>1 DEF mediaBar
    <3>5. QED
      BY <3>3, <3>4
  <2>7. CASE XProcesses
    <3>1. verdictBar' = verdictBar
      BY <2>7 DEF XProcesses, client, verdictBar
    <3>2. finalized /\ finalized'
      BY <2>7 DEF XProcesses, AnswerInv
    <3>3. mediaBar = "uploaded" /\ mediaBar' \in {"uploaded", "ready", "broken"}
      BY <2>7, <3>2 DEF XProcesses, mediaBar
    <3>4. QED
      BY <2>0, <3>1, <3>3 DEF Promise!Next, Promise!Process
  <2>8. CASE UNCHANGED vars
    BY <2>8 DEF vars, mediaBar, verdictBar
  <2>9. QED
    BY <2>1, <2>2, <2>3, <2>4, <2>5, <2>6, <2>7, <2>8 DEF Next, Client
<1>3. QED
  BY <1>1, <1>2, Invariant, PTL DEF Spec, KeepsPromise, Promise!Spec
=============================================================================
