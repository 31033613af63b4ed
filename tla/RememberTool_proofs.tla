------------------------- MODULE RememberTool_proofs -------------------------
(***************************************************************************)
(* Proofs about RememberTool, for every set of calls and all durations.    *)
(***************************************************************************)
EXTENDS RememberTool, TLAPS

\* The longest sleep is a duration.
LEMMA LongestSleepType == LongestSleep \in Nat
<1>1. POLL_MAX \div 4 \in Nat /\ POLL_MAX \in Nat
  BY PollAssumption
<1>2. QED
  BY <1>1 DEF LongestSleep, AtLeast

\* Backoff keeps the delay within its bounds: it never gets to zero, where the
\* loop would poll without pause, nor beyond the cap.
LEMMA BackoffBounds ==
  ASSUME NEW d \in Delays
  PROVE  next_backoff(d) \in Delays
BY PollAssumption DEF Delays, next_backoff, AtMost

\* A sleep lasts, and no longer than the longest delay with its jitter.
LEMMA SleepBounds ==
  ASSUME NEW d \in Delays, NEW t \in jittered(d)
  PROVE  /\ t \in Nat \ {0}
         /\ t <= LongestSleep
         /\ LongestSleep \in Nat
<1>1. d \in Nat \ {0} /\ d <= POLL_MAX /\ POLL_MAX \in Nat \ {0}
  BY PollAssumption DEF Delays
<1>2. d \div 4 \in Nat /\ POLL_MAX \div 4 \in Nat /\ d \div 4 <= POLL_MAX \div 4
  BY <1>1
<1>3. QED
  BY <1>1, <1>2 DEF jittered, LongestSleep, AtLeast

\* Type correctness of every state the tool reaches.
THEOREM TypeCorrect == Spec => []TypeOK
<1>1. Init => TypeOK
  BY PollAssumption DEF Init, TypeOK, Delays, Report, NoReply, JobState, None
<1>2. TypeOK /\ [Next]_vars => TypeOK'
  <2> SUFFICES ASSUME TypeOK, [Next]_vars PROVE TypeOK'
    OBVIOUS
  <2> USE DEF TypeOK, polling
  <2>1. ASSUME NEW c \in Calls, Start(c) PROVE TypeOK'
    BY <2>1 DEF Start, RefuseText, RefuseUnsigned, PostRemember, Return, Errors
  <2>2. ASSUME NEW c \in Calls, RelayerAccepts(c) \/ RelayerWorks(c) PROVE TypeOK'
    BY <2>2 DEF RelayerAccepts, RelayerWorks, JobState, JobSteps
  <2>3. ASSUME NEW c \in Calls, RelayerAnswers(c) PROVE TypeOK'
    <3>1. Reports(job[c], Blob(c)) \subseteq Report({Blob(d) : d \in Calls})
      BY DEF Reports, Report, JobState
    <3>2. QED
      BY <2>3, <3>1 DEF RelayerAnswers
  <2>4. ASSUME NEW c \in Calls, Accepted(c) \/ PostFails(c) \/ Drop(c) PROVE TypeOK'
    BY <2>4 DEF Accepted, PostFails, Drop, Return, Errors, HttpErrors
  <2>5. ASSUME NEW c \in Calls, AskStatus(c) PROVE TypeOK'
    <3>1. \A t \in jittered(delay[c]) : t \in Nat
      BY SleepBounds
    <3>2. elapsed' \in [Calls -> Nat]
      BY <2>5, <3>1 DEF AskStatus
    <3>3. QED
      BY <2>5, <3>2 DEF AskStatus
  <2>6. ASSUME NEW c \in Calls, RequestTakes(c) PROVE elapsed' \in [Calls -> Nat]
    BY <2>6, PollAssumption DEF RequestTakes, Latencies
  <2>7. ASSUME NEW c \in Calls, StatusFails(c) \/ StatusRefused(c) PROVE TypeOK'
    BY <2>6, <2>7 DEF StatusFails, StatusRefused, Return, Errors, HttpErrors
  <2>8. ASSUME NEW c \in Calls, StatusDone(c) PROVE TypeOK'
    BY <2>6, <2>8 DEF StatusDone, Return, Errors, HttpErrors, Report
  <2>9. ASSUME NEW c \in Calls, StatusInProgress(c) PROVE TypeOK'
    BY <2>6, <2>9, BackoffBounds DEF StatusInProgress, Return, Errors
  <2>10. CASE UNCHANGED vars
    BY <2>10 DEF vars
  <2>11. QED
    BY <2>1, <2>2, <2>3, <2>4, <2>5, <2>7, <2>8, <2>9, <2>10
       DEF Next, Client, poll_job, Relayer
<1>3. QED
  BY <1>1, <1>2, PTL DEF Spec

\* Between a call and the relayer: nothing of a call is there before its POST,
\* and no status is asked for a job that the relayer has not accepted.
LEMMA Stages == Spec => []StageInv
<1>1. Init => StageInv
  BY DEF Init, StageInv
<1>2. TypeOK /\ StageInv /\ [Next]_vars => StageInv'
  <2> SUFFICES ASSUME TypeOK, StageInv, [Next]_vars PROVE StageInv'
    OBVIOUS
  <2> USE DEF TypeOK, StageInv, polling, Return
  <2>1. ASSUME NEW c \in Calls, Start(c) PROVE StageInv'
    BY <2>1 DEF Start, RefuseText, RefuseUnsigned, PostRemember
  <2>2. ASSUME NEW c \in Calls, Relayer(c) PROVE StageInv'
    BY <2>2 DEF Relayer, RelayerAccepts, RelayerWorks, RelayerAnswers, JobSteps
  <2>3. ASSUME NEW c \in Calls, Accepted(c) \/ PostFails(c) \/ Drop(c) PROVE StageInv'
    BY <2>3 DEF Accepted, PostFails, Drop, HttpErrors
  <2>4. ASSUME NEW c \in Calls, AskStatus(c) \/ StatusFails(c) PROVE StageInv'
    BY <2>4 DEF AskStatus, StatusFails, HttpErrors
  <2>5. ASSUME NEW c \in Calls, StatusDone(c) \/ StatusRefused(c) PROVE StageInv'
    BY <2>5 DEF StatusDone, StatusRefused
  <2>6. ASSUME NEW c \in Calls, StatusInProgress(c) PROVE StageInv'
    BY <2>6 DEF StatusInProgress
  <2>7. CASE UNCHANGED vars
    BY <2>7 DEF vars
  <2>8. QED
    BY <2>1, <2>2, <2>3, <2>4, <2>5, <2>6, <2>7 DEF Next, Client, poll_job
<1>3. QED
  BY <1>1, <1>2, TypeCorrect, PTL DEF Spec

\* An answer read late is still true: terminal jobs do not move.
LEMMA Replies == Spec => []ReplyInv
<1>1. Init => ReplyInv
  BY DEF Init, ReplyInv
<1>2. TypeOK /\ StageInv /\ ReplyInv /\ [Next]_vars => ReplyInv'
  <2> SUFFICES ASSUME TypeOK, StageInv, ReplyInv, [Next]_vars PROVE ReplyInv'
    OBVIOUS
  <2> USE DEF TypeOK, ReplyInv, polling, Return, IsTerminal
  <2>1. ASSUME NEW c \in Calls, Start(c) PROVE ReplyInv'
    BY <2>1 DEF Start, RefuseText, RefuseUnsigned, PostRemember, StageInv
  <2>2. ASSUME NEW c \in Calls, RelayerAccepts(c) PROVE ReplyInv'
    BY <2>2 DEF RelayerAccepts, StageInv
  <2>3. ASSUME NEW c \in Calls, RelayerWorks(c) PROVE ReplyInv'
    <3>1. ~IsTerminal(job[c])
      BY <2>3 DEF RelayerWorks, JobSteps
    <3>2. QED
      BY <2>3, <3>1 DEF RelayerWorks
  <2>4. ASSUME NEW c \in Calls, RelayerAnswers(c) PROVE ReplyInv'
    BY <2>4 DEF RelayerAnswers, Reports, StageInv
  <2>5. ASSUME NEW c \in Calls, Accepted(c) \/ PostFails(c) \/ Drop(c) PROVE ReplyInv'
    BY <2>5 DEF Accepted, PostFails, Drop, HttpErrors, StageInv
  <2>6. ASSUME NEW c \in Calls, AskStatus(c) \/ StatusFails(c) PROVE ReplyInv'
    BY <2>6 DEF AskStatus, StatusFails, HttpErrors, StageInv
  <2>7. ASSUME NEW c \in Calls, StatusDone(c) PROVE ReplyInv'
    BY <2>7 DEF StatusDone, StageInv
  <2>8. ASSUME NEW c \in Calls, StatusRefused(c) PROVE ReplyInv'
    BY <2>8 DEF StatusRefused, StageInv
  <2>9. ASSUME NEW c \in Calls, StatusInProgress(c) PROVE ReplyInv'
    BY <2>9 DEF StatusInProgress, StageInv
  <2>10. CASE UNCHANGED vars
    BY <2>10 DEF vars
  <2>11. QED
    BY <2>1, <2>2, <2>3, <2>4, <2>5, <2>6, <2>7, <2>8, <2>9, <2>10
       DEF Next, Client, poll_job, Relayer
<1>3. QED
  BY <1>1, <1>2, TypeCorrect, Stages, PTL DEF Spec

-----------------------------------------------------------------------------
(* The clock.                                                               *)

\* The time of a call, step by step of its loop.
LEMMA Clocks == Spec => []ClockInv
<1>0. /\ LongestSleep \in Nat
      /\ POLL_BUDGET \in Nat \ {0}
      /\ HTTP_TIMEOUT \in Nat
      /\ LongestPoll = POLL_BUDGET - 1 + LongestSleep + HTTP_TIMEOUT
  BY PollAssumption, LongestSleepType DEF LongestPoll
<1>1. Init => ClockInv
  BY <1>0 DEF Init, ClockInv
<1>2. TypeOK /\ ClockInv /\ [Next]_vars => ClockInv'
  <2> SUFFICES ASSUME TypeOK, ClockInv, [Next]_vars PROVE ClockInv'
    OBVIOUS
  <2> USE DEF TypeOK, ClockInv, polling, Return
  <2>1. ASSUME NEW c \in Calls, Start(c) PROVE ClockInv'
    BY <2>1, <1>0 DEF Start, RefuseText, RefuseUnsigned, PostRemember
  <2>2. ASSUME NEW c \in Calls, Relayer(c) PROVE ClockInv'
    BY <2>2 DEF Relayer, RelayerAccepts, RelayerWorks, RelayerAnswers
  <2>3. ASSUME NEW c \in Calls, Accepted(c) \/ PostFails(c) \/ Drop(c) PROVE ClockInv'
    BY <2>3, <1>0 DEF Accepted, PostFails, Drop
  <2>4. ASSUME NEW c \in Calls, AskStatus(c) PROVE ClockInv'
    <3>1. PICK t \in jittered(delay[c]) : elapsed' = [elapsed EXCEPT ![c] = @ + t]
      BY <2>4 DEF AskStatus
    <3>2. t \in Nat /\ t <= LongestSleep
      BY SleepBounds
    <3>3. elapsed'[c] < POLL_BUDGET + LongestSleep
      BY <2>4, <3>1, <3>2, <1>0 DEF AskStatus
    <3>4. QED
      BY <2>4, <3>1, <3>2, <3>3, <1>0 DEF AskStatus
  <2>5. ASSUME NEW c \in Calls, pc[c] \in {"asking", "answered"}, RequestTakes(c)
        PROVE  /\ elapsed'[c] <= LongestPoll
               /\ elapsed'[c] \in Nat
               /\ \A d \in Calls \ {c} : elapsed'[d] = elapsed[d]
    <3>1. PICK t \in Latencies : elapsed' = [elapsed EXCEPT ![c] = @ + t]
      BY <2>5 DEF RequestTakes
    <3>2. QED
      BY <2>5, <3>1, <1>0 DEF Latencies
  <2>6. ASSUME NEW c \in Calls, StatusFails(c) \/ StatusDone(c) \/ StatusRefused(c)
        PROVE  ClockInv'
    BY <2>5, <2>6 DEF StatusFails, StatusDone, StatusRefused
  <2>7. ASSUME NEW c \in Calls, StatusInProgress(c) PROVE ClockInv'
    BY <2>5, <2>7 DEF StatusInProgress
  <2>8. CASE UNCHANGED vars
    BY <2>8 DEF vars
  <2>9. QED
    BY <2>1, <2>2, <2>3, <2>4, <2>6, <2>7, <2>8 DEF Next, Client, poll_job
<1>3. QED
  BY <1>1, <1>2, TypeCorrect, PTL DEF Spec

\* poll_job ends at most one sleep and one request beyond its budget.
THEOREM Bounded == Spec => []PollBounded
<1>1. ClockInv => PollBounded
  BY DEF ClockInv, PollBounded
<1>2. QED
  BY <1>1, Clocks, PTL

\* A timeout is said of a job that was in progress when last asked about,
\* after polling for the whole budget.
THEOREM HonestTimeout == Spec => []TimeoutIsHonest
<1>1. Init => TimeoutIsHonest
  BY DEF Init, TimeoutIsHonest
<1>2. TypeOK /\ StageInv /\ TimeoutIsHonest /\ [Next]_vars => TimeoutIsHonest'
  <2> SUFFICES ASSUME TypeOK, StageInv, TimeoutIsHonest, [Next]_vars
               PROVE  TimeoutIsHonest'
    OBVIOUS
  <2> USE DEF TypeOK, TimeoutIsHonest, StageInv, polling, Return
  <2>1. ASSUME NEW c \in Calls, Start(c) PROVE TimeoutIsHonest'
    BY <2>1 DEF Start, RefuseText, RefuseUnsigned, PostRemember
  <2>2. ASSUME NEW c \in Calls, Relayer(c) PROVE TimeoutIsHonest'
    BY <2>2 DEF Relayer, RelayerAccepts, RelayerWorks, RelayerAnswers
  <2>3. ASSUME NEW c \in Calls, Accepted(c) \/ PostFails(c) \/ Drop(c)
        PROVE  TimeoutIsHonest'
    BY <2>3 DEF Accepted, PostFails, Drop, HttpErrors
  <2>4. ASSUME NEW c \in Calls, AskStatus(c) PROVE TimeoutIsHonest'
    BY <2>4 DEF AskStatus
  <2>5. ASSUME NEW c \in Calls, StatusFails(c) \/ StatusDone(c) \/ StatusRefused(c)
        PROVE  TimeoutIsHonest'
    BY <2>5 DEF StatusFails, StatusDone, StatusRefused, RequestTakes, HttpErrors
  <2>6. ASSUME NEW c \in Calls, StatusInProgress(c) PROVE TimeoutIsHonest'
    BY <2>6 DEF StatusInProgress, RequestTakes
  <2>7. CASE UNCHANGED vars
    BY <2>7 DEF vars
  <2>8. QED
    BY <2>1, <2>2, <2>3, <2>4, <2>5, <2>6, <2>7 DEF Next, Client, poll_job
<1>3. QED
  BY <1>1, <1>2, TypeCorrect, Stages, PTL DEF Spec

-----------------------------------------------------------------------------
(* The promise: what the abstract call sees of each step.                   *)

\* An error that ends an open call is a GiveUp of the promise.
LEMMA ErrorGivesUp ==
  ASSUME TypeOK, StageInv, NEW c \in Calls, NEW e \in Errors,
         pc[c] \notin {"idle", "returned"}, e \notin {"config", "auth"},
         Return(c, e), job' = job,
         \A d \in Calls \ {c} : blob_id'[d] = blob_id[d]
  PROVE  Promise!GiveUp(c)
<1>1. /\ verdictBar[c] = "open"
      /\ verdictBar' = [verdictBar EXCEPT ![c] = IF e \in Settled THEN "settled" ELSE "doubt"]
  BY DEF TypeOK, StageInv, Return, verdictBar, Verdict, Settled, Errors, HttpErrors
<1>2. sizeBar' = sizeBar
  BY DEF TypeOK, StageInv, Return, sizeBar, Errors, HttpErrors
<1>3. durableBar' = durableBar
  BY DEF durableBar
<1>4. blobsBar' = blobsBar
  BY DEF TypeOK, StageInv, Return, blobsBar, Errors, HttpErrors
<1>5. QED
  BY <1>1, <1>2, <1>3, <1>4 DEF Promise!GiveUp

\* Every behaviour of the tool keeps the promise: Ok is said of a stored text,
\* with its blob, and nothing is stored after a settled error.
THEOREM Refines == Spec => KeepsPromise
<1>1. Init => Promise!Init
  BY DEF Init, Promise!Init, sizeBar, durableBar, verdictBar, blobsBar, Verdict
<1>2. TypeOK /\ StageInv /\ ReplyInv /\ [Next]_vars
        => [Promise!Next]_(Promise!vars)
  <2> SUFFICES ASSUME TypeOK, StageInv, ReplyInv, [Next]_vars
               PROVE  [Promise!Next]_(Promise!vars)
    OBVIOUS
  <2>1. ASSUME NEW c \in Calls, RefuseText(c) \/ RefuseUnsigned(c)
        PROVE  Promise!GiveUp(c)
    <3>1. PICK e \in {"config", "auth"} : Return(c, e)
      BY <2>1 DEF RefuseText, RefuseUnsigned
    <3>2. pc[c] = "idle" /\ UNCHANGED <<job, blob_id>>
      BY <2>1 DEF RefuseText, RefuseUnsigned
    <3>3. /\ verdictBar[c] = "idle"
          /\ verdictBar' = [verdictBar EXCEPT ![c] = "settled"]
      BY <3>1, <3>2 DEF TypeOK, StageInv, Return, verdictBar, Verdict, Settled
    <3>4. UNCHANGED <<sizeBar, durableBar, blobsBar>>
      BY <3>1, <3>2 DEF TypeOK, StageInv, Return, sizeBar, durableBar, blobsBar
    <3>5. QED
      BY <3>3, <3>4 DEF Promise!GiveUp
  <2>2. ASSUME NEW c \in Calls, PostRemember(c) PROVE Promise!Begin(c)
    <3>1. /\ verdictBar[c] = "idle"
          /\ verdictBar' = [verdictBar EXCEPT ![c] = "open"]
      BY <2>2 DEF PostRemember, TypeOK, StageInv, verdictBar, Verdict
    <3>2. sizeBar' = [sizeBar EXCEPT ![c] = 1]
      BY <2>2 DEF PostRemember, TypeOK, StageInv, sizeBar
    <3>3. UNCHANGED <<durableBar, blobsBar>>
      BY <2>2 DEF PostRemember, durableBar, blobsBar
    <3>4. QED
      BY <3>1, <3>2, <3>3 DEF Promise!Begin
  <2>3. ASSUME NEW c \in Calls, RelayerAccepts(c) PROVE UNCHANGED Promise!vars
    <3>1. durableBar' = durableBar
      BY <2>3 DEF RelayerAccepts, TypeOK, StageInv, durableBar
    <3>2. QED
      BY <2>3, <3>1 DEF RelayerAccepts, polling, Promise!vars, sizeBar, verdictBar,
                        Verdict, blobsBar
  <2>4. ASSUME NEW c \in Calls, RelayerWorks(c)
        PROVE  Promise!Land(c) \/ UNCHANGED Promise!vars
    <3>1. PICK s \in JobSteps(job[c]) : job' = [job EXCEPT ![c] = s]
      BY <2>4 DEF RelayerWorks
    <3>2. UNCHANGED <<sizeBar, verdictBar, blobsBar>>
      BY <2>4 DEF RelayerWorks, polling, sizeBar, verdictBar, Verdict, blobsBar
    <3>3. ~IsTerminal(job[c]) /\ job[c] # "absent"
      BY <3>1 DEF JobSteps, IsTerminal
    <3>4. CASE s = "done"
      <4>1. verdictBar[c] \in {"open", "doubt"}
        BY <3>3 DEF TypeOK, StageInv, ReplyInv, verdictBar, Verdict, Settled, Errors,
                    IsTerminal
      <4>2. sizeBar[c] = 1 /\ durableBar[c] = {}
        BY <3>3 DEF StageInv, sizeBar, durableBar, IsTerminal
      <4>3. durableBar' = [durableBar EXCEPT ![c] = {1}]
        BY <3>1, <3>4 DEF TypeOK, durableBar
      <4>4. \E i \in (1 .. sizeBar[c]) \ durableBar[c] :
              durableBar' = [durableBar EXCEPT ![c] = @ \cup {i}]
        BY <4>2, <4>3
      <4>5. QED
        BY <3>2, <4>1, <4>4 DEF Promise!Land
    <3>5. CASE s # "done"
      <4>1. durableBar' = durableBar
        BY <3>1, <3>3, <3>5 DEF TypeOK, durableBar, IsTerminal
      <4>2. QED
        BY <3>2, <4>1 DEF Promise!vars
    <3>6. QED
      BY <3>4, <3>5
  <2>5. ASSUME NEW c \in Calls, RelayerAnswers(c) \/ Accepted(c) \/ AskStatus(c)
        PROVE  UNCHANGED Promise!vars
    <3>1. verdictBar' = verdictBar
      BY <2>5 DEF RelayerAnswers, Accepted, AskStatus, polling, TypeOK, verdictBar, Verdict
    <3>2. sizeBar' = sizeBar
      BY <2>5 DEF RelayerAnswers, Accepted, AskStatus, polling, TypeOK, sizeBar
    <3>3. QED
      BY <2>5, <3>1, <3>2 DEF RelayerAnswers, Accepted, AskStatus, polling, durableBar,
                              blobsBar, Promise!vars
  <2>6. ASSUME NEW c \in Calls, PostFails(c) \/ StatusFails(c) \/ Drop(c) \/ StatusRefused(c)
        PROVE  Promise!GiveUp(c)
    <3>1. PICK e \in Errors \ {"config", "auth"} : Return(c, e)
      BY <2>6 DEF PostFails, StatusFails, Drop, StatusRefused, Errors, HttpErrors
    <3>2. /\ pc[c] \notin {"idle", "returned"}
          /\ UNCHANGED <<job, blob_id>>
      BY <2>6 DEF PostFails, StatusFails, Drop, StatusRefused
    <3>3. QED
      BY <3>1, <3>2, ErrorGivesUp
  <2>7. ASSUME NEW c \in Calls, StatusDone(c)
        PROVE  Promise!Confirm(c) \/ Promise!GiveUp(c)
    <3>1. CASE reply[c].blob_id = None
      <4>1. /\ Return(c, "server") /\ "server" \in Errors
            /\ pc[c] \notin {"idle", "returned"}
            /\ job' = job
            /\ \A d \in Calls \ {c} : blob_id'[d] = blob_id[d]
        BY <2>7, <3>1 DEF StatusDone, TypeOK, Errors, HttpErrors
      <4>2. QED
        BY <4>1, ErrorGivesUp
    <3>2. CASE reply[c].blob_id # None
      <4>1. /\ reply[c].blob_id = Some(Blob(c))
            /\ job[c] = "done"
        BY <2>7, <3>2 DEF StatusDone, ReplyInv, IsTerminal
      <4>2. /\ Return(c, "ok")
            /\ blob_id' = [blob_id EXCEPT ![c] = {Blob(c)}]
            /\ pc[c] = "answered"
            /\ job' = job
        BY <2>7, <3>2, <4>1 DEF StatusDone, Some
      <4>3. /\ verdictBar[c] = "open"
            /\ verdictBar' = [verdictBar EXCEPT ![c] = "ok"]
        BY <4>2 DEF TypeOK, StageInv, Return, verdictBar, Verdict
      <4>4. sizeBar' = sizeBar /\ sizeBar[c] = 1
        BY <4>2 DEF TypeOK, StageInv, Return, sizeBar
      <4>5. durableBar' = durableBar /\ durableBar[c] = {1}
        BY <4>1, <4>2 DEF durableBar
      <4>6. blobsBar' = [blobsBar EXCEPT ![c] = Listed({Blob(c)})]
        BY <4>2 DEF TypeOK, StageInv, Return, blobsBar
      <4>7. Listed({Blob(c)}) = [i \in 1 .. sizeBar[c] |-> Promise!Blob(c, i)]
        <5>1. (CHOOSE b \in {Blob(c)} : TRUE) = Blob(c)
          OBVIOUS
        <5>2. \A i \in 1 .. 1 : Promise!Blob(c, i) = Blob(c)
          BY DEF Blob, Promise!Blob
        <5>3. QED
          BY <4>4, <5>1, <5>2 DEF Listed
      <4>8. durableBar[c] = 1 .. sizeBar[c]
        BY <4>4, <4>5
      <4>9. QED
        BY <4>3, <4>4, <4>5, <4>6, <4>7, <4>8 DEF Promise!Confirm
    <3>3. QED
      BY <3>1, <3>2
  <2>8. ASSUME NEW c \in Calls, StatusInProgress(c)
        PROVE  Promise!GiveUp(c) \/ UNCHANGED Promise!vars
    <3>1. CASE Return(c, "timeout")
      <4>1. /\ "timeout" \in Errors /\ pc[c] \notin {"idle", "returned"}
            /\ UNCHANGED <<job, blob_id>>
        BY <2>8 DEF StatusInProgress, Errors
      <4>2. QED
        BY <3>1, <4>1, ErrorGivesUp
    <3>2. CASE pc' = [pc EXCEPT ![c] = "sleeping"] /\ UNCHANGED outcome
      <4>1. verdictBar' = verdictBar /\ sizeBar' = sizeBar
        BY <2>8, <3>2 DEF StatusInProgress, TypeOK, verdictBar, Verdict, sizeBar
      <4>2. QED
        BY <2>8, <3>2, <4>1 DEF StatusInProgress, durableBar, blobsBar, Promise!vars
    <3>3. QED
      BY <2>8, <3>1, <3>2 DEF StatusInProgress
  <2>9. CASE UNCHANGED vars
    BY <2>9 DEF vars, Promise!vars, sizeBar, durableBar, verdictBar, Verdict, blobsBar
  <2>10. QED
    BY <2>1, <2>2, <2>3, <2>4, <2>5, <2>6, <2>7, <2>8, <2>9
       DEF Next, Start, Client, poll_job, Relayer, Promise!Next
<1>3. QED
  BY <1>1, <1>2, TypeCorrect, Stages, Replies, PTL DEF Spec, KeepsPromise, Promise!Spec
=============================================================================
