-------------------------- MODULE MemWalTools_proofs --------------------------
(***************************************************************************)
(* Proofs about MemWalTools, for every set of calls and namespaces and any *)
(* number of facts in a text.                                              *)
(***************************************************************************)
EXTENDS MemWalTools, FiniteSetTheorems, TLAPS

\* What holds of every reachable state, and is kept by every step.
IInv ==
  /\ TypeOK /\ ProcInv /\ RequestInv
  /\ JobInv /\ KeptInv
  /\ AnswerInv /\ OutputInv

\* An option resolves to a namespace.
LEMMA ResolveType ==
  ASSUME NEW o \in Options
  PROVE  resolve(o) \in AllNamespaces
<1>1. CASE o = None
  BY <1>1 DEF resolve, AllNamespaces
<1>2. CASE \E x \in Namespaces : o = Some(x)
  <2>1. PICK x \in Namespaces : o = {x}
    BY <1>2 DEF Some
  <2>2. (CHOOSE n \in o : TRUE) = x /\ o # None
    BY <2>1 DEF None
  <2>3. QED
    BY <2>1, <2>2 DEF resolve, AllNamespaces
<1>3. QED
  BY <1>1, <1>2 DEF Options

\* The job of the other process is a job.
LEMMA EarlierType == Earlier \in Jobs
<1>1. (CHOOSE n \in Namespaces : TRUE) \in Namespaces
  BY BoundsAssumption
<1>2. QED
  BY <1>1, BoundsAssumption DEF Earlier, Jobs, AllNamespaces

\* What is stored is a finite part of the jobs.
LEMMA StoredFinite ==
  ASSUME IsFiniteSet(jobs), NEW ns
  PROVE  Stored(ns) \subseteq jobs /\ Cardinality(Stored(ns)) \in Nat
<1>1. Stored(ns) \in SUBSET jobs
  BY DEF Stored
<1>2. IsFiniteSet(Stored(ns))
  BY <1>1, FS_Subset
<1>3. QED
  BY <1>1, <1>2, FS_CardinalityType

\* A step by which nothing changes that a body or an output is about.
Still(c) ==
  /\ UNCHANGED <<input[c], before[c]>>
  /\ \A f \in before[c].over : UNCHANGED <<input[f], output[f], before[f]>>
  /\ \A j \in before[c].stored : j \in jobs' => j \in jobs
  /\ \A n : Counted(c, n) => Counted(c, n)'

LEMMA FoundStill ==
  ASSUME NEW c \in Calls, NEW memories, Still(c), Found(c, memories)
  PROVE  Found(c, memories)'
BY DEF Still, Found, ForgetOk

LEMMA ClearedStill ==
  ASSUME NEW c \in Calls, Still(c), Cleared(c)
  PROVE  Cleared(c)'
BY DEF Still, Cleared

\* What an answer under way says stays true.
LEMMA BodyStill ==
  ASSUME NEW c \in Calls, NEW b, Still(c), BodyInv(c, b)
  PROVE  BodyInv(c, b)'
<1>1. input'[c] = input[c]
  BY DEF Still
<1>2. Found(c, b.memories) => Found(c, b.memories)'
  BY FoundStill
<1>3. Cleared(c) => Cleared(c)'
  BY ClearedStill
<1>4. Counted(c, b.job_ids) => Counted(c, b.job_ids)'
  BY DEF Still
<1>5. QED
  BY <1>1, <1>2, <1>3, <1>4 DEF BodyInv

\* What an output says stays true.
LEMMA ClaimsStill ==
  ASSUME NEW c \in Calls, Still(c), Claims(c), UNCHANGED <<output[c], admitted>>,
         \A q \in (request \cup seen)' : q \in request \cup seen \/ q.call # c,
         \A q \in request' : q \in request \/ q.call # c
  PROVE  Claims(c)'
<1>1. input'[c] = input[c]
  BY DEF Still
<1>2. Found(c, output[c].memories) => Found(c, output[c].memories)'
  <2>1. ASSUME NEW m, m = output[c].memories, Found(c, m) PROVE Found(c, m)'
    BY <2>1, FoundStill
  <2>2. ASSUME Found(c, output[c].memories) PROVE Found(c, output[c].memories)'
    BY <2>1, <2>2 DEF Found, ForgetOk
  <2>3. QED
    BY <2>2
<1>3. Cleared(c) => Cleared(c)'
  BY ClearedStill
<1>4. Counted(c, output[c].job_count) => Counted(c, output[c].job_count)'
  BY DEF Still, Counted
<1>5. QED
  BY <1>1, <1>2, <1>3, <1>4 DEF Claims

\* The first state.
LEMMA Initially == Init => IInv
<1> SUFFICES ASSUME Init PROVE IInv
  OBVIOUS
<1> USE DEF Init
<1>1. TypeOK
  BY EarlierType DEF TypeOK, KeyText, UrlText, RefusedUrls, Options, None, Some, Tools, Outputs
<1>2. ProcInv
  BY DEF ProcInv
<1>3. RequestInv
  BY DEF RequestInv
<1>4. JobInv
  <2>1. IsFiniteSet(jobs)
    BY FS_Singleton
  <2>2. QED
    BY <2>1 DEF JobInv, Earlier
<1>5. KeptInv
  BY DEF KeptInv
<1>6. AnswerInv /\ OutputInv
  BY DEF AnswerInv, OutputInv, Claims, Refusals
<1>7. QED
  BY <1>1, <1>2, <1>3, <1>4, <1>5, <1>6 DEF IInv

-----------------------------------------------------------------------------
(* main.                                                                   *)

\* Until the process serves nothing happens to a call; a key that is served
\* with is well formed or missing.
LEMMA ProcessStep ==
  ASSUME IInv, Process
  PROVE  IInv'
<1>1. UNCHANGED <<admitted, pc, input, client, relayer, before>> /\ proc # "serving"
  BY DEF Process, Describe, load_dotenv_if_present, validate_credentials_at_startup, boot
<1>2. TypeOK'
  <2>1. proc' \in {"main", "loaded", "serving", "described", "exited"}
    BY DEF Process, Describe, load_dotenv_if_present, validate_credentials_at_startup
  <2>2. env' \in [key : {None} \cup {Some(k) : k \in KeyText}, url : UrlText, insecure : BOOLEAN]
    BY DEF Process, Describe, load_dotenv_if_present, validate_credentials_at_startup,
           boot, IInv, TypeOK
  <2>3. QED
    BY <1>1, <2>1, <2>2 DEF IInv, TypeOK, client, relayer
<1>3. ProcInv'
  <2>1. \A c \in Calls : pc'[c] = "idle" /\ output'[c].is = "none"
    BY <1>1 DEF IInv, ProcInv, TypeOK, client
  <2>2. proc' = "serving" => classify_key(env'.key) # "Invalid"
    BY DEF Process, Describe, load_dotenv_if_present, validate_credentials_at_startup,
           read_validated_private_key, boot
  <2>3. QED
    BY <2>1, <2>2 DEF ProcInv
<1>4. (RequestInv /\ JobInv /\ KeptInv)'
  BY <1>1 DEF IInv, RequestInv, JobInv, KeptInv, client, relayer
<1>5. AnswerInv'
  <2>1. \A c \in Calls : Still(c)
    BY <1>1 DEF Still, Counted, client, relayer
  <2>2. QED
    BY <1>1, <2>1, BodyStill DEF IInv, TypeOK, AnswerInv, client, relayer
<1>6. OutputInv'
  <2>1. \A c \in Calls : Still(c)
    BY <1>1 DEF Still, Counted, client, relayer
  <2>2. QED
    BY <1>1, <2>1, ClaimsStill DEF IInv, OutputInv, boot, client, relayer
<1>7. QED
  BY <1>2, <1>3, <1>4, <1>5, <1>6 DEF IInv

-----------------------------------------------------------------------------
(* The calls.                                                              *)

\* While a call is not over, the others do not depend on it.
LEMMA OthersStill ==
  ASSUME IInv, NEW c \in Calls, pc[c] # "returned", UNCHANGED jobs,
         \A d \in Calls : d # c => UNCHANGED <<input[d], output[d], before[d]>>
  PROVE  /\ \A d \in Calls : d # c => Still(d)
         /\ UNCHANGED <<input[c], before[c]>> => Still(c)
<1>1. \A d \in Calls : c \notin before[d].over /\ before[d].over \subseteq Calls
  BY DEF IInv, TypeOK, KeptInv
<1>2. ASSUME NEW d \in Calls, UNCHANGED <<input[d], before[d]>> PROVE Still(d)
  BY <1>1, <1>2 DEF Still, Counted
<1>3. QED
  BY <1>2

\* A call that has not begun has no request and no answer.
LEMMA NothingBegun ==
  ASSUME IInv, NEW c \in Calls, pc[c] = "idle"
  PROVE  /\ \A q \in request \cup seen : q.call # c
         /\ \A a \in answer : a.call # c
BY DEF IInv, RequestInv, AnswerInv

\* A call, or a probe, that is over without a request.
LEMMA EndsAtOnce ==
  ASSUME IInv, proc = "serving", NEW c \in Calls, pc[c] = "idle",
         NEW i \in [tool : Tools \cup {"health"}, namespace : Options], NEW e,
         input' = [input EXCEPT ![c] = i], Fails(c, e),
         UNCHANGED <<proc, boot, minted, request, answer, relayer, before>>,
         \/ e = "panic" /\ from_env = "panic"
         \/ e = "auth" /\ from_env = "keyless"
         \/ e \in {"config", "unavailable"}
         \/ e = "ok" /\ i.tool = "health" /\ from_env = "signing"
  PROVE  IInv'
<1> USE DEF Fails, Returns, relayer, boot
<1>1. /\ output' = [output EXCEPT ![c] = [is |-> e]]
      /\ pc' = [pc EXCEPT ![c] = "returned"]
  OBVIOUS
<1>2. TypeOK'
  <2>1. [is |-> e] \in Outputs /\ e # "none"
    BY DEF Outputs, Refusals, Doubts
  <2>2. output' \in [Calls -> Outputs]
    BY <1>1, <2>1 DEF IInv, TypeOK
  <2>3. \A d \in Calls : output'[d].is = "none" <=> pc'[d] # "returned"
    BY <1>1, <2>1 DEF IInv, TypeOK
  <2>4. QED
    BY <1>1, <2>2, <2>3 DEF IInv, TypeOK
<1>3. ProcInv'
  <2>1. from_env' = from_env /\ classify_key(env.key)' = classify_key(env.key)
    BY DEF from_env, read_validated_private_key
  <2>2. \A d \in Calls : d # c => output'[d] = output[d] /\ input'[d] = input[d]
    BY <1>1 DEF IInv, TypeOK
  <2>3. output'[c].is = e /\ input'[c] = i
    BY <1>1 DEF IInv, TypeOK
  <2>4. QED
    BY <2>1, <2>2, <2>3 DEF IInv, ProcInv
<1>4. RequestInv'
  BY <1>1, NothingBegun DEF IInv, TypeOK, RequestInv, Requests
<1>5. JobInv'
  BY DEF IInv, JobInv
<1>6. KeptInv'
  BY <1>1 DEF IInv, TypeOK, KeptInv
<1>7. \A d \in Calls : d # c => Still(d)
  BY <1>1, OthersStill DEF IInv, TypeOK
<1>8. AnswerInv'
  <2>1. \A a \in answer : \A b \in a.body : a.status = 200 => BodyInv(a.call, b)'
    BY <1>7, NothingBegun, BodyStill DEF IInv, TypeOK, AnswerInv
  <2>2. QED
    BY <1>1, <2>1, NothingBegun DEF IInv, TypeOK, AnswerInv
<1>9. OutputInv'
  <2>1. ASSUME NEW d \in Calls, d # c PROVE Claims(d)'
    BY <1>1, <1>7, <2>1, ClaimsStill DEF IInv, TypeOK, OutputInv
  <2>2. Claims(c)'
    <3>1. output'[c].is = e /\ input'[c] = i
      BY <1>1 DEF IInv, TypeOK
    <3>2. \A q \in (request \cup seen)' : q.call # c
      BY NothingBegun
    <3>3. e # "auth failure" /\ (e = "ok" => i.tool = "health")
      OBVIOUS
    <3>4. QED
      BY <3>1, <3>2, <3>3 DEF Claims
  <2>3. QED
    BY <2>1, <2>2 DEF OutputInv
<1>10. QED
  BY <1>2, <1>3, <1>4, <1>5, <1>6, <1>8, <1>9 DEF IInv

\* A call that posts: its request is new, and so is its nonce.
LEMMA PostsStep ==
  ASSUME IInv, proc = "serving", NEW c \in Calls, pc[c] = "idle",
         NEW i \in [tool : Tools, namespace : Options],
         input' = [input EXCEPT ![c] = i], Posts(c, i),
         UNCHANGED <<proc, boot, answer, relayer>>
  PROVE  IInv'
<1> USE DEF relayer, boot
<1> DEFINE q0 == [call |-> c, nonce |-> minted + 1, tool |-> i.tool, namespace |-> i.namespace]
<1>1. /\ pc' = [pc EXCEPT ![c] = "posting"]
      /\ minted' = minted + 1
      /\ request' = request \cup {q0}
      /\ UNCHANGED output
      /\ from_env = "signing"
  BY DEF Posts, Sends, sign_request
<1>2. /\ \A d \in Calls : d # c => before'[d] = before[d]
      /\ before'[c].over \subseteq {d \in Calls : pc[d] = "returned"}
      /\ before'[c].stored \subseteq {j \in jobs : j.state = "stored"}
      /\ before' \in [Calls -> [over : SUBSET Calls, stored : SUBSET Jobs]]
  BY DEF Posts, IInv, TypeOK
<1>3. TypeOK'
  <2>1. q0 \in Requests /\ \A q \in request \cup seen : q.nonce # q0.nonce
    BY DEF IInv, TypeOK, RequestInv, Requests
  <2>2. /\ (request \cup seen)' \subseteq Requests
        /\ \A q, r \in (request \cup seen)' : q.nonce = r.nonce => q = r
    BY <1>1, <2>1 DEF IInv, TypeOK
  <2>3. /\ pc' \in [Calls -> {"idle", "posting", "returned"}]
        /\ input' \in [Calls -> [tool : Tools \cup {"health"}, namespace : Options]]
        /\ \A d \in Calls : output'[d].is = "none" <=> pc'[d] # "returned"
    BY <1>1 DEF IInv, TypeOK
  <2>4. QED
    BY <1>1, <1>2, <2>2, <2>3 DEF IInv, TypeOK
<1>4. ProcInv'
  BY <1>1 DEF IInv, TypeOK, ProcInv, from_env, read_validated_private_key
<1>5. RequestInv'
  <2>1. \A q \in request \cup seen : q.nonce <= minted' /\ q.nonce \in Nat /\ q.call \in Calls
    BY <1>1 DEF IInv, TypeOK, RequestInv, Requests
  <2>2. q0.nonce <= minted' /\ q0 \notin seen
    BY <1>1, <2>1, NothingBegun DEF IInv, TypeOK
  <2>3. \A q \in (request \cup seen)' :
          pc'[q.call] # "idle" /\ q.tool = input'[q.call].tool
            /\ q.namespace = input'[q.call].namespace
    BY <1>1, NothingBegun, <2>1 DEF IInv, TypeOK, RequestInv
  <2>4. QED
    BY <1>1, <2>1, <2>2, <2>3, NothingBegun DEF IInv, RequestInv
<1>6. JobInv'
  BY DEF IInv, JobInv
<1>7. KeptInv'
  <2>1. \A e \in Calls : pc[e] = "returned" => pc'[e] = "returned"
    BY <1>1 DEF IInv, TypeOK
  <2>2. ASSUME NEW d \in Calls, NEW f \in before'[d].over
        PROVE  pc'[f] = "returned"
    <3>1. f \in Calls /\ pc[f] = "returned"
      BY <1>2, <2>2 DEF IInv, KeptInv
    <3>2. QED
      BY <2>1, <3>1
  <2>3. ASSUME NEW d \in Calls, NEW j \in before'[d].stored
        PROVE  /\ j.state = "stored"
               /\ \E k \in jobs : k.call = j.call /\ k.fact = j.fact /\ k.state # "pending"
    <3>1. CASE d = c
      BY <1>2, <2>3, <3>1
    <3>2. CASE d # c
      BY <1>2, <2>3, <3>2 DEF IInv, KeptInv
    <3>3. QED
      BY <3>1, <3>2
  <2>4. QED
    BY <2>2, <2>3 DEF KeptInv
<1>8. \A d \in Calls : d # c => Still(d)
  BY <1>1, <1>2, OthersStill DEF IInv, TypeOK
<1>9. AnswerInv'
  <2>1. \A a \in answer : \A b \in a.body : a.status = 200 => BodyInv(a.call, b)'
    BY <1>8, NothingBegun, BodyStill DEF IInv, TypeOK, AnswerInv
  <2>2. QED
    BY <1>1, <2>1, NothingBegun DEF IInv, TypeOK, AnswerInv
<1>10. OutputInv'
  <2>1. ASSUME NEW d \in Calls, d # c PROVE Claims(d)'
    BY <1>1, <1>8, <2>1, ClaimsStill DEF IInv, TypeOK, OutputInv
  <2>2. Claims(c)'
    BY <1>1 DEF Claims, IInv, TypeOK, Refusals
  <2>3. QED
    BY <2>1, <2>2 DEF OutputInv
<1>11. QED
  BY <1>3, <1>4, <1>5, <1>6, <1>7, <1>9, <1>10 DEF IInv

LEMMA InvokeStep ==
  ASSUME IInv, NEW c \in Calls, invoke(c)
  PROVE  IInv'
<1>1. PICK i \in [tool : Tools, namespace : Options] :
        /\ input' = [input EXCEPT ![c] = i]
        /\ PanicsOnUrl(c) \/ check_text_len(c, i) \/ MissingKey(c) \/ Posts(c, i)
  BY DEF invoke, Options
<1>2. /\ proc = "serving" /\ pc[c] = "idle"
      /\ UNCHANGED <<proc, boot, answer, relayer>>
  BY DEF invoke
<1>3. CASE Posts(c, i)
  BY <1>1, <1>2, <1>3, PostsStep
<1>4. CASE PanicsOnUrl(c)
  BY <1>1, <1>2, <1>4, EndsAtOnce DEF PanicsOnUrl
<1>5. CASE check_text_len(c, i)
  BY <1>1, <1>2, <1>5, EndsAtOnce DEF check_text_len
<1>6. CASE MissingKey(c)
  BY <1>1, <1>2, <1>6, EndsAtOnce DEF MissingKey
<1>7. QED
  BY <1>1, <1>3, <1>4, <1>5, <1>6

LEMMA ProbeStep ==
  ASSUME IInv, NEW c \in Calls, Probe(c)
  PROVE  IInv'
<1>1. PICK version, e : e = health(version) /\ Fails(c, e)
  BY DEF Probe, Fails, Returns
<1>2. \E i \in [tool : Tools \cup {"health"}, namespace : Options] :
        i.tool = "health" /\ input' = [input EXCEPT ![c] = i]
  <2> DEFINE i0 == [input[c] EXCEPT !.tool = "health"]
  <2>1. i0 \in [tool : Tools \cup {"health"}, namespace : Options] /\ i0.tool = "health"
    BY DEF IInv, TypeOK
  <2>2. input' = [input EXCEPT ![c] = i0]
    BY DEF Probe, IInv, TypeOK
  <2>3. QED
    BY <2>1, <2>2
<1>3. \/ e = "panic" /\ from_env = "panic"
      \/ e = "auth" /\ from_env = "keyless"
      \/ e = "unavailable"
      \/ e = "ok" /\ from_env = "signing"
  BY <1>1 DEF health, from_env
<1>4. QED
  BY <1>1, <1>2, <1>3, EndsAtOnce DEF Probe

\* A call that is over takes its answer with it; what it says is shown apart.
LEMMA ReturnsStep ==
  ASSUME IInv, NEW c \in Calls, pc[c] = "posting", NEW o \in Outputs,
         o.is \notin {"none", "panic", "auth"}, Returns(c, o),
         answer' \subseteq answer, \A a \in answer' : a.call # c,
         UNCHANGED <<proc, boot, input, minted, request, relayer, before>>,
         Claims(c)'
  PROVE  IInv'
<1> USE DEF Returns, relayer, boot
<1>1. TypeOK'
  BY DEF IInv, TypeOK
<1>2. ProcInv'
  <2>1. input[c].tool # "health" /\ proc = "serving"
    BY DEF IInv, AnswerInv, ProcInv, Tools
  <2>2. from_env' = from_env /\ classify_key(env.key)' = classify_key(env.key)
    BY DEF from_env, read_validated_private_key
  <2>3. \A d \in Calls : d # c => output'[d] = output[d]
    BY DEF IInv, TypeOK
  <2>4. output'[c] = o
    BY DEF IInv, TypeOK
  <2>5. QED
    BY <2>1, <2>2, <2>3, <2>4 DEF IInv, ProcInv
<1>3. RequestInv'
  BY DEF IInv, TypeOK, RequestInv, Requests
<1>4. JobInv'
  BY DEF IInv, JobInv
<1>5. KeptInv'
  BY DEF IInv, TypeOK, KeptInv
<1>6. \A d \in Calls : d # c => Still(d)
  BY OthersStill DEF IInv, TypeOK
<1>7. AnswerInv'
  <2>1. \A a \in answer' : \A b \in a.body : a.status = 200 => BodyInv(a.call, b)'
    BY <1>6, BodyStill DEF IInv, TypeOK, AnswerInv
  <2>2. QED
    BY <2>1 DEF IInv, TypeOK, AnswerInv
<1>8. OutputInv'
  <2>1. ASSUME NEW d \in Calls, d # c PROVE Claims(d)'
    BY <1>6, <2>1, ClaimsStill DEF IInv, TypeOK, OutputInv
  <2>2. QED
    BY <2>1 DEF OutputInv
<1>9. QED
  BY <1>1, <1>2, <1>3, <1>4, <1>5, <1>7, <1>8 DEF IInv

LEMMA PostFailsStep ==
  ASSUME IInv, NEW c \in Calls, PostFails(c)
  PROVE  IInv'
<1>1. [is |-> "request"] \in Outputs
  BY DEF Outputs, Doubts
<1>2. Claims(c)'
  <2>1. output'[c].is = "request"
    BY DEF PostFails, Fails, Returns, IInv, TypeOK
  <2>2. QED
    BY <2>1 DEF Claims, Refusals
<1>3. QED
  BY <1>1, <1>2, ReturnsStep DEF PostFails, Fails

\* What an Ok has to be for the claims of its tool.
LEMMA OkClaims ==
  ASSUME NEW c \in Calls, (output[c].is = "ok")', \A q \in request' : q.call # c,
         (input[c].tool \in {"recall", "ask"} => Found(c, output[c].memories))',
         (input[c].tool = "recall" => output[c].namespace = resolve(input[c].namespace))',
         (input[c].tool = "analyze" =>
            output[c].job_count \in Nat /\ Counted(c, output[c].job_count))',
         (input[c].tool = "forget" => Cleared(c))',
         (input[c].tool = "stats" => output[c].namespace = resolve(input[c].namespace))'
  PROVE  Claims(c)'
BY DEF Claims, Refusals

\* What each tool makes of the body is an output, and true.
LEMMA ReadsStep ==
  ASSUME IInv, NEW c \in Calls, pc[c] = "posting", NEW b,
         Returns(c, Reads(c, b)), BodyInv(c, b), \A q \in request : q.call # c,
         UNCHANGED <<boot, input, minted, request, relayer, before>>
  PROVE  Reads(c, b) \in Outputs /\ Reads(c, b).is = "ok" /\ Claims(c)'
<1> DEFINE t == input[c].tool
<1>1. t \in Tools /\ input[c].namespace \in Options
  BY DEF IInv, AnswerInv, TypeOK
<1>2. Still(c)
  BY OthersStill DEF Returns, relayer, IInv, TypeOK
<1>3. BodyInv(c, b)' /\ input'[c] = input[c] /\ output'[c] = Reads(c, b)
  BY <1>2, BodyStill DEF Returns, IInv, TypeOK
<1>4. \A q \in request' : q.call # c
  OBVIOUS
<1>5. resolve(input[c].namespace) \in AllNamespaces
  BY <1>1, ResolveType
<1>6. CASE t \in {"recall", "ask"}
  <2>1. b \in [memories : SUBSET Jobs] /\ Found(c, b.memories)'
    BY <1>3, <1>6 DEF BodyInv
  <2>2. /\ Reads(c, b).is = "ok" /\ Reads(c, b).memories = b.memories
        /\ t = "recall" => Reads(c, b).namespace = resolve(input[c].namespace)
    BY <1>6 DEF Reads, recall, ask
  <2>3. Reads(c, b) \in Outputs
    BY <1>5, <1>6, <2>1 DEF Reads, recall, ask, Outputs
  <2>4. Found(c, output[c].memories)'
    BY <1>3, <2>1, <2>2 DEF Found, ForgetOk
  <2>5. (t = "recall" => output[c].namespace = resolve(input[c].namespace))'
    BY <1>3, <2>2
  <2>6. QED
    BY <1>3, <1>4, <1>6, <2>2, <2>3, <2>4, <2>5 DEF Claims, Refusals
<1>7. CASE t = "analyze"
  <2>1. Reads(c, b) = [is |-> "ok", job_count |-> b.job_ids]
    BY <1>7 DEF Reads, analyze
  <2>2. b.job_ids \in 0 .. MAX_FACTS /\ Counted(c, b.job_ids)'
    BY <1>3, <1>7 DEF BodyInv
  <2>3. (output[c].job_count \in Nat /\ Counted(c, output[c].job_count))'
    BY <1>3, <2>1, <2>2, BoundsAssumption DEF Counted
  <2>4. Reads(c, b) \in Outputs /\ Reads(c, b).is = "ok"
    BY <2>1, <2>2 DEF Outputs
  <2>5. QED
    BY <1>3, <1>4, <1>7, <2>2, <2>3, <2>4, OkClaims
<1>8. CASE t = "forget"
  <2>1. Reads(c, b) = [is |-> "ok", deleted |-> b.deleted]
    BY <1>8 DEF Reads, forget
  <2>2. b.deleted \in Nat /\ Cleared(c)'
    BY <1>3, <1>8 DEF BodyInv
  <2>3. Reads(c, b) \in Outputs /\ Reads(c, b).is = "ok"
    BY <2>1, <2>2 DEF Outputs
  <2>4. QED
    BY <1>3, <1>4, <1>8, <2>2, <2>3, OkClaims
<1>9. CASE t = "stats"
  <2>1. Reads(c, b) = [is |-> "ok", memory_count |-> b.memory_count, namespace |-> b.namespace]
    BY <1>9 DEF Reads, stats
  <2>2. /\ b \in [memory_count : Nat, namespace : AllNamespaces]
        /\ b.namespace = resolve(input[c].namespace)
    BY <1>9 DEF BodyInv
  <2>3. (output[c].namespace = resolve(input[c].namespace))'
    BY <1>3, <2>1, <2>2
  <2>4. Reads(c, b) \in Outputs /\ Reads(c, b).is = "ok"
    BY <2>1, <2>2 DEF Outputs
  <2>5. QED
    BY <1>3, <1>4, <1>9, <2>3, <2>4, OkClaims
<1>10. QED
  BY <1>1, <1>6, <1>7, <1>8, <1>9 DEF Tools

LEMMA AnsweredStep ==
  ASSUME IInv, NEW c \in Calls, Answered(c)
  PROVE  IInv'
<1>1. PICK a \in answer :
        /\ a.call = c
        /\ answer' = answer \ {a}
        /\ IF a.status = 200
           THEN \E b \in a.body : Returns(c, Reads(c, b))
           ELSE Fails(c, map_error_response(a.status))
  BY DEF Answered
<1>2. /\ pc[c] = "posting"
      /\ UNCHANGED <<proc, boot, input, minted, request, relayer, before>>
      /\ a.status \in Statuses
  BY <1>1 DEF Answered, IInv, TypeOK
<1>3. /\ \A d \in answer' : d.call # c
      /\ \A q \in request : q.call # c
      /\ a.status = 401 => ~admitted
      /\ a.status \in {400, 401, 429} => \A q \in seen : q.call # c
      /\ a.status = 200 => \A b \in a.body : BodyInv(c, b)
  BY <1>1 DEF IInv, AnswerInv
<1>4. CASE a.status = 200
  <2>1. PICK b \in a.body : Returns(c, Reads(c, b))
    BY <1>1, <1>4
  <2>2. Reads(c, b) \in Outputs /\ Reads(c, b).is = "ok" /\ Claims(c)'
    BY <1>2, <1>3, <1>4, <2>1, ReadsStep
  <2>3. \E o \in Outputs : o.is = "ok" /\ Returns(c, o)
    BY <2>1, <2>2
  <2>4. QED
    BY <1>1, <1>2, <1>3, <2>2, <2>3, ReturnsStep
<1>5. CASE a.status # 200
  <2>1. PICK e \in {"rateLimited", "auth failure", "upstream timeout", "rejected", "unavailable"} :
          /\ e = map_error_response(a.status)
          /\ e = "auth failure" => a.status = 401
          /\ e \in {"rateLimited", "auth failure", "rejected"} => a.status \in {400, 401, 429}
    <3>1. CASE a.status = 429
      BY <3>1 DEF map_error_response
    <3>2. CASE a.status = 401
      BY <3>2 DEF map_error_response
    <3>3. CASE a.status \in {408, 503}
      BY <3>3 DEF map_error_response
    <3>4. CASE a.status = 400
      BY <3>4 DEF map_error_response
    <3>5. a.status \in {400, 401, 408, 429, 503}
      BY <1>2, <1>5 DEF Statuses
    <3>6. QED
      BY <3>1, <3>2, <3>3, <3>4, <3>5
  <2>2. Fails(c, e)
    BY <1>1, <1>5, <2>1
  <2>3. [is |-> e] \in Outputs
    BY <2>1 DEF Outputs, Refusals, Doubts
  <2>4. output'[c].is = e
    BY <2>2 DEF Fails, Returns, IInv, TypeOK
  <2>5. Claims(c)'
    <3>1. e \in Refusals => \A q \in (request \cup seen)' : q.call # c
      <4>1. e \in Refusals => a.status \in {400, 401, 429}
        BY <2>1 DEF Refusals
      <4>2. e \in Refusals => \A q \in request \cup seen : q.call # c
        BY <1>3, <4>1
      <4>3. (request \cup seen)' = request \cup seen
        BY <1>2 DEF relayer
      <4>4. QED
        BY <4>2, <4>3
    <3>2. e = "auth failure" => ~admitted'
      BY <1>2, <1>3, <2>1 DEF boot
    <3>3. (output[c].is # "ok")'
      BY <2>1, <2>4
    <3>4. (output[c].is \in Refusals => \A q \in request \cup seen : q.call # c)'
      BY <2>4, <3>1
    <3>5. (output[c].is = "auth failure" => ~admitted)'
      BY <2>4, <3>2
    <3>6. QED
      BY <3>3, <3>4, <3>5 DEF Claims
  <2>6. [is |-> e].is \notin {"none", "panic", "auth"} /\ Returns(c, [is |-> e])
    BY <2>1, <2>2 DEF Fails
  <2>7. QED
    BY <1>1, <1>2, <1>3, <2>3, <2>5, <2>6, ReturnsStep
<1>6. QED
  BY <1>4, <1>5

-----------------------------------------------------------------------------
(* The relayer.                                                            *)

\* A request is taken from those under way, and answered if its call still
\* waits: what is answered, and what becomes of the jobs, is shown apart.
LEMMA RepliesStep ==
  ASSUME IInv, NEW q \in request, request' = request \ {q},
         NEW status \in Statuses, NEW body \in SUBSET Bodies, Replies(q, status, body),
         UNCHANGED <<proc, boot, pc, input, minted, output, before>>,
         seen \subseteq seen', seen' \subseteq seen \cup {q},
         jobs' \subseteq Jobs, JobInv', KeptInv',
         \A c \in Calls : c # q.call => Still(c),
         status = 401 => ~admitted,
         status \in {400, 401, 429} => seen' = seen,
         status = 200 => \A b \in body : BodyInv(q.call, b)'
  PROVE  IInv'
<1> USE DEF boot
<1> DEFINE a0 == [call |-> q.call, status |-> status, body |-> body]
<1>1. /\ q \in Requests /\ q.call \in Calls
      /\ \A r \in request' : r.call # q.call
      /\ \A r \in seen : r.call # q.call
      /\ \A a \in answer : a.call # q.call
  BY DEF IInv, TypeOK, RequestInv, AnswerInv, Requests
<1>2. /\ answer' = answer \/ (answer' = answer \cup {a0} /\ pc[q.call] = "posting")
      /\ a0 \in [call : Calls, status : Statuses, body : SUBSET Bodies]
  BY <1>1 DEF Replies
<1>3. TypeOK'
  <2>1. answer' \subseteq [call : Calls, status : Statuses, body : SUBSET Bodies]
    BY <1>2 DEF IInv, TypeOK
  <2>2. (request \cup seen)' \subseteq request \cup seen
    OBVIOUS
  <2>3. QED
    BY <2>1, <2>2 DEF IInv, TypeOK
<1>4. ProcInv'
  <2>1. from_env' = from_env /\ classify_key(env.key)' = classify_key(env.key)
    BY DEF from_env, read_validated_private_key
  <2>2. QED
    BY <2>1 DEF IInv, ProcInv
<1>5. RequestInv'
  BY DEF IInv, RequestInv
<1>6. AnswerInv'
  <2>1. \A a \in answer : \A b \in a.body : a.status = 200 => BodyInv(a.call, b)'
    BY <1>1, BodyStill DEF IInv, TypeOK, AnswerInv
  <2>2. /\ \A a, b \in answer' : a.call = b.call => a = b
        /\ \A a \in answer' : pc'[a.call] = "posting" /\ (\A r \in request' : r.call # a.call)
    BY <1>1, <1>2 DEF IInv, AnswerInv
  <2>3. \A a \in answer' :
          /\ a.status = 401 => ~admitted'
          /\ a.status \in {400, 401, 429} => \A r \in seen' : r.call # a.call
    BY <1>1, <1>2 DEF IInv, AnswerInv
  <2>4. \A a \in answer' : a.status = 200 => \A b \in a.body : BodyInv(a.call, b)'
    BY <1>2, <2>1
  <2>5. QED
    BY <2>2, <2>3, <2>4 DEF IInv, AnswerInv
<1>7. OutputInv'
  <2>1. ASSUME NEW c \in Calls, c # q.call PROVE Claims(c)'
    BY <2>1, ClaimsStill DEF IInv, OutputInv
  <2>2. Claims(q.call)'
    <3>1. output[q.call].is \notin Refusals /\ output[q.call].is # "ok"
      BY <1>1 DEF IInv, OutputInv, Claims
    <3>2. QED
      BY <3>1 DEF Claims, Refusals
  <2>3. QED
    BY <2>1, <2>2 DEF OutputInv
<1>8. QED
  BY <1>3, <1>4, <1>5, <1>6, <1>7 DEF IInv

\* A request whose key is known to the relayer is never taken for a replay.
LEMMA NotReplay ==
  ASSUME IInv, NEW q \in request
  PROVE  Authentic(q) <=> admitted
BY DEF IInv, TypeOK, RequestInv, Authentic

LEMMA RefusesStep ==
  ASSUME IInv, NEW q \in request, RelayerRefuses(q)
  PROVE  IInv'
<1>1. PICK status \in {400, 401, 429} :
        Replies(q, status, None) /\ (status = 401 => ~admitted)
  BY NotReplay DEF RelayerRefuses
<1>2. /\ request' = request \ {q}
      /\ UNCHANGED <<proc, boot, pc, input, minted, output, relayer, before>>
  BY DEF RelayerRefuses
<1>3. JobInv' /\ KeptInv' /\ jobs' \subseteq Jobs
  BY <1>2 DEF IInv, TypeOK, JobInv, KeptInv, relayer
<1>4. \A c \in Calls : Still(c)
  BY <1>2 DEF Still, Counted, relayer
<1>5. status \in Statuses /\ status # 200 /\ None \in SUBSET Bodies
  BY DEF Statuses, None
<1>6. QED
  BY <1>1, <1>2, <1>3, <1>4, <1>5, RepliesStep DEF relayer

\* The step of a request that the relayer acts upon without any effect on the jobs.
LEMMA ReadsOnly ==
  ASSUME IInv, NEW q \in request, request' = request \ {q}, seen' = seen \cup {q},
         UNCHANGED <<proc, boot, pc, input, minted, output, jobs, before>>,
         NEW b \in Bodies, BodyInv(q.call, b),
         \/ Replies(q, 200, Some(b))
         \/ \E s \in {408, 503} : Replies(q, s, None)
  PROVE  IInv'
<1>1. JobInv' /\ KeptInv' /\ jobs' \subseteq Jobs
  BY DEF IInv, TypeOK, JobInv, KeptInv
<1>2. \A c \in Calls : Still(c)
  BY DEF Still, Counted
<1>3. PICK s \in {200, 408, 503}, body \in SUBSET Bodies :
        /\ Replies(q, s, body)
        /\ s = 200 => body = {b}
  BY DEF Some, None
<1>4. q.call \in Calls
  BY DEF IInv, TypeOK, Requests
<1>5. BodyInv(q.call, b)'
  BY <1>2, <1>4, BodyStill
<1>6. s \in Statuses /\ s \notin {400, 401, 429}
  BY DEF Statuses
<1>7. QED
  BY <1>1, <1>2, <1>3, <1>5, <1>6, RepliesStep

\* What recall and ask find is of the namespace asked for, and nothing that an
\* earlier forget of it has cleared.
LEMMA FindsStep ==
  ASSUME IInv, NEW q \in request, q.tool \in {"recall", "ask"},
         NEW R \in SUBSET Stored(resolve(q.namespace))
  PROVE  [memories |-> R] \in Bodies /\ BodyInv(q.call, [memories |-> R])
<1> DEFINE c == q.call
<1>1. c \in Calls /\ q.tool = input[c].tool /\ q.namespace = input[c].namespace
  BY DEF IInv, TypeOK, RequestInv, Requests
<1>2. R \in SUBSET Jobs /\ \A j \in R : j \in jobs /\ j.namespace = resolve(input[c].namespace)
  BY <1>1 DEF Stored, IInv, TypeOK
<1>3. ASSUME NEW f \in before[c].over, ForgetOk(f),
             resolve(input[c].namespace) = resolve(input[f].namespace)
      PROVE  R \cap before[f].stored = {}
  <2>1. f \in Calls
    BY <1>1 DEF IInv, TypeOK
  <2>2. Cleared(f)
    BY <1>3, <2>1 DEF IInv, OutputInv, Claims, ForgetOk
  <2>3. QED
    BY <1>2, <1>3, <2>2 DEF Cleared
<1>4. Found(c, R)
  BY <1>2, <1>3 DEF Found
<1>5. [memories |-> R] \in [memories : SUBSET Jobs]
  BY <1>2
<1>6. QED
  BY <1>1, <1>4, <1>5 DEF BodyInv, Bodies

\* stats counts the memories of the namespace asked for.
LEMMA CountsStep ==
  ASSUME IInv, NEW q \in request, q.tool = "stats",
         NEW b, b = [memory_count |-> Cardinality(Stored(resolve(q.namespace))),
                     namespace |-> resolve(q.namespace)]
  PROVE  b \in Bodies /\ BodyInv(q.call, b)
<1>1. /\ q.tool = input[q.call].tool /\ q.namespace = input[q.call].namespace
      /\ q.namespace \in Options
  BY DEF IInv, TypeOK, RequestInv, Requests
<1>2. resolve(q.namespace) \in AllNamespaces
  BY <1>1, ResolveType
<1>3. Cardinality(Stored(resolve(q.namespace))) \in Nat
  BY StoredFinite DEF IInv, JobInv
<1>4. b \in [memory_count : Nat, namespace : AllNamespaces]
  BY <1>2, <1>3
<1>5. QED
  BY <1>1, <1>4 DEF BodyInv, Bodies

\* The memory after forget of namespace ns.
Forgotten(j, ns) == IF j \in Stored(ns) THEN [j EXCEPT !.state = "forgotten"] ELSE j

\* What a forget of the relayer does to the jobs.
LEMMA ForgetsJobs ==
  ASSUME IInv, NEW q \in request, q.tool = "forget", NEW ns, ns = resolve(q.namespace),
         seen' = seen \cup {q}, UNCHANGED <<pc, input, output, before>>,
         jobs' = {Forgotten(j, ns) : j \in jobs}
  PROVE  /\ JobInv' /\ KeptInv' /\ jobs' \subseteq Jobs
         /\ \A c \in Calls : Still(c)
         /\ Cleared(q.call)'
<1>1. \A j \in jobs : j \in Jobs
  BY DEF IInv, TypeOK
<1>2. \A j \in jobs :
        LET k == Forgotten(j, ns) IN
        /\ k \in Jobs /\ k.call = j.call /\ k.fact = j.fact /\ k.namespace = j.namespace
        /\ k.state # j.state => j.state = "stored" /\ k.state = "forgotten" /\ j.namespace = ns
        /\ k.state = j.state => k = j
  BY <1>1 DEF Forgotten, Stored, Jobs
<1>3. \A k \in jobs' : \E j \in jobs : k = Forgotten(j, ns)
  OBVIOUS
<1>4. \A j \in jobs : Forgotten(j, ns) \in jobs'
  OBVIOUS
<1>5. jobs' \subseteq Jobs
  BY <1>2, <1>3
<1>6. \A k \in jobs' : k.state = "stored" => k \in jobs /\ k \notin Stored(ns)
  <2>1. ASSUME NEW j \in jobs, Forgotten(j, ns).state = "stored"
        PROVE  Forgotten(j, ns) = j /\ j \notin Stored(ns)
    <3>1. j \notin Stored(ns)
      BY <1>1, <2>1 DEF Forgotten, Jobs
    <3>2. QED
      BY <3>1 DEF Forgotten
  <2>2. QED
    BY <1>3, <2>1
<1>7. JobInv'
  <2>1. IsFiniteSet(jobs')
    <3> DEFINE F == [j \in jobs |-> Forgotten(j, ns)]
    <3>1. F \in Surjection(jobs, jobs')
      BY <1>3, <1>4 DEF Surjection
    <3>2. QED
      BY <3>1, FS_Surjection DEF IInv, JobInv
  <2>2. \A j, k \in jobs' : j.call = k.call /\ j.fact = k.fact => j = k
    <3> SUFFICES ASSUME NEW j \in jobs', NEW k \in jobs', j.call = k.call, j.fact = k.fact
                 PROVE  j = k
      OBVIOUS
    <3>1. PICK j0 \in jobs : j = Forgotten(j0, ns)
      BY <1>3
    <3>2. PICK k0 \in jobs : k = Forgotten(k0, ns)
      BY <1>3
    <3>3. j0 = k0
      BY <1>2, <3>1, <3>2 DEF IInv, JobInv
    <3>4. QED
      BY <3>1, <3>2, <3>3
  <2>3. ASSUME NEW k \in jobs'
        PROVE  /\ k.call # Other => \E r \in seen' :
                    r.call = k.call /\ r.tool = "analyze" /\ resolve(r.namespace) = k.namespace
               /\ k.state = "forgotten" => \E r \in seen' :
                    r.tool = "forget" /\ resolve(r.namespace) = k.namespace
    <3>1. PICK j \in jobs : k = Forgotten(j, ns)
      BY <1>3
    <3>2. k.call = j.call /\ k.namespace = j.namespace
      BY <1>2, <3>1
    <3>3. k.call # Other => \E r \in seen' :
            r.call = k.call /\ r.tool = "analyze" /\ resolve(r.namespace) = k.namespace
      BY <3>2 DEF IInv, JobInv
    <3>4. CASE k.state = j.state
      BY <3>2, <3>3, <3>4 DEF IInv, JobInv
    <3>5. CASE k.state # j.state
      BY <1>2, <3>1, <3>3, <3>5
    <3>6. QED
      BY <3>4, <3>5
  <2>4. QED
    BY <2>1, <2>2, <2>3 DEF JobInv
<1>8. KeptInv'
  <2>1. ASSUME NEW c \in Calls, NEW j \in before[c].stored
        PROVE  \E k \in jobs' : k.call = j.call /\ k.fact = j.fact /\ k.state # "pending"
    <3>1. PICK k \in jobs : k.call = j.call /\ k.fact = j.fact /\ k.state # "pending"
      BY DEF IInv, KeptInv
    <3>2. QED
      BY <1>2, <1>4, <3>1
  <2>2. QED
    BY <2>1 DEF IInv, KeptInv
<1>9. \A c \in Calls : Still(c)
  <2>1. ASSUME NEW c \in Calls, NEW n, Counted(c, n) PROVE Counted(c, n)'
    <3>1. \A x : (\E j \in jobs : j.call = c /\ x = j.fact)
                 <=> (\E k \in jobs' : k.call = c /\ x = k.fact)
      BY <1>2, <1>3, <1>4
    <3>2. QED
      BY <2>1, <3>1 DEF Counted
  <2>2. ASSUME NEW c \in Calls, NEW j \in before[c].stored, j \in jobs' PROVE j \in jobs
    BY <1>6, <2>2 DEF IInv, KeptInv
  <2>3. QED
    BY <2>1, <2>2 DEF Still
<1>10. Cleared(q.call)'
  <2>1. q.call \in Calls /\ ns = resolve(input[q.call].namespace)
    BY DEF IInv, TypeOK, RequestInv, Requests
  <2>2. \A j \in before[q.call].stored : j.state = "stored"
    BY <2>1 DEF IInv, KeptInv
  <2>3. QED
    BY <1>6, <2>1, <2>2 DEF Cleared, Stored
<1>11. QED
  BY <1>5, <1>7, <1>8, <1>9, <1>10

\* The jobs of a text with n facts.
Facts(q, ns, n) ==
  [call : {q.call}, nonce : {q.nonce}, fact : 1 .. n, namespace : {ns}, state : {"pending"}]

\* What an analyze of the relayer does to the jobs.
LEMMA AnalyzesJobs ==
  ASSUME IInv, NEW q \in request, q.tool = "analyze", NEW ns, ns = resolve(q.namespace),
         NEW n \in 0 .. MAX_FACTS,
         seen' = seen \cup {q}, UNCHANGED <<pc, input, output, before>>,
         jobs' = jobs \cup Facts(q, ns, n)
  PROVE  /\ JobInv' /\ KeptInv' /\ jobs' \subseteq Jobs
         /\ \A c \in Calls : c # q.call => Still(c)
         /\ Counted(q.call, n)'
<1>1. /\ q.call \in Calls /\ q.nonce \in Nat /\ ns \in AllNamespaces
      /\ \A r \in seen : r.call # q.call
  BY ResolveType DEF IInv, TypeOK, RequestInv, Requests
<1>2. \A j \in jobs : j.call # q.call
  BY <1>1, BoundsAssumption DEF IInv, JobInv, Other
<1>3. \A j \in Facts(q, ns, n) :
        /\ j \in Jobs /\ j.call = q.call /\ j.namespace = ns /\ j.state = "pending"
        /\ \A k \in Facts(q, ns, n) : j.fact = k.fact => j = k
  <2>1. 1 .. n \subseteq 1 .. MAX_FACTS
    BY BoundsAssumption
  <2>2. QED
    BY <1>1, <2>1 DEF Facts, Jobs
<1>4. JobInv'
  <2>1. IsFiniteSet(jobs')
    <3> DEFINE G == [i \in 1 .. n |->
                       [call |-> q.call, nonce |-> q.nonce, fact |-> i, namespace |-> ns,
                        state |-> "pending"]]
    <3>1. G \in Surjection(1 .. n, Facts(q, ns, n))
      <4>1. G \in [1 .. n -> Facts(q, ns, n)]
        BY DEF Facts
      <4>2. ASSUME NEW j \in Facts(q, ns, n) PROVE \E i \in 1 .. n : G[i] = j
        <5>1. j.fact \in 1 .. n /\ G[j.fact] = j
          BY <4>2 DEF Facts
        <5>2. QED
          BY <5>1
      <4>3. QED
        BY <4>1, <4>2 DEF Surjection
    <3>2. IsFiniteSet(1 .. n)
      BY FS_Interval
    <3>3. IsFiniteSet(Facts(q, ns, n))
      BY <3>1, <3>2, FS_Surjection
    <3>4. QED
      BY <3>3, FS_Union DEF IInv, JobInv
  <2>2. \A j, k \in jobs' : j.call = k.call /\ j.fact = k.fact => j = k
    BY <1>2, <1>3 DEF IInv, JobInv
  <2>3. ASSUME NEW j \in jobs'
        PROVE  /\ j.call # Other => \E r \in seen' :
                    r.call = j.call /\ r.tool = "analyze" /\ resolve(r.namespace) = j.namespace
               /\ j.state = "forgotten" => \E r \in seen' :
                    r.tool = "forget" /\ resolve(r.namespace) = j.namespace
    BY <1>3 DEF IInv, JobInv
  <2>4. QED
    BY <2>1, <2>2, <2>3 DEF JobInv
<1>5. KeptInv'
  BY DEF IInv, KeptInv
<1>6. jobs' \subseteq Jobs
  BY <1>3 DEF IInv, TypeOK
<1>7. ASSUME NEW c \in Calls, c # q.call PROVE Still(c)
  <2>1. {k \in jobs' : k.call = c} = {k \in jobs : k.call = c}
    BY <1>3, <1>7
  <2>2. ASSUME NEW j \in before[c].stored, j \in jobs' PROVE j \in jobs
    BY <1>3, <2>2 DEF IInv, KeptInv
  <2>3. QED
    BY <2>1, <2>2 DEF Still, Counted
<1>8. Counted(q.call, n)'
  <2>1. {k \in jobs' : k.call = q.call} = Facts(q, ns, n)
    BY <1>2, <1>3
  <2>2. ASSUME NEW i \in 1 .. n PROVE \E j \in Facts(q, ns, n) : i = j.fact
    <3> DEFINE j == [call |-> q.call, nonce |-> q.nonce, fact |-> i, namespace |-> ns,
                     state |-> "pending"]
    <3>1. j \in Facts(q, ns, n) /\ j.fact = i
      BY DEF Facts
    <3>2. QED
      BY <3>1
  <2>3. \A j \in Facts(q, ns, n) : j.fact \in 1 .. n
    BY DEF Facts
  <2>4. QED
    BY <2>1, <2>2, <2>3 DEF Counted
<1>9. QED
  BY <1>4, <1>5, <1>6, <1>7, <1>8

LEMMA ActsStep ==
  ASSUME IInv, NEW q \in request, RelayerActs(q)
  PROVE  IInv'
<1> DEFINE ns == resolve(q.namespace)
           Answers(b) == Replies(q, 200, Some(b)) \/ \E s \in {408, 503} : Replies(q, s, None)
<1>1. /\ request' = request \ {q} /\ seen' = seen \cup {q}
      /\ UNCHANGED <<proc, boot, pc, input, minted, output, before>>
  BY DEF RelayerActs
<1>2. CASE q.tool \in {"recall", "ask"}
  <2>1. PICK R \in SUBSET Stored(ns) : Answers([memories |-> R]) /\ UNCHANGED jobs
    BY <1>2 DEF RelayerActs
  <2>2. [memories |-> R] \in Bodies /\ BodyInv(q.call, [memories |-> R])
    BY <1>2, FindsStep
  <2>3. QED
    BY <1>1, <2>1, <2>2, ReadsOnly
<1>3. CASE q.tool = "stats"
  <2>1. PICK b : /\ b = [memory_count |-> Cardinality(Stored(ns)), namespace |-> ns]
                 /\ Answers(b) /\ UNCHANGED jobs
    BY <1>3 DEF RelayerActs
  <2>2. b \in Bodies /\ BodyInv(q.call, b)
    BY <1>3, <2>1, CountsStep
  <2>3. QED
    BY <1>1, <2>1, <2>2, ReadsOnly
<1>4. CASE q.tool = "forget"
  <2>1. PICK b : /\ b = [deleted |-> Cardinality(Stored(ns))]
                 /\ Answers(b)
                 /\ jobs' = {Forgotten(j, ns) : j \in jobs}
    BY <1>4 DEF RelayerActs, Forgotten
  <2>2. /\ JobInv' /\ KeptInv' /\ jobs' \subseteq Jobs
        /\ \A c \in Calls : Still(c)
        /\ Cleared(q.call)'
    BY <1>1, <1>4, <2>1, ForgetsJobs
  <2>3. b.deleted \in Nat /\ b \in [deleted : Nat]
    BY <2>1, StoredFinite DEF IInv, JobInv
  <2>4. b \in Bodies
    BY <2>3 DEF Bodies
  <2>5. BodyInv(q.call, b)'
    <3>1. input'[q.call].tool = "forget"
      BY <1>1, <1>4 DEF IInv, RequestInv
    <3>2. QED
      BY <2>2, <2>3, <3>1 DEF BodyInv
  <2>6. PICK s \in {200, 408, 503}, body \in SUBSET Bodies :
          Replies(q, s, body) /\ (s = 200 => body = {b})
    BY <2>1, <2>4 DEF Some, None
  <2>7. s \in Statuses /\ s \notin {400, 401, 429}
    BY DEF Statuses
  <2>8. QED
    BY <1>1, <2>2, <2>5, <2>6, <2>7, RepliesStep
<1>5. CASE q.tool = "analyze"
  <2>1. PICK n \in 0 .. MAX_FACTS :
          jobs' = jobs \cup Facts(q, ns, n) /\ Answers([job_ids |-> n])
    BY <1>5 DEF RelayerActs, Facts
  <2>2. /\ JobInv' /\ KeptInv' /\ jobs' \subseteq Jobs
        /\ \A c \in Calls : c # q.call => Still(c)
        /\ Counted(q.call, n)'
    BY <1>1, <1>5, <2>1, AnalyzesJobs
  <2>3. PICK b : b = [job_ids |-> n]
    OBVIOUS
  <2>4. b \in [job_ids : 0 .. MAX_FACTS] /\ b.job_ids = n
    BY <2>3
  <2>5. b \in Bodies
    BY <2>4 DEF Bodies
  <2>6. BodyInv(q.call, b)'
    <3>1. input'[q.call].tool = "analyze"
      BY <1>1, <1>5 DEF IInv, RequestInv
    <3>2. QED
      BY <2>2, <2>4, <3>1 DEF BodyInv
  <2>7. PICK s \in {200, 408, 503}, body \in SUBSET Bodies :
          Replies(q, s, body) /\ (s = 200 => body = {b})
    BY <2>1, <2>3, <2>5 DEF Some, None
  <2>8. s \in Statuses /\ s \notin {400, 401, 429}
    BY DEF Statuses
  <2>9. QED
    BY <1>1, <2>2, <2>6, <2>7, <2>8, RepliesStep
<1>6. q.tool \in Tools
  BY DEF IInv, TypeOK, Requests
<1>7. QED
  BY <1>2, <1>3, <1>4, <1>5, <1>6 DEF Tools

\* A job that ends is not one whose memory a forget has cleared.
LEMMA JobEndsStep ==
  ASSUME IInv, NEW j \in jobs, JobEnds(j)
  PROVE  IInv'
<1> DEFINE k == [j EXCEPT !.state = "stored"]
<1>1. /\ j.state = "pending" /\ j \in Jobs
      /\ jobs' = (jobs \ {j}) \cup {k}
      /\ UNCHANGED <<proc, boot, pc, input, minted, request, answer, output, seen, before>>
  BY DEF JobEnds, client, IInv, TypeOK
<1>2. /\ k \in Jobs /\ k.call = j.call /\ k.fact = j.fact /\ k.namespace = j.namespace
      /\ k.state = "stored"
  BY <1>1 DEF Jobs
<1> HIDE DEF k
<1>3. TypeOK'
  BY <1>1, <1>2 DEF IInv, TypeOK, boot
<1>4. ProcInv'
  <2>1. from_env' = from_env /\ classify_key(env.key)' = classify_key(env.key)
    BY <1>1 DEF from_env, read_validated_private_key, boot
  <2>2. QED
    BY <1>1, <2>1 DEF IInv, ProcInv
<1>5. RequestInv'
  BY <1>1 DEF IInv, RequestInv
<1>6. JobInv'
  <2>1. IsFiniteSet(jobs \ {j})
    BY FS_RemoveElement DEF IInv, JobInv
  <2>2. IsFiniteSet(jobs')
    BY <1>1, <2>1, FS_AddElement
  <2>3. \A x, y \in jobs' : x.call = y.call /\ x.fact = y.fact => x = y
    BY <1>1, <1>2 DEF IInv, JobInv
  <2>4. ASSUME NEW x \in jobs'
        PROVE  /\ x.call # Other => \E r \in seen' :
                    r.call = x.call /\ r.tool = "analyze" /\ resolve(r.namespace) = x.namespace
               /\ x.state = "forgotten" => \E r \in seen' :
                    r.tool = "forget" /\ resolve(r.namespace) = x.namespace
    BY <1>1, <1>2 DEF IInv, JobInv
  <2>5. QED
    BY <2>2, <2>3, <2>4 DEF JobInv
<1>7. KeptInv'
  <2>1. ASSUME NEW c \in Calls, NEW x \in before[c].stored
        PROVE  \E y \in jobs' : y.call = x.call /\ y.fact = x.fact /\ y.state # "pending"
    BY <1>1 DEF IInv, KeptInv
  <2>2. QED
    BY <1>1, <2>1 DEF IInv, KeptInv
<1>8. \A c \in Calls : Still(c)
  <2>1. ASSUME NEW c \in Calls, NEW n, Counted(c, n) PROVE Counted(c, n)'
    <3>1. \A i : (\E x \in jobs : x.call = c /\ i = x.fact)
                 <=> (\E x \in jobs' : x.call = c /\ i = x.fact)
      BY <1>1, <1>2
    <3>2. QED
      BY <2>1, <3>1 DEF Counted
  <2>2. ASSUME NEW c \in Calls, NEW x \in before[c].stored, x \in jobs' PROVE x \in jobs
    <3>1. PICK y \in jobs : y.call = x.call /\ y.fact = x.fact /\ y.state # "pending"
      BY DEF IInv, KeptInv
    <3>2. x = k => y = j
      BY <1>2, <3>1 DEF IInv, JobInv
    <3>3. QED
      BY <1>1, <2>2, <3>1, <3>2
  <2>3. QED
    BY <1>1, <2>1, <2>2 DEF Still
<1>9. AnswerInv'
  <2>1. \A a \in answer : \A b \in a.body : a.status = 200 => BodyInv(a.call, b)'
    BY <1>8, BodyStill DEF IInv, TypeOK, AnswerInv
  <2>2. QED
    BY <1>1, <2>1 DEF IInv, AnswerInv, boot
<1>10. OutputInv'
  BY <1>1, <1>8, ClaimsStill DEF IInv, OutputInv, boot
<1>11. QED
  BY <1>3, <1>4, <1>5, <1>6, <1>7, <1>9, <1>10 DEF IInv

-----------------------------------------------------------------------------

LEMMA Inductive == Spec => []IInv
<1>1. IInv /\ [Next]_vars => IInv'
  <2> SUFFICES ASSUME IInv, [Next]_vars PROVE IInv'
    OBVIOUS
  <2>1. CASE Process
    BY <2>1, ProcessStep
  <2>2. CASE Relayer
    BY <2>2, RefusesStep, ActsStep, JobEndsStep DEF Relayer
  <2>3. ASSUME NEW c \in Calls, invoke(c) \/ Probe(c) \/ Client(c) PROVE IInv'
    BY <2>3, InvokeStep, ProbeStep, AnsweredStep, PostFailsStep DEF Client
  <2>4. CASE UNCHANGED vars
    <3>1. UNCHANGED <<proc, boot, pc, input, client, relayer, before>>
      BY <2>4 DEF vars
    <3>2. (TypeOK /\ ProcInv /\ RequestInv)'
      <4>1. from_env' = from_env /\ classify_key(env.key)' = classify_key(env.key)
        BY <3>1 DEF from_env, read_validated_private_key, boot
      <4>2. QED
        BY <3>1, <4>1 DEF IInv, TypeOK, ProcInv, RequestInv, boot, client, relayer
    <3>3. (JobInv /\ KeptInv)'
      BY <3>1 DEF IInv, JobInv, KeptInv, client, relayer
    <3>4. \A c \in Calls : Still(c)
      BY <3>1 DEF Still, Counted, client, relayer
    <3>5. AnswerInv'
      BY <3>1, <3>4, BodyStill DEF IInv, TypeOK, AnswerInv, boot, client, relayer
    <3>6. OutputInv'
      BY <3>1, <3>4, ClaimsStill DEF IInv, OutputInv, boot, client, relayer
    <3>7. QED
      BY <3>2, <3>3, <3>5, <3>6 DEF IInv
  <2>5. QED
    BY <2>1, <2>2, <2>3, <2>4 DEF Next
<1>2. QED
  BY Initially, <1>1, PTL DEF Spec

-----------------------------------------------------------------------------
(* What the runs check, for every instance.                                *)

\* Every variable of MemWalTools keeps its type, no two requests share a nonce, and a
\* call has an output exactly when it is over.
THEOREM TypeCorrect == Spec => []TypeOK
<1>1. IInv => TypeOK
  BY DEF IInv
<1>2. QED
  BY Inductive, <1>1, PTL

\* A refusal that a call comes back with is true: nothing was done for it, and
\* nothing will be (client.rs, map_error_response).
THEOREM RefusalIsTrue == Spec => []RefusalDidNothing
<1>1. IInv => RefusalDidNothing
  <2> SUFFICES ASSUME IInv, NEW c \in Calls, output[c].is \in Refusals
               PROVE  /\ \A q \in request \cup seen : q.call # c
                      /\ \A j \in jobs : j.call # c
    BY DEF RefusalDidNothing
  <2>1. \A q \in request \cup seen : q.call # c
    BY DEF IInv, OutputInv, Claims
  <2>2. \A j \in jobs : j.call # c
    BY <2>1, BoundsAssumption DEF IInv, JobInv, Other
  <2>3. QED
    BY <2>1, <2>2
<1>2. QED
  BY Inductive, <1>1, PTL

\* A 401 is about the key or the clock, never about a nonce that another request
\* of the process has used (auth.rs, sign_request).
THEOREM NoReplay == Spec => []AuthFailureIsNotReplay
<1>1. IInv => AuthFailureIsNotReplay
  BY DEF IInv, OutputInv, Claims, AuthFailureIsNotReplay
<1>2. QED
  BY Inductive, <1>1, PTL

\* After forget has returned Ok, what it found is not found in its namespace by any
\* recall or ask that is sent (forget.rs, recall.rs, ask.rs).
THEOREM ForgottenStays == Spec => []ForgetClears
<1>1. IInv => ForgetClears
  BY DEF IInv, OutputInv, Claims, Found, ForgetOk, ForgetClears
<1>2. QED
  BY Inductive, <1>1, PTL

\* Results, jobs and deletions are of the namespace that the call named, or of the
\* default one (recall.rs, stats.rs).
THEOREM OneNamespace == Spec => []NamespaceIsTheOneNamed
<1>1. IInv => NamespaceIsTheOneNamed
  <2> SUFFICES ASSUME IInv PROVE NamespaceIsTheOneNamed
    OBVIOUS
  <2>1. ASSUME NEW c \in Calls, output[c].is = "ok"
        PROVE  /\ input[c].tool = "recall" =>
                    \A j \in output[c].memories : j.namespace = output[c].namespace
               /\ input[c].tool = "ask" =>
                    \A j \in output[c].memories : j.namespace = resolve(input[c].namespace)
               /\ input[c].tool = "stats" => output[c].namespace = resolve(input[c].namespace)
    BY <2>1 DEF IInv, OutputInv, Claims, Found
  <2>2. \A q \in seen :
          q.call \in Calls /\ q.tool = input[q.call].tool /\ q.namespace = input[q.call].namespace
    BY DEF IInv, TypeOK, RequestInv, Requests
  <2>3. ASSUME NEW j \in jobs, j.call # Other
        PROVE  j.namespace = resolve(input[j.call].namespace)
    BY <2>2, <2>3 DEF IInv, JobInv
  <2>4. ASSUME NEW j \in jobs, j.state = "forgotten"
        PROVE  \E f \in Calls :
                 /\ input[f] \in [tool : {"forget"}, namespace : Options]
                 /\ resolve(input[f].namespace) = j.namespace
    <3>1. PICK q \in seen : q.tool = "forget" /\ resolve(q.namespace) = j.namespace
      BY <2>4 DEF IInv, JobInv
    <3>2. input[q.call] \in [tool : {"forget"}, namespace : Options]
      BY <2>2, <3>1 DEF IInv, TypeOK
    <3>3. QED
      BY <2>2, <3>1, <3>2
  <2>5. QED
    BY <2>1, <2>3, <2>4 DEF NamespaceIsTheOneNamed
<1>2. QED
  BY Inductive, <1>1, PTL

\* The job_count that analyze returns is the number of jobs of its text, whatever has
\* become of them meanwhile (analyze.rs).
THEOREM JobsCounted == Spec => []AnalyzeCountsItsJobs
<1>1. IInv => AnalyzeCountsItsJobs
  <2> SUFFICES ASSUME IInv, NEW c \in Calls, output[c].is = "ok", input[c].tool = "analyze"
               PROVE  output[c].job_count = Cardinality({j \in jobs : j.call = c})
    BY DEF AnalyzeCountsItsJobs
  <2> DEFINE S == {j \in jobs : j.call = c}
             n == output[c].job_count
             F == [j \in S |-> j.fact]
  <2>1. n \in Nat /\ {j.fact : j \in S} = 1 .. n
    BY DEF IInv, OutputInv, Claims, Counted
  <2>2. \A j, k \in S : j.fact = k.fact => j = k
    BY DEF IInv, JobInv
  <2>3. F \in Bijection(S, 1 .. n)
    <3>1. F \in [S -> 1 .. n] /\ \A i \in 1 .. n : \E j \in S : F[j] = i
      BY <2>1
    <3>2. \A j, k \in S : F[j] = F[k] => j = k
      BY <2>2
    <3>3. QED
      BY <3>1, <3>2 DEF Bijection, Injection, Surjection, IsInjective
  <2>4. IsFiniteSet(S)
    BY FS_Subset DEF IInv, JobInv
  <2>5. Cardinality(1 .. n) = Cardinality(S)
    BY <2>3, <2>4, FS_Bijection DEF ExistsBijection
  <2>6. Cardinality(1 .. n) = n
    BY <2>1, FS_Interval
  <2>7. QED
    BY <2>5, <2>6
<1>2. QED
  BY Inductive, <1>1, PTL

\* A process with one healthy tool has the key and the relayer URL that every call
\* needs, and none of its calls calls a malformed key a missing one (client.rs,
\* from_env and health_check).
THEOREM HealthHonest == Spec => []HealthIsHonest
<1>1. IInv => NoKeyMeansMissing
  <2> SUFFICES ASSUME IInv, NEW c \in Calls, output[c].is = "auth"
               PROVE  classify_key(env.key) = "Missing"
    BY DEF NoKeyMeansMissing
  <2>1. from_env = "keyless" /\ classify_key(env.key) # "Invalid"
    BY DEF IInv, TypeOK, ProcInv
  <2>2. classify_key(env.key) # "Ok"
    BY <2>1 DEF from_env, read_validated_private_key, classify_key, parse_signing_key
  <2>3. QED
    BY <2>1, <2>2 DEF classify_key
<1>2. IInv => HealthIsHonest
  BY <1>1 DEF IInv, TypeOK, ProcInv, HealthIsHonest
<1>3. QED
  BY Inductive, <1>2, PTL

=============================================================================
