----------------------------- MODULE MemWalTools -----------------------------
(***************************************************************************)
(* The process of the memory-memwal tools: how main.rs starts it, how a    *)
(* tool's client comes out of the environment (client.rs), how a request   *)
(* is signed (auth.rs) and answered, and the tools of one request each:    *)
(* recall, ask, analyze, forget and stats.  The relayer and its store of   *)
(* memories are external; jobs of analyze go on after their call.          *)
(***************************************************************************)
EXTENDS Naturals, FiniteSets

CONSTANTS
  Calls,
  Namespaces,   \* what an input may name, besides the default one
  MAX_FACTS     \* bound: facts the relayer finds in one text

ASSUME BoundsAssumption ==
  /\ MAX_FACTS \in Nat \ {0}
  /\ Namespaces # {} /\ "default" \notin Namespaces
  /\ "other" \notin Calls

VARIABLES
  proc,         \* main: "main", "loaded", "serving", "described" or "exited"
  env,          \* the environment variables that from_env reads
  admitted,     \* the relayer knows the key, and the host's clock is right
  pc, input,    \* of a call: where its future is, its tool and namespace
  minted,       \* nonces minted so far
  request,      \* requests under way to the relayer
  answer,       \* answers under way to a call
  output,       \* of a call: its Output, an Err by its MemWalError
  seen,         \* requests the relayer has acted on (its replay cache)
  jobs,         \* the jobs of analyze, with what became of their memories
  before        \* when a search was sent: calls over; a forget: memories stored

client == <<minted, request, answer, output>>
relayer == <<seen, jobs>>
boot == <<env, admitted>>
vars == <<proc, boot, pc, input, client, relayer, before>>

None == {}
Some(x) == {x}
AllNamespaces == Namespaces \cup {"default"}
Tools == {"recall", "ask", "analyze", "forget", "stats"}
TextTools == {"recall", "ask", "analyze"}

KeyText == {"empty", "notHex", "shortHex", "hex32"}
RefusedUrls == {"http", "unparsable", "withPath", "withQuery", "withUser"}
UrlText == {"empty", "https"} \cup RefusedUrls
PinnedVersion == "0.1.0"

-----------------------------------------------------------------------------
(* main: environment, credentials, runtime.                                *)

\* A job that another process has submitted.
Other == "other"
Earlier == [call |-> Other, nonce |-> 0, fact |-> 1,
            namespace |-> CHOOSE n \in Namespaces : TRUE, state |-> "pending"]

Init ==
  /\ proc = "main"
  /\ env \in [key : {None} \cup {Some(k) : k \in KeyText}, url : {"empty"}, insecure : {FALSE}]
             \cup [key : {Some("hex32")}, url : RefusedUrls, insecure : {FALSE}]
             \cup [key : {Some("hex32")}, url : {"http"}, insecure : {TRUE}]
  /\ admitted \in BOOLEAN
  /\ pc = [c \in Calls |-> "idle"]
  /\ input = [c \in Calls |-> [tool |-> "stats", namespace |-> None]]
  /\ minted = 0
  /\ request = {}
  /\ answer = {}
  /\ output = [c \in Calls |-> [is |-> "none"]]
  /\ seen = {}
  /\ jobs = {Earlier}
  /\ before = [c \in Calls |-> [over |-> {}, stored |-> {}]]

\* 32 bytes in hex make a key pair; anything else is an error.
parse_signing_key(key) == key = Some("hex32")

classify_key(key) ==
  IF key \in {None, Some("empty")} THEN "Missing"
  ELSE IF parse_signing_key(key) THEN "Ok"
  ELSE "Invalid"

\* Ok(Some(key)), Ok(None), for which there is one warning, or Err.
read_validated_private_key ==
  CASE classify_key(env.key) = "Ok"      -> env.key
    [] classify_key(env.key) = "Missing" -> None
    [] classify_key(env.key) = "Invalid" -> Some("Err")

\* --meta describes the tools and ends: no environment, no credentials.
Describe ==
  /\ proc = "main"
  /\ proc' = "described"
  /\ UNCHANGED <<boot, pc, input, client, relayer, before>>

\* A .env file adds what the environment lacks.  An exported variable wins, an
\* empty one too; a file that is absent or does not load adds nothing.
load_dotenv_if_present ==
  /\ proc = "main"
  /\ \/ UNCHANGED env
     \/ /\ env.key = None
        /\ \E k \in KeyText : env' = [env EXCEPT !.key = Some(k)]
  /\ proc' = "loaded"
  /\ UNCHANGED <<admitted, pc, input, client, relayer, before>>

\* A malformed key ends the process; one that is missing is only warned about.
validate_credentials_at_startup ==
  /\ proc = "loaded"
  /\ proc' = IF read_validated_private_key = Some("Err") THEN "exited" ELSE "serving"
  /\ UNCHANGED <<boot, pc, input, client, relayer, before>>

-----------------------------------------------------------------------------
(* A client out of the environment, and a signed request.                  *)

\* An empty MEMWAL_SERVER_URL counts as unset: the default is used.
parse_relayer_url(url, insecure) ==
  url \in {"empty", "https"} \/ (url = "http" /\ insecure)

\* from_env: "panic" when the URL is refused, else whether the client can sign.
from_env ==
  IF ~parse_relayer_url(env.url, env.insecure) THEN "panic"
  ELSE IF parse_signing_key(read_validated_private_key) THEN "signing" ELSE "keyless"

\* Mutant of sign_request: one nonce for the client, not one for each request.
sign_request_once(c, i) ==
  [call |-> c, nonce |-> 1, tool |-> i.tool, namespace |-> i.namespace]

\* Mutant of sign_request: forget leaves the namespace out of its body.
sign_request_forget(c, i) ==
  [call |-> c, nonce |-> minted + 1, tool |-> i.tool,
   namespace |-> IF i.tool = "forget" THEN None ELSE i.namespace]

\* Each request has a nonce of its own.
sign_request(c, i) ==
  [call |-> c, nonce |-> minted + 1, tool |-> i.tool, namespace |-> i.namespace]

Returns(c, o) ==
  /\ pc' = [pc EXCEPT ![c] = "returned"]
  /\ output' = [output EXCEPT ![c] = o]

Fails(c, e) == Returns(c, [is |-> e])

Sends(c, i) ==
  /\ minted' = minted + 1
  /\ request' = request \cup {sign_request(c, i)}

Stored(ns) == {j \in jobs : j.state = "stored" /\ j.namespace = ns}

\* The tool is built for the call: a relayer URL that is refused panics.
PanicsOnUrl(c) ==
  /\ from_env = "panic"
  /\ Fails(c, "panic")
  /\ UNCHANGED <<minted, request, before>>

\* check_text_len: more than MAX_TEXT_BYTES is refused before anything is sent.
check_text_len(c, i) ==
  /\ from_env # "panic"
  /\ i.tool \in TextTools
  /\ Fails(c, "config")
  /\ UNCHANGED <<minted, request, before>>

\* signed_headers: a client without a key sends nothing.
MissingKey(c) ==
  /\ from_env = "keyless"
  /\ Fails(c, "auth")
  /\ UNCHANGED <<minted, request, before>>

Posts(c, i) ==
  /\ from_env = "signing"
  /\ Sends(c, i)
  /\ pc' = [pc EXCEPT ![c] = "posting"]
  /\ before' = [before EXCEPT ![c] =
       [over |-> {d \in Calls : pc[d] = "returned" /\ i.tool \in {"recall", "ask"}},
        stored |-> {j \in jobs : j.state = "stored" /\ i.tool = "forget"}]]
  /\ UNCHANGED output

invoke(c) ==
  /\ proc = "serving"
  /\ pc[c] = "idle"
  /\ \E t \in Tools, n \in {None} \cup {Some(x) : x \in Namespaces} :
       LET i == [tool |-> t, namespace |-> n] IN
       /\ input' = [input EXCEPT ![c] = i]
       /\ PanicsOnUrl(c) \/ check_text_len(c, i) \/ MissingKey(c) \/ Posts(c, i)
  /\ UNCHANGED <<proc, boot, answer, relayer>>

-----------------------------------------------------------------------------
(* health(): a key, then the relayer's version.                            *)

\* GET /health, not signed.  No answer, a body that is not JSON or has no
\* version, and another version than the pinned one are errors alike.
health_check(version) == version = Some(PinnedVersion)

\* Mutant of health: validate_key is left out.
health_keyless(version) ==
  IF from_env = "panic" THEN "panic"
  ELSE IF health_check(version) THEN "ok" ELSE "unavailable"

\* What health() of a tool returns: the URL, the key, then the version.
health(version) ==
  IF from_env = "panic" THEN "panic"
  ELSE IF from_env = "keyless" THEN "auth"
  ELSE IF health_check(version) THEN "ok" ELSE "unavailable"

\* A probe of a tool, over in one request that no other is affected by.
Probe(c) ==
  /\ proc = "serving"
  /\ pc[c] = "idle"
  /\ input' = [input EXCEPT ![c].tool = "health"]
  /\ \E version \in {None, Some(PinnedVersion), Some("0.2.0")} : Fails(c, health(version))
  /\ UNCHANGED <<proc, boot, minted, request, answer, relayer, before>>

-----------------------------------------------------------------------------
(* The relayer.  It acts on a request whose key it knows, whose time stamp *)
(* is near its own clock and whose nonce is new to it.                     *)

Authentic(q) == admitted /\ \A r \in seen : r.nonce # q.nonce

\* An omitted namespace.  recall answers for the relayer here: unwrap_or("default").
resolve(namespace) == IF namespace = None THEN "default" ELSE CHOOSE n \in namespace : TRUE

\* Nobody reads the answer to a call that is over.
Replies(q, status, body) ==
  answer' = IF pc[q.call] = "posting"
            THEN answer \cup {[call |-> q.call, status |-> status, body |-> body]}
            ELSE answer

\* 401, 429 and the other refusals come before anything is done.
RelayerRefuses(q) ==
  /\ q \in request
  /\ request' = request \ {q}
  /\ \E status \in IF Authentic(q) THEN {429, 400} ELSE {401} :
       Replies(q, status, None)
  /\ UNCHANGED <<proc, boot, pc, input, minted, output, relayer, before>>

\* The relayer does what is asked for; its answer is the result, or the failure
\* of a component behind which it was done all the same.
RelayerActs(q) ==
  LET ns == resolve(q.namespace)
      Answers(b) == Replies(q, 200, Some(b)) \/ \E s \in {408, 503} : Replies(q, s, None)
  IN /\ q \in request
     /\ Authentic(q)
     /\ request' = request \ {q}
     /\ seen' = seen \cup {q}
     /\ \/ /\ q.tool \in {"recall", "ask"}
           /\ \E R \in SUBSET Stored(ns) : Answers([memories |-> R])
           /\ UNCHANGED jobs
        \/ /\ q.tool = "stats"
           /\ Answers([memory_count |-> Cardinality(Stored(ns)), namespace |-> ns])
           /\ UNCHANGED jobs
        \/ /\ q.tool = "forget"
           /\ jobs' = {IF j \in Stored(ns) THEN [j EXCEPT !.state = "forgotten"] ELSE j : j \in jobs}
           /\ Answers([deleted |-> Cardinality(Stored(ns))])
        \/ /\ q.tool = "analyze"
           /\ \E n \in 0 .. MAX_FACTS :
                LET new == [call : {q.call}, nonce : {q.nonce}, fact : 1 .. n,
                            namespace : {ns}, state : {"pending"}]
                IN jobs' = jobs \cup new /\ Answers([job_ids |-> n])
     /\ UNCHANGED <<proc, boot, pc, input, minted, output, before>>

\* A job stores its memory by itself, long after its call; one that fails is
\* one that never does.
JobEnds(j) ==
  /\ j.state = "pending"
  /\ jobs' = (jobs \ {j}) \cup {[j EXCEPT !.state = "stored"]}
  /\ UNCHANGED <<proc, boot, pc, input, client, seen, before>>

-----------------------------------------------------------------------------
(* The answer, and what each tool makes of it.                             *)

\* Mutant of map_error_response: 408 is a refusal like the other 4xx.
map_error_response_4xx(status) ==
  IF status = 429 THEN "rateLimited"
  ELSE IF status \in {401, 403} THEN "auth failure"
  ELSE IF status = 504 THEN "upstream timeout"
  ELSE IF status \in 400 .. 499 THEN "rejected"
  ELSE "unavailable"

map_error_response(status) ==
  IF status = 429 THEN "rateLimited"
  ELSE IF status \in {401, 403} THEN "auth failure"
  ELSE IF status \in {408, 504} THEN "upstream timeout"
  ELSE IF status \in 400 .. 499 THEN "rejected"
  ELSE "unavailable"

\* recall: the results, and the namespace that the input named.
recall(c, body) ==
  [is |-> "ok", memories |-> body.memories, namespace |-> resolve(input[c].namespace)]

\* ask: the memories the answer rests on.
ask(body) == [is |-> "ok", memories |-> body.memories]

\* analyze: the number of jobs; none of them is waited for.
analyze(body) == [is |-> "ok", job_count |-> body.job_ids]

forget(body) == [is |-> "ok", deleted |-> body.deleted]

\* stats: the figures, and the namespace as the relayer understood it.
stats(body) ==
  [is |-> "ok", memory_count |-> body.memory_count, namespace |-> body.namespace]

Reads(c, body) ==
  CASE input[c].tool = "recall"  -> recall(c, body)
    [] input[c].tool = "ask"     -> ask(body)
    [] input[c].tool = "analyze" -> analyze(body)
    [] input[c].tool = "forget"  -> forget(body)
    [] input[c].tool = "stats"   -> stats(body)

\* The tools of a finished call: what came in, or what it comes to as an Err.
Answered(c) ==
  /\ pc[c] = "posting"
  /\ \E a \in answer :
       /\ a.call = c
       /\ answer' = answer \ {a}
       /\ IF a.status = 200
          THEN \E b \in a.body : Returns(c, Reads(c, b))
          ELSE Fails(c, map_error_response(a.status))
  /\ UNCHANGED <<proc, boot, input, minted, request, relayer, before>>

\* Mutant of PostFails: the request is sent again, with a new nonce.
PostFails_resends(c) ==
  /\ pc[c] = "posting"
  /\ minted < 2 * Cardinality(Calls)
  /\ Sends(c, input[c])
  /\ UNCHANGED <<proc, boot, pc, input, answer, output, relayer, before>>

\* Mutant of PostFails: no time limit, only an answer ends the request.
PostFails_waits(c) ==
  /\ pc[c] = "posting"
  /\ \E a \in answer : a.call = c
  /\ Fails(c, "request")
  /\ answer' = {a \in answer : a.call # c}
  /\ UNCHANGED <<proc, boot, input, minted, request, relayer, before>>

\* No answer within the time limit, or a body that does not parse: the request
\* may have been acted upon, or still be.
PostFails(c) ==
  /\ pc[c] = "posting"
  /\ Fails(c, "request")
  /\ answer' = {a \in answer : a.call # c}
  /\ UNCHANGED <<proc, boot, input, minted, request, relayer, before>>

-----------------------------------------------------------------------------

Process == Describe \/ load_dotenv_if_present \/ validate_credentials_at_startup
Client(c) == Answered(c) \/ PostFails(c)
Relayer ==
  \/ \E q \in request : RelayerRefuses(q) \/ RelayerActs(q)
  \/ \E j \in jobs : JobEnds(j)

Next == Process \/ Relayer \/ \E c \in Calls : invoke(c) \/ Probe(c) \/ Client(c)

\* A request ends by the client's 30 s limit at the latest; nothing is assumed
\* of the relayer.
Spec == Init /\ [][Next]_vars /\ \A c \in Calls : WF_vars(Client(c))

-----------------------------------------------------------------------------

Jobs ==
  [call : Calls \cup {Other}, nonce : Nat, fact : 1 .. MAX_FACTS, namespace : AllNamespaces,
         state : {"pending", "stored", "forgotten"}]
Options == {None} \cup {Some(x) : x \in Namespaces}
Requests == [call : Calls, nonce : Nat, tool : Tools, namespace : Options]
Bodies ==
  [memories : SUBSET Jobs] \cup [memory_count : Nat, namespace : AllNamespaces]
    \cup [deleted : Nat] \cup [job_ids : 0 .. MAX_FACTS]
Refusals == {"panic", "config", "auth", "auth failure", "rateLimited", "rejected"}
Doubts == {"request", "upstream timeout", "unavailable"}
Statuses == {200, 400, 401, 408, 429, 503}
Outputs ==
  [is : {"none", "ok"} \cup Refusals \cup Doubts]
    \cup [is : {"ok"}, memories : SUBSET Jobs]
    \cup [is : {"ok"}, memories : SUBSET Jobs, namespace : AllNamespaces]
    \cup [is : {"ok"}, memory_count : Nat, namespace : AllNamespaces]
    \cup [is : {"ok"}, deleted : Nat]
    \cup [is : {"ok"}, job_count : 0 .. MAX_FACTS]

TypeOK ==
  /\ proc \in {"main", "loaded", "serving", "described", "exited"}
  /\ env \in [key : {None} \cup {Some(k) : k \in KeyText}, url : UrlText, insecure : BOOLEAN]
  /\ admitted \in BOOLEAN
  /\ pc \in [Calls -> {"idle", "posting", "returned"}]
  /\ input \in [Calls -> [tool : Tools \cup {"health"}, namespace : Options]]
  /\ minted \in Nat
  /\ request \cup seen \subseteq Requests
  /\ \A q, r \in request \cup seen : q.nonce = r.nonce => q = r
  /\ answer \subseteq [call : Calls, status : Statuses, body : SUBSET Bodies]
  /\ output \in [Calls -> Outputs]
  /\ \A c \in Calls : output[c].is = "none" <=> pc[c] # "returned"
  /\ jobs \subseteq Jobs
  /\ before \in [Calls -> [over : SUBSET Calls, stored : SUBSET Jobs]]

\* An Err that says the request was refused, here or by the relayer, is true:
\* the relayer has done nothing for the call and will not do it later.  What
\* may have been done comes back as a timeout, unavailable or a failed request.
RefusalDidNothing ==
  \A c \in Calls : output[c].is \in Refusals =>
    /\ \A q \in request \cup seen : q.call # c
    /\ \A j \in jobs : j.call # c

\* The relayer refuses the signature of a request only when the key or the
\* host's clock is at fault: no two requests of the process share a nonce, so
\* none is taken for a replay of another, whatever the order they arrive in.
AuthFailureIsNotReplay ==
  \A c \in Calls : output[c].is = "auth failure" => ~admitted

\* "key is not set or empty" is what a call says only when that is so: with a
\* malformed key the process does not get as far as serving a call.
NoKeyMeansMissing ==
  \A c \in Calls : output[c].is = "auth" => classify_key(env.key) = "Missing"

\* What was stored in a namespace before forget was sent is not found there by
\* a recall or ask sent after forget returned Ok.  (What was still a job then
\* may be: forget waits for no job.)
ForgetClears ==
  \A f, r \in Calls :
    (/\ output[f].is = "ok" /\ input[f].tool = "forget"
     /\ output[r].is = "ok" /\ input[r].tool \in {"recall", "ask"}
     /\ f \in before[r].over
     /\ resolve(input[r].namespace) = resolve(input[f].namespace)) =>
       output[r].memories \cap before[f].stored = {}

\* An omitted namespace means the same to the tools, which answer for the
\* relayer (recall), and to the relayer, which does the work: results, jobs and
\* deletions are those of the namespace that the output names.
NamespaceIsTheOneNamed ==
  /\ \A c \in Calls : output[c].is = "ok" =>
       /\ input[c].tool = "recall" =>
            \A j \in output[c].memories : j.namespace = output[c].namespace
       /\ input[c].tool = "ask" =>
            \A j \in output[c].memories : j.namespace = resolve(input[c].namespace)
       /\ input[c].tool = "stats" => output[c].namespace = resolve(input[c].namespace)
  /\ \A j \in jobs :
       /\ j.call # Other => j.namespace = resolve(input[j.call].namespace)
       /\ j.state = "forgotten" => \E f \in Calls :
            input[f] \in [tool : {"forget"}, namespace : Options]
              /\ resolve(input[f].namespace) = j.namespace

\* job_count is the number of jobs that the relayer has of this call.
AnalyzeCountsItsJobs ==
  \A c \in Calls : output[c].is = "ok" /\ input[c].tool = "analyze" =>
    output[c].job_count = Cardinality({j \in jobs : j.call = c})

\* What the tools say of their environment is so: after one has reported itself
\* healthy no call of the process fails for want of a key or of a relayer URL (what
\* from_env reads does not change while the process serves), and none says that the
\* key is missing when it is malformed.
HealthIsHonest ==
  /\ \A h \in Calls : input[h].tool = "health" /\ output[h].is = "ok" =>
       \A c \in Calls : output[c].is \notin {"panic", "auth"}
  /\ NoKeyMeansMissing

\* A call that has sent its request returns, whatever the relayer does.
CallReturns == \A c \in Calls : pc[c] = "posting" ~> pc[c] = "returned"

-----------------------------------------------------------------------------
(* Why the above holds: what is true between any two steps.                 *)

\* A client is used only by a process that serves, and not with a malformed key.
ProcInv ==
  /\ proc # "serving" => \A c \in Calls : pc[c] = "idle"
  /\ proc = "serving" => classify_key(env.key) # "Invalid"
  /\ \A c \in Calls :
       /\ output[c].is = "panic" => from_env = "panic"
       /\ output[c].is = "auth" => from_env = "keyless"
       /\ input[c].tool = "health" /\ output[c].is = "ok" => from_env = "signing"

\* A call sends one request, with the call's own input and a nonce of its own.
RequestInv ==
  /\ \A q \in request \cup seen :
       /\ pc[q.call] # "idle"
       /\ q.nonce <= minted
       /\ q.tool = input[q.call].tool /\ q.namespace = input[q.call].namespace
  /\ \A q, r \in request \cup seen : q.call = r.call => q = r
  /\ request \cap seen = {}

\* Each job is of one fact of the text of a request that was acted on, and what is
\* forgotten was in the namespace of a forget that was acted on.
JobInv ==
  /\ IsFiniteSet(jobs)
  /\ \A j, k \in jobs : j.call = k.call /\ j.fact = k.fact => j = k
  /\ \A j \in jobs :
       /\ j.call # Other => \E q \in seen :
            q.call = j.call /\ q.tool = "analyze" /\ resolve(q.namespace) = j.namespace
       /\ j.state = "forgotten" => \E q \in seen :
            q.tool = "forget" /\ resolve(q.namespace) = j.namespace

\* A memory that was stored once is stored or forgotten for ever.
KeptInv ==
  \A c \in Calls :
    /\ \A f \in before[c].over : pc[f] = "returned"
    /\ \A j \in before[c].stored :
         /\ j.state = "stored"
         /\ \E k \in jobs : k.call = j.call /\ k.fact = j.fact /\ k.state # "pending"

\* What a body, or the output made of it, says to call c.
Cleared(f) ==
  \A j \in before[f].stored : j.namespace = resolve(input[f].namespace) => j \notin jobs
ForgetOk(f) == input[f].tool = "forget" /\ output[f].is = "ok"
Found(c, memories) ==
  /\ \A j \in memories : j.namespace = resolve(input[c].namespace)
  /\ \A f \in before[c].over :
       ForgetOk(f) /\ resolve(input[c].namespace) = resolve(input[f].namespace) =>
         memories \cap before[f].stored = {}
Counted(c, n) == {j.fact : j \in {k \in jobs : k.call = c}} = 1 .. n

BodyInv(c, b) ==
  /\ input[c].tool \in {"recall", "ask"} => b \in [memories : SUBSET Jobs] /\ Found(c, b.memories)
  /\ input[c].tool = "analyze" => b \in [job_ids : 0 .. MAX_FACTS] /\ Counted(c, b.job_ids)
  /\ input[c].tool = "forget" => b \in [deleted : Nat] /\ Cleared(c)
  /\ input[c].tool = "stats" =>
       /\ b \in [memory_count : Nat, namespace : AllNamespaces]
       /\ b.namespace = resolve(input[c].namespace)

AnswerInv ==
  /\ \A a, b \in answer : a.call = b.call => a = b
  /\ \A a \in answer :
       /\ pc[a.call] = "posting"
       /\ \A q \in request : q.call # a.call
       /\ a.status = 401 => ~admitted
       /\ a.status \in {400, 401, 429} => \A q \in seen : q.call # a.call
       /\ a.status = 200 => \A b \in a.body : BodyInv(a.call, b)
  /\ \A c \in Calls : pc[c] = "posting" => input[c].tool \in Tools

Claims(c) ==
  /\ output[c].is \in Refusals => \A q \in request \cup seen : q.call # c
  /\ output[c].is = "auth failure" => ~admitted
  /\ output[c].is = "ok" =>
       /\ \A q \in request : q.call # c
       /\ input[c].tool \in {"recall", "ask"} => Found(c, output[c].memories)
       /\ input[c].tool = "recall" => output[c].namespace = resolve(input[c].namespace)
       /\ input[c].tool = "analyze" =>
            output[c].job_count \in Nat /\ Counted(c, output[c].job_count)
       /\ input[c].tool = "forget" => Cleared(c)
       /\ input[c].tool = "stats" => output[c].namespace = resolve(input[c].namespace)

OutputInv == \A c \in Calls : Claims(c)

=============================================================================
