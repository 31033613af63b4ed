# TLA+ models of nexus-tools

`nexus-tools` is the set of off-chain tools that Talus runs for its Nexus
workflows, and the CI pipeline that builds, registers and deploys them.  A tool
is a small HTTP server (`nexus_toolkit::bootstrap!`) that offers one or more
*invocations*: JSON in, an `Ok`/`Err` variant out, over a third-party API.  A
Nexus workflow branches on the variant, so what a variant *means* (is the memory
stored? may the step be retried?) is the contract of each tool.

This directory holds TLA+ modules translated from the source, the TLC
configurations that check them on small instances, and theorems about them that
TLAPS checks for every value of the constants.  `PROJECT.json` maps each
definition to the lines it models.

## 1. Inventory

| Part (under `src/`) | State it keeps | Operations | What is hard about it |
|---|---|---|---|
| `offchain/tools/memory-memwal`: **remember**, **remember_bulk** | per call: the job ids, the delay and deadline of a polling loop, a cache of terminal reports; in the relayer: the jobs | `invoke`, `MemWalClient::{remember, poll_job, remember_bulk, poll_bulk_jobs, poll_bulk_status_once}` | the job runs in the relayer whatever becomes of the call: answers late, lost or unreadable, futures dropped at an await, partly failed batches, a deadline racing the last answer |
| memory-memwal: recall, ask, analyze, forget, stats | none; in the relayer: the memories of a namespace and the jobs | one signed request each; `analyze` returns a number of jobs and does not wait | what a caller may conclude about jobs still under way; an omitted namespace |
| memory-memwal: signing and key validation (`auth.rs`, `main.rs`, `classify_key`, `signed_headers`, `map_error_response`) | the environment read at start-up and by each call; a fresh nonce and timestamp per request | `main`, `from_env`, `sign_request`, `post`, `get`, `validate_credentials_at_startup`, `health_check` | the relayer's replay cache, clock skew, a client without a key, a status that does not say whether anything was done |
| `offchain/tools/social-twitter`: **media upload** | per call: the upload session in X, the next segment, the attempts of the STATUS loop | `upload_media`: INIT, APPEND*, FINALIZE, STATUS* | a sequence of requests any of which fails; asynchronous processing; chunk arithmetic at its limits |
| social-twitter: client and errors (`twitter_client.rs`, `error.rs`, `auth.rs`) | none | `make_request`, `parse_twitter_response`, `to_error_response` | an error is classified by substrings of titles and types; a 200 may carry errors; an answer may break off after the request was carried out |
| social-twitter: 32 tweet, user, list and direct message tools | none; in Twitter: the account they act on | validate, one request, map the answer | each reads the answer in its own way, some without the shared code; others change the account; a workflow calls again |
| `offchain/tools/storage-walrus`: upload_json, upload_file, publisher retry | per call: the attempt, the bytes it sends; outside: the publisher, Sui's view of new blobs, the files | one PUT, and one more after a delay if the first got the 500 of a publisher that stored the blob without seeing it | a retry of an upload that did succeed; a file that changes between the attempts |
| storage-walrus: read_json, read_file, verify_blob, endpoint policy | the addresses pinned when the client is built | resolve, check, pin, connect; read-json returns a reference with a digest | DNS and aggregators that answer differently the next time |
| social-twitter: the 16 reads (`models.rs` and the tools' `Input`s and queries) | none | options to query, page to structs | sixteen builders written by hand; three models of a user; serde drops what no struct names; next tokens |
| storage-walrus: publisher on Cloud Run | an identity token in the client's headers | mint for the publisher's URL, build the client, send | to whom else the header goes |
| `offchain/tools/exchanges-coinbase` | none | three price tools | three normalisations of a pair; which of status, body and errors is read first; midnight |
| `offchain/tools/math` | none | `add`, `mul`, `cmp`, `sum` | the ends of 64 bits, on the way as well |
| `offchain/tools/templating-jinja` | none | `render` | an output bounded before it is evaluated, by case analysis of operators and filters |
| `offchain/tools/bench` | none | sleep, draw, answer | limits that meet: inline size, sleep, rate |
| `.github/workflows`: `ci.yml` and the workflows it calls | image registries; secrets: signing keys, toolkit config; bucket: Cloud Run configs, registration records; the chain: tools and keys; Cloud Run | discover, deploy, prepare, register, trigger-tf-apply, readiness | a crash between a chain call and its record; re-runs; what an older run, or an older `NEXUS_TAG`, left behind |
| `.github/workflows`: pre-commit, coverage, audit, docs | none | reports | - |

Components interact in three ways: a tool calls a third-party service over HTTP
and the service goes on by itself (MemWal's relayer, X's processing, Walrus'
publisher); tools of one workflow share that service's state (a `remember`
followed by a `recall`); the pipeline's jobs hand files and on-chain objects to
each other.

### What makes each of them correct

* **remember / remember_bulk**: `Ok` is said only of what is durably stored, with
  the blob ids in the order of the items; an error that settles the call is never
  followed by a write; the call always ends, within its budget and one poll; a
  timeout is said only of a job that is not over.
* **media upload**: a media id is returned only after FINALIZE of all segments;
  with `optimistic_upload = false` only after processing succeeded; at most 999
  segments, each within the limit; the STATUS loop ends.
* **Twitter tools**: ok and its flag say what was done to the account; the kinds a
  workflow may retry are not given to a request that was carried out; `not_found`
  means that something was missing; several ids are answered wholly or not at all.
* **Walrus uploads**: a blob id is returned only of stored content; a retry never pays
  for a second Blob object; a validation error of upload-json means that nothing was
  stored (of upload-file it does not).
* **Walrus reads**: a connection goes to an address that was checked, and only reserved
  addresses are refused; what the next tool decodes is what was validated; the tool's
  identity goes to its publisher alone.
* **one-request memory tools**: a refusal did nothing; what `forget` found stays gone;
  results, jobs and deletions are of the namespace that was named; a healthy tool has
  what its calls need.
* **Twitter reads**: what is given is asked, once; what is asked arrives where a struct has
  a place for it; whoever pages sees every item once.
* **Coinbase, math, Jinja, bench**: the blame and the data are true; arithmetic is exact;
  an output is within its limit; the load is the one asked for.
* **pipeline**: what a green run deployed is registered, on record and signs with
  the registered key; keys that a run generated are never replaced, and the outdated
  ones of an earlier pipeline once; services get keys that are registered; a failed run
  can be finished; readiness refuses what was not registered.

## 2. Modules

```
PollBackoff        the clock arithmetic of the two polling loops
MemWalApi          what tools and relayer say to each other about jobs
DurableWrite       the promise to the caller of a storing tool (abstract)
RememberTool       remember.rs + MemWalClient::{remember, poll_job}           => DurableWrite
RememberBulkTool   remember_bulk.rs + MemWalClient::{remember_bulk, poll_bulk_jobs} => DurableWrite
MediaChunks        how a media is cut into segments (calculate_optimal_chunk_size)
MediaPromise       the promise to the caller of an upload (abstract)
MediaUpload        media/upload_media.rs and X's upload session               => MediaPromise
MCMediaUpload      the inputs MediaUpload is checked with
TwitterApi         error.rs and twitter_client.rs: what an answer of Twitter is taken for
TwitterTools       the 32 other social-twitter tools, Twitter and the workflow
WalrusUpload       upload_json.rs, upload_file.rs, with_publisher_retry; the publisher and Sui
MemWalTools        main.rs, auth.rs, from_env, health, recall, ask, analyze, forget, stats; the relayer
EndpointPolicy     utils.rs: which URLs and addresses of a caller are talked to
WalrusRead         read_json.rs, read_file.rs, verify_blob.rs; DNS and the leader  (uses EndpointPolicy)
PublisherClient    client.rs: the clients and the identity token of a publisher on Cloud Run
TwitterModels      models.rs: the fields that can be asked for and those the structs take
TwitterReads       options, queries, pages and paging of the 16 reads       (uses TwitterModels)
CoinbaseTools, MathTools, JinjaTool, BenchLoad   one tool crate each
ToolServers        one call of any server without state of its own: composes the nine above
MCToolServers      the inputs ToolServers is checked with
DeployPipeline     ci.yml with deploy, prepare, register, readiness and trigger-tf-apply
MCDeployPipeline   the repository DeployPipeline is checked with
RememberTool_proofs, RememberBulkTool_proofs, MediaUpload_proofs, MemWalTools_proofs,
TwitterTools_proofs, WalrusUpload_proofs, DeployPipeline_proofs, ToolServers_proofs   theorems
```

### `RememberTool`, `RememberBulkTool`

A call is an async function; an action is what it does between two awaits.

| Action | Code |
|---|---|
| `RefuseBatch`, `RefuseText`, `RefuseUnsigned` | the checks before anything is sent: batch size (`remember_bulk.rs`), `check_text_len`, `signed_headers` without a key |
| `PostRemember` / `PostBulk`, `Accepted`, `PostFails` | the POST leaves; its 202 is read; it fails (429: refused; anything else: nothing is known) |
| `AskStatus(es)` | top of the loop: `sleep(jittered(delay))`, then the request |
| `StatusFails`/`StatusesFail` | `?` on `get`/`post` inside the loop: no retry |
| `StatusDone`, `StatusRefused`, `StatusInProgress` | the `match` of `poll_job`, and the deadline after it |
| `StatusesUnreadable`, `PastDeadline`, `KeepPolling`, `Assemble` | the body of `poll_bulk_jobs`: a job missing from the answer or in an unknown status; the deadline; the next round; all jobs terminal |
| `Drop` | the future is dropped at an await |
| `RelayerAccepts`, `RelayerWorks`, `RelayerAnswers` | the relayer, outside this repository: modelled from what `client.rs` sends and expects |

`pc` is the await the call is suspended at, `delay` and `elapsed` are the
loop's `delay` and the time since `deadline` was computed, `terminal` is the
`HashMap` of `poll_bulk_jobs`, `outcome`/`blob_id(s)` are the tool's `Output`.
`inTransit` and `job` are the network and the relayer.

*Abstracted*: texts and namespaces (a call stands for its content); the wording
of errors (an `Err` is the `MemWalError` behind it); headers and signatures. A
request's latency is any value up to the client's time limit, and the sleep any
value `jittered` can return.  Time passes only in calls that poll: the POST comes
before `deadline` is computed.  *Assumed of the relayer*: one job id per item, in
order; an accepted job ends as done or failed and then stays; the body of an
answer may leave out a job or its blob id and may name a status the tool does
not know; a 429 to the POST means that nothing was accepted.

**The promise** (`DurableWrite`): `Ok` carries one blob per item, in order, and is
said when every item is durable.  An error is *settled* (refused before the POST,
or a failed job: nothing of the call is stored after it) or leaves the call *in
doubt* (time-out, dropped future, transport or relayer error: items may still be
stored, with nobody waiting).  The refinement maps `durable` to the jobs that are
done and `verdict` to `Verdict(c)`, so that the module says which `MemWalError`s a
workflow may take as final.  `rateLimited` is not one: a 429 to a status request
is the same `MemWalError::RateLimited` as a 429 to the POST.

### `MediaChunks`, `MediaUpload`

| Action | Code |
|---|---|
| `Refuse` | `base64::decode`, the empty media, more than 999 chunks |
| `SendInit`, `NextSegment` | INIT, the `for` over `media_data.chunks(..)`, FINALIZE: each sent when the one before it was answered |
| `FinalizeEnds`, `FinalizeWaits` | the end of `upload_media`: whether to wait |
| `StatusEnds`, `StatusWaits`, `AskAgain` | the body of `wait_for_processing_completion` |
| `RequestFails`, `Drop` | `?` on any of the requests; the future dropped at an await |
| `XHandles`, `XProcesses` | X, outside this repository: what the requests ask for, and a media processed on its own |

`pc` is the request the call waits for, `segment` the loop's `i`, `attempts` the
local of the STATUS loop.  `inFlight` holds requests X may still handle, also those
the client has given up; `total`, `segments`, `finalized`, `state` are X's session.
The model's X is lenient: it takes any segment at any time and finalizes a media
with holes, so that it is the tool that has to get it right.  A media is its
size, and a segment the range of bytes it holds.  `MediaChunks` is the arithmetic of
the source with the source's constants; `TwitterClient` and the kinds of errors
are abstracted to "the request failed".

**The promise** (`MediaPromise`): `Ok` is said of a media X has whole, and of a
processed one if the caller waits; "processing failed" and the refusals are final;
any other error may leave a media that X has or will have.

### `TwitterApi`, `TwitterTools`

| Action | Code |
|---|---|
| `Send` | a workflow calls a tool; the input passes, the request leaves |
| `RefuseInput` | `validate` of the tools that have one; nothing is sent |
| `FollowUser`, ..., `GetConversationMessagesById` | one for each tool: the answer is read and the `Output` made of it |
| `WorkflowRetries` | the workflow calls the same tool with the same input again, after an error of a kind in `RetryKinds` |
| `NeverArrives`, `Refuse`, `Carry`, `Decline`, `Show`, `Others` | Twitter, outside this repository: the request is lost, refused with an error in any of the forms `error.rs` reads, carried out, not carried out (or held back by a protected account), answered; and what other people publish and delete |

Each answer may also be cut off, broken or late on its way back.  `ParseTwitterResponse`,
`ApiError`, `StatusError`, `NetworkError` and `ClientResult` are the functions of those
names; `RawResult` is what six tools do with the bare JSON instead, whose errors
have no kind ("none").  A title or a type is abstracted to the substring the code finds
in it, a body to whether it parses, fits, and has a code, a detail, errors or data.
`applied[c]` counts how often Twitter carried the request of `c` out, `shown[c]` is what
there was of its ids when Twitter served it, `cause[c]` why Twitter refused: what a tool
says is compared with these.  The names of the flags are those of the code: `unfollowed`
and `liked` turn Twitter's flag round, `retweeted` and `is_member` do not.  *Assumed of
Twitter*: it answers `missing` only of something missing; a 503 may come of a request that
is still carried out; an OAuth 1.0a signature is made over the query as well.

### `WalrusUpload`

| Action | Code |
|---|---|
| `Refuse` | not JSON; a path outside `WALRUS_UPLOAD_ROOT`; no publisher configured |
| `Attempt` | the closure given to `with_publisher_retry`: upload-json sends the bytes of the request, upload-file what the file holds *now* |
| `Retry`, `RetryDue` | `is_transient_publisher_500` on the first attempt; the sleep of `publisher_retry_delay` |
| `Succeeds`, `NoResult`, `Fails`, `FileGone` | `newly_created`, `already_certified`; a 200 with neither (a *network* error of upload-json, a *validation* error of upload-file); any other failure; the file cannot be read.  The SDK itself fails on a 200 with neither, so that `NoResult` allows more than happens today |
| `ConnectionBreaks`, `Drop` | no answer; the future dropped, or the tool's own time limit |
| `PublisherHandles`, `PutIsLost`, `FileChanges`, `Tick` | the publisher, the network, the files and time |

A blob id stands for its content.  `certified` is what is stored; `lag[x]` is how
long a lookup may still miss a new blob, which is why the publisher stores it and
then answers 500; `minted[c]` counts the Blob objects the PUTs of a call created and
paid for.  The publisher handles a PUT after its call has gone, and answers anything to a
PUT it does not know.  `UploadAssumption` says that the lag is at most the retry
delay, as the comment in client.rs:342 does; `WALRUS_PUBLISHER_RETRY_DELAY_SECS` may
be set to 0 and break it (the mutant `RetryDue_at_once`).

### `MemWalTools`

| Action | Code |
|---|---|
| `Describe`, `load_dotenv_if_present`, `validate_credentials_at_startup` | `main`: `--meta` and exit; the environment; a malformed key ends the process, a missing one is only warned about |
| `invoke` | a tool is called: the panic on an unusable relayer URL, `check_text_len`, the missing key of `signed_headers`, or a signed request leaves |
| `Probe` | `health`: `from_env`, then the relayer's version against the pinned one |
| `Answered` | the 200 is read by the tool; anything else goes through `map_error_response` |
| `PostFails` | `?` on `post`/`get`: time limit, broken connection, a body that does not parse |
| `RelayerRefuses`, `RelayerActs`, `JobEnds` | the relayer, outside this repository: authenticates, refuses, acts; its jobs end, those of other processes too |

`seen` is the relayer's replay cache, `jobs` what became of each fact (`pending`, `stored`,
`failed`, `forgotten`), `before[c]` what there was when `c` sent its request, which the
properties compare with.  A key is its class, a URL what `parse_relayer_url` looks at, a memory
the job that stored it.  *Assumed of the relayer*: 400, 401 and 429 come before it
acts, 408 and 503 may come after; a search finds any part of what is stored; forget deletes
what is stored and leaves jobs alone.

### `EndpointPolicy`, `WalrusRead`, `PublisherClient`

`is_public_ipv4`, `is_public_ipv6` and the forms that embed one address in another are
the source's tests on octets and segments; they are checked against `Reserved`, the blocks
written as first and last address.  `Resolve` is `resolve_public_endpoint` (look up, check
every address, pin), `Connect` the request's own lookup unless pinned, `ReadJson` the parse,
the schema and the reference with its digest, `HostChanges` DNS, `LeaderReads` the Nexus
leader that reads the blob again for the receiving tool.  In `PublisherClient`, `fetch_id_token`
asks the metadata server, `build_http_client` puts the token in the default headers, and `Send`
and `Fails` are the request with the redirect policy of the client.

### `TwitterModels`, `TwitterReads`

`TwitterModels` has the enumerations of the inputs and the structs of the outputs as sets of
serde's names; `Struct(needs, takes)` is a struct with its required and its optional fields.
`TwitterReads` has one `...Query` per tool (the pairs of name and value that reach the
URL), `Refuse` (the validations that run: `#[validate]` attributes do not), `Send`, `Answer` (Twitter: a page
of what was asked), `Return` (serde, and what the tool makes of the page) and
`NextPage` (a workflow that follows `next_token`).  Objects inside a field are left out.

### `CoinbaseTools`, `MathTools`, `JinjaTool`, `BenchLoad`

*Coinbase*: `invoke` (pair, quote, date, request), `Responds`/`NetworkFails` (the exchange), `get`
(status, body and the `read_...` of the tool), `Midnight`.  A text is its parts between
hyphens; a body is whether it is JSON, has errors, has data that fits.  *Math*: `checked` is
the library's checked arithmetic over `WIDTH` bits; `try_fold` is one step of `sum`, since an
overflow on the way counts.  *Jinja*: `invoke` and one action per kind of token in `render`'s
loop; `expression_bound` is the source's case analysis, `Sizes` what MiniJinja makes of the
same expression, `Needs` the variables that its value cannot be made without
(`KeptWhenMissing`: an expression is kept exactly when one of these is missing).  *Bench*: `invoke`, `Wakes`, `Dropped` (the toolkit's time limit),
`Tick`.

`ToolServers` makes one state machine of these: a server is one of the crates, and
`Next` steps the one that runs.  The tools keep nothing between two calls, so that one call (for
Twitter, one workflow that pages) shows all there is; what the actions share is the time,
DNS and the answers, which move while a call is under way.  What may be given to each crate is a
constant with a named assumption (`CoinbaseAssumption` ... `TwitterAssumption`) that says what
the types of the inputs and the services' protocols guarantee; `MCToolServers` has finite sets
that satisfy them.

### `DeployPipeline`

| Action | Code |
|---|---|
| `Start`, `RunAgain`, `Fail` | a run of the environment's concurrency group begins; is run again from the failed job or from the start; dies or fails at any step |
| `Proceed` | `needs` and `result == 'success'`; inside register, the next step |
| `Push` | deploy: build an image, push it under the commit |
| `GenerateKeys` | prepare: keys for a version without a secret, and by `--force` in place of a secret that is malformed, of other FQNs or with a legacy Toolkit config |
| `UploadConfig` | prepare: the secret is `Fit`; the config rendered anew with the pinned image and *today's* NEXUS_TAG |
| `UploadUnread` | the same after the secret could not be read, which prepare takes for there being none: without `--force` the generator leaves it as it is |
| `Register`, `RecordCaps`, `AlreadyRegistered` | register: the CLI's transaction; the merge of its caps into the record; an FQN on chain, of which there must be a record |
| `RegisterKey`, `RecordKey`, `KeyUnchanged` | register: the key, unless the hash in the record is that of the keys |
| `Reconcile` | register: the toolkit-config secret; refused unless the secret is `Fit` |
| `Apply` | trigger-tf-apply: terraform deploys every config of the bucket |
| `BumpTag` | the operators set `NEXUS_TAG` |

`phase`, `up`, `done` and `holding` are the run: its job, whether it is being
executed, the matrix entries or FQNs that are through, and the CLI output that exists
on the runner alone.  The entries of a job are handled in any order (matrix jobs are
parallel; the loops of register are not, which the model allows too much of).  An image is
named by tool and commit; the keys of a version by the run that made them or, in an
`Outdated` secret, by the FQNs it has keys of (none: malformed; some: the FQNs changed; all: a legacy
config); the caps in a record by the registry they are of.  `LeftBehind` is what the pipeline that
made the outdated secrets left: a version deployed at the commit `Earlier`, its FQNs registered with the keys
of the secret.  One action is one step that reads and writes one store.
*Assumed*: the objects file of each `NEXUS_TAG` names a tool registry of its own (nothing
in the repository says that two may share one); a cap is good in its own registry
only; the key generator and terraform do what their names say, the generator without `--force` leaves a
secret that exists, and what it makes is fit; the FQNs of a version are those of
its image; an outdated secret has no Toolkit-v2 config of these FQNs, so that register refuses it.  A secret
with *more* FQNs than the version is left out, and a malformed one whose keys can be read is a legacy one.

## 3. Runs

| Run | Configuration | Question | Result |
|---|---|---|---|
| `remember` | 2 calls; initial delay 3, cap 4, budget 5, request limit 1 | does every call end, in time and honestly, and do both together keep `DurableWrite`? | holds |
| `bulk` | 1 call of up to 3 items; 3/4/5/1 | does the call end, is the cache true, is a failed batch over, is `DurableWrite` kept? | holds |
| `bulk_timeout` | 1 call of up to 2 items; 1/2/2/0 | is a timeout said only of a batch with a pending job? | **violated** |
| `media` | media of 0 to 7 and of 53 bytes in chunks of 2; 13 sizes around every threshold of the source, all types and categories; at most 26 segments, 3 STATUS attempts; sizes announced modulo 52 MB + 1 | is a finalized media whole and every segment within the limit, does the upload end, is `MediaPromise` kept? | holds |
| `twitter` | 1 step, any tool, at most 3 attempts, 2 ids; retried: connection, rate_limit, auth, forbidden, not_found | is a request carried out at most once, is ok true, a batch complete, not_found honest? | holds |
| `twitter_sign` | 1 call | does a read of direct messages with a documented parameter get an answer? | **violated** |
| `walrus_upload` | an upload-json and an upload-file call, 2 contents, delay 2, lag 0 to 2 | is a blob id said only of what is stored, does upload-json pay once, does every call end? | holds |
| `memwal` | 2 calls; one namespace and the default one; at most 1 fact in a text; every class of key and URL | is a refusal true, does what is forgotten stay so, are namespaces, counts and health as told, does every call end? | holds |
| `servers` | the sets in `MCToolServers`: every edge of the reserved address blocks in every form, 3-bit arithmetic, expressions of up to 4 levels, 16 statuses, each Twitter option alone and all together, 3 pages | is what each tool says, asks, prints, connects to and passes on right? | holds (458 000 states) |
| `deploy` | 2 runs on 2 commits of one version with 2 FQNs, one bump of `NEXUS_TAG`; nothing there before, or a secret malformed, of one FQN, or legacy | is what a green run deployed served and keyed, do generated keys stay, do services get registered keys only, can a failed run be finished? | holds (741 000 states) |
| `deploy_pin` | as `deploy`, nothing there before | "later bumps to `NEXUS_TAG` only affect *new* deploys"? | **violated** |
| `deploy_ready` | as `deploy`, nothing there before | does readiness report missing FQN registrations? | **violated** |

No run lists a `TypeOK`: `TypeCorrect` proves it for every value of the constants.
`ToolServers` has none, for its variables hold what the running server keeps in them; each
server's invariant says what that is.

**Bounds.**  *remember, bulk*: the durations keep the shape of the source's (100 ms, 4 s, 60 s,
30 s): the delay grows to the cap (3, then 4), jitter is present (4 div 4), the
budget is passed after several polls and a request takes time.  Two calls interleave
every way two futures can; three items give every order of endings and a cache that
is filled over several polls.  `elapsed` is bounded by the code itself
(`PollBounded`, checked for remember and proved for both).  *media*: no to four segments, a last segment that is full or not, a
media one too large for the limit, attempts that run out, and the real byte
constants on both sides of each threshold (`AutoChunkBounds` covers the other
sizes); `U32_RANGE` is scaled down to between the two largest, so that one of them is
announced as the remainder that a u32 would hold.  *twitter*: calls share nothing but the account, which `Others`
changes at any time, so that one step meets all that a second could do to it; three
attempts let a retry follow a retry; two ids make a batch that is there, half there and not
there.  *walrus*: two calls that store the same or different content, a file that
changes without limit, every lag up to the delay.  *deploy*: two runs are what it
takes for one to find what another left; each may fail and be run again without
limit; two FQNs let a run die between them, and a secret lack the key of one; one bump of the tag
gives a registry that lacks what the other has; each of the three `--force` branches is taken from a state in
which services already use the keys that it replaces.  *memwal*: every
property is about one call or two: a forget and a search, two requests that might share a
nonce, a probe and a call; `Earlier` adds a job of another process.  *servers*: a
condition in these tools is a comparison with a constant or a case on a kind, and the sets have
each side and each kind; the edges and their neighbours are all that a test on octets and
masks can get wrong.  *deploy*: both commits have the same version, the case in
which runs share keys, configs and records.  The proofs cover any number of all of
these.

`CHECK_DEADLOCK FALSE` everywhere: once every call has returned, or every run is
green, the system rightly stops.

**Fairness.**  *remember, bulk, memwal*: `WF_vars(Client(c))` only: tokio runs a future whose timer has
fired or whose request has ended, and `reqwest`'s time limit (`shared_http`) ends every
request.  Nothing is assumed of the relayer, the network or the caller: `CallReturns`
holds against a relayer that never answers.  *media*: `WF_vars(Client)`, and
`WF_vars(XHandles)`: `TwitterClient` sets no time limit on a request, so that X answers is an
assumption that the code does not enforce.  Nothing is assumed of X's processing:
`UploadEnds` holds for a media that stays in progress for ever.  *servers*: none, no property is about an
end.  *twitter*: none; the run has
no liveness property, since `Client::new()` sets no time limit and no loop of the tools could
go on for ever.  *walrus*:
`WF_vars(Client(c))`, `WF_vars(Tick)` (timers fire), and `WF_vars(ConnectionBreaks(c))`: a PUT
whose answer never comes is ended by its connection; the client has no time limit for
it, so this is again an assumption.  `Client` leaves out the first attempt: nobody has
to call.  *deploy*: `WF_vars(Step(r))`: GitHub executes a run whose next step can be
taken; `WF_vars(RunAgain(r))`: somebody runs a failed run again.  The second is an
assumption about the operators, and only `Recovers` uses it; it says from where a
run can be finished, and that it cannot be when the record of a registration was
lost, or when a run went past prepare with an outdated secret it could not read: register
refuses that one, and only a run from the start forces the keys.  `UploadUnread` is outside `Step`: nothing
says that a secret must fail to be read.

**Disagreements** between the code and what is written about it (`findings`):

* `bulk_timeout`: the deadline check of `poll_bulk_jobs` (client.rs:875) sits between
  reading the answers and looking whether anything is still pending, so a batch
  completed by its last poll returns `Timeout("0 bulk jobs did not finish in time")`.
  `poll_job` has the two the other way round (`TimeoutIsHonest` of `RememberTool`).
* `twitter_sign`: `make_request` signs the address and then adds the query
  (twitter_client.rs:152, 181), so a read of direct messages with any parameter is refused.
* `deploy_pin`: prepare keeps the image tag of an existing config and re-pins all the rest.
* `deploy_ready`: the count of missing registrations is `"0\n0"`, which is not `"0"`.

Seen while modelling, without a run: the hash of a key survives a registration in another
registry, so that register registers no key there (register.yml:287-292, 327); the
branch for images takes `image/gif` before the branch for GIFs, with its documented 3 MB chunks, can
(upload_media.rs:304-314); the README of social-twitter calls `network` and `server`
retryable (2533-2535), with which `AtMostOnce` fails and a direct message is sent twice;
`status_code` is not always the one Twitter returned, as it says (2507): `ApiError` gives
each kind its usual one; a caller's own `chunk_size` is not limited to 5 MB
(`upload_media.rs`; `AutoChunkBounds` is of the automatic size); upload-file reports an answer
it cannot use as a *validation* error although the blob may be stored; a dispatch with a
`pr-number` builds the dispatched ref, not the PR's head (ci.yml:7, README.md:146), and is in
the concurrency group of that ref, not of the environment; README.md:167 describes a
snapshot that register does not take.

* *Walrus*: a file that changes during the retry's delay makes upload-file create and pay for two
  blobs, one of which nobody is told of, against "safe to retry" (client.rs:321);
  `WALRUS_PUBLISHER_RETRY_DELAY_SECS=0` is accepted (client.rs:303).
* *Pipeline*: terraform deploys the configs of failed runs as well (ci.yml:262); a record keeps
  the `signing_key_hash` of an older registry (register.yml:326).  Where prepare forces new keys for a version that
  is live, the chain gets the new key in register (register.yml:333) and the service its config later
  (register.yml:393, and terraform after that): in between, and for as long as the run stays failed there, the
  service signs with a key that the chain has no longer.  `GreenIsServed` says that no green run ends so,
  `SignsRegistered` that it is never the other way round.  A gcloud read that fails is taken for a version without a
  secret (prepare.yml:173).
* *Twitter*: the size of a media is announced as `u32` (upload_media.rs:227), so that one of 4 GiB or
  more, which chunks of 5 MB allow, is announced modulo 2^32 (`announced`; `FinalizedIsWhole` promises the
  announced size only below that); the client has no time
  limit (twitter_client.rs:48).  get_user_tweets sends `exclude` with the quotes of JSON
  (get_user_tweets.rs:219-229, against README.md:84-86).  An expanded user without
  `user_fields=protected`, or a poll without its three optional fields, is a parse error of the whole
  page in the tools on `tweet/models.rs` (`LostToExpansion` says: only then).  get_tweets,
  get_list_tweets and get_list_members take `list::models::Expansion`, whose one value is
  `owner_id`; the user lookups take a tweet's expansions, without `pinned_tweet_id`.
  `article`, `card_uri`, `display_text_range` and `media_metadata` can be asked for and no struct
  keeps them; get_list and get_list_members drop `includes`.  README.md:2168 lists event types
  like `MessageCreate`, the code takes snake case.  `#[validate]` attributes never run.  Some
  builders send an empty list, some skip it; tools without the shared code turn a last page
  without data into a parse error.
* *Coinbase*: the array `["", "USD"]` is sent as `-USD`; the client has no time limit.
* *Jinja*: the bound is not one for numbers (`n * 0`), for which nothing is allocated; `{{ x | default(y) }}` without
  `x` leaves the placeholder, default or not; without `y` it is evaluated, where README.md:25 of the tool says that
  expressions containing missing variables remain unchanged (`KeptWhenMissing` says of which variables that is true).
  An argument without a bound is not looked at by the
  filters `default`, `trim` and `replace` (its first), and MiniJinja evaluates it all the same:
  `{{ x | default((y | default(x)) * 3) }}` makes a text thrice the size of `x` when `y` is missing, however
  large, where the comment of `expression_bound` (template.rs:43-45) says that intermediate sizes are checked
  before, and README.md:29 that intermediate strings are limited.  The attempt to prove the bound for all
  arguments found it; `LooksAtNothingElse` is the condition under which it holds.
* *bench*: the tool's time limit of 5 s is below the longest sleep it accepts, 60 s.

## 4. Proofs

The theorems about remember and remember_bulk hold for any set of `Calls`, any batch cap and any durations that
satisfy `PollAssumption` (positive initial delay and budget, initial delay at most
the cap) and `BulkAssumption` (cap positive).

* `TypeCorrect` (both modules): `Spec => []TypeOK`.
* `Stages`, `Replies`, `Clocks` (lemmas): the inductive invariant in three parts.
  `StageInv` ties the place of a call's future to what the relayer has of it;
  `ReplyInv` says that a terminal report in an answer is still true when it is
  read; `ClockInv` bounds the clock by the place of the future.  Each part is
  inductive relative to the ones before it; `TypeOK` alone knows nothing of the
  relayer, and `PollBounded` alone is not inductive, for the clock of a call that
  sleeps must be known to be below the budget.
* `Bounded`: `Spec => []PollBounded`; `HonestTimeout`: `Spec => []TimeoutIsHonest`.
* `TrueCache`: `Spec => []CacheIsTrue`, from `ReplyInv` and `TerminalStays`.
* `FailedIsOver`: `Spec => []FailedBatchIsOver`, with `OkInv`, from the cache.
* `Refines` (both modules): `Spec => KeepsPromise`: `Init` maps to the abstract
  `Init`, every action to `Begin`, `Land`, `Confirm`, `GiveUp` or a stutter.

* `MediaUpload_proofs`, `AutoChunkBounds`: the automatic chunk size is at least 1 and at most 5 MB, for a
  media of any size; `ChunksCover` and `SegmentsJoin` (lemmas): the segments cover
  the media, none empty, each beginning where the one before it ends.
* `MediaUpload_proofs`, for any `Inputs` that satisfy `MediaAssumption` (any sizes, announced modulo
  `U32_RANGE`; positive limits): `TypeCorrect`; `Finalized`: `Spec => []FinalizedIsWhole`;
  `SegmentsLimited`: `Spec => []SegmentsWithinLimit`; `Refines`: `Spec => KeepsPromise`.
  The inductive invariant is `TypeOK /\ SessionInv /\ AnswerInv`: what X has of the
  media and which requests can still be on their way, by how far the call has come;
  and what an answer says that is still true when it is read.  `FinalizedIsWhole` is not
  inductive: that X has every segment follows from the answers read before, and
  that none is in flight at FINALIZE from each having been waited for.

* `TwitterTools_proofs`, for any calls, ids, attempts and kinds that satisfy
  `RetryAssumption`: `TypeCorrect`, which says that every reader of answers is total: whatever
  Twitter sends, each of the 32 tools returns an outcome of a known kind (`ResultTypes`,
  `ReplyTypes`, `OutcomeTypes`).  If moreover no kind in `RetryKinds` is one of
  `UnsettledKinds` (none, network, timeout, parse, server, api): `OnceOnly`
  (`Spec => []AtMostOnce`), `Truthful` (`[]OkTellsTruth`), `Complete` (`[]BatchIsComplete`), `Honest`
  (`[]NotFoundIsHonest`).  The assumption is the one that matters in use: the README of
  social-twitter tells workflows to retry network and server errors too, after which a post may
  have been made.  The inductive invariant is `TypeOK /\ \A c \in Calls : CallInv(c)`.  `OnceInv`:
  what was carried out leaves an answer that settles nothing against it, hence an error of an
  unsettled kind, hence no retry; `FlagInv`, `ShownInv`: what an answer under way says of the request,
  in terms of what Twitter did and had when it served it; `OutcomeInv`: the three properties of
  outcomes; `NamesInv`: who looks something up names it.  None of the properties is inductive,
  for each speaks of the outcome and rests on the answer before it.  `OkResults`,
  `UnsettledErrors` and `NotFoundErrors` say what the three readers of answers make of one.
* `WalrusUpload_proofs`, for any calls, contents, delay and lag that satisfy
  `UploadAssumption`: `TypeCorrect`, `Stored` (`Spec => []OkIsStored`), `MintedOnce` (`Spec => []MintsOnce`),
  `ValidatedInput` (`Spec => []ValidationIsOfInput`, which is of upload-json calls only: for upload-file the
  claim is false, section 3).
  The inductive invariant is `TypeOK /\ AttemptInv /\ StoredInv /\ SeenInv`: an attempt is
  one PUT and at most one Blob object; what was answered about a content is true of
  it; and while upload-json sleeps, the lag left and the time slept add up to at most
  the delay, so that its second PUT finds the blob of the first.  `TypeOK` alone is
  not inductive: that `minted` stays below 3 needs `AttemptInv`.
* `DeployPipeline_proofs`, for any runs, commits, tools, FQNs and number of bumps:
  `TypeCorrect`, `KeysAreKept` (`Spec => []KeysStay`), `SignsWhatIsRegistered` (`Spec => []SignsRegistered`),
  `Served` (`Spec => []GreenIsServed`), from any outdated secrets.
  The inductive invariant is `TypeOK /\ StoreInv /\ RunInv`.  `StoreInv` is what holds
  between the stores at any time, whatever run failed where: a config has its image
  and its keys, a record's cap is of a registration, a recorded key hash of a key
  registered somewhere.  `RunInv` is what a run has behind it by the job or step it is
  in, and has to be kept by the steps of *every other* run (`OthersStay`): that
  is where `Once` comes from, since a run under a later `NEXUS_TAG` may overwrite the
  record of an earlier one.  `RunInv` has `OneIsUp`, which is what the concurrency group gives
  (`GroupIsFree`), and needs it: a run that forces keys in place of an outdated secret must not do so while another
  one is between registering the old key and recording it, which would record the new key as registered.

* `MemWalTools_proofs`, for any `Calls`, `Namespaces` and `MAX_FACTS` that satisfy
  `BoundsAssumption`: `TypeCorrect`, `RefusalIsTrue`, `NoReplay`, `ForgottenStays`, `OneNamespace`,
  `JobsCounted`, `HealthHonest`, one for each safety property of the run.  The inductive
  invariant is `TypeOK /\ ProcInv /\ RequestInv /\ JobInv /\ KeptInv /\ AnswerInv /\
  OutputInv`.  None of the properties is inductive: a refusal is true because the answer it is made
  of was sent without acting and the one request of the call is consumed (`RequestInv`,
  `AnswerInv`); that a memory stays forgotten rests on `KeptInv`, by which a memory that was stored
  once is never a pending job again, so that none of the jobs that go on can bring it back
  (`Cleared`); the count rests on one job per fact (`JobInv`), by a bijection with `1 .. job_count`.
  `Claims(c)` is what an output says, and has to be kept by the relayer's steps and by those of every
  other call.

* `ToolServers_proofs`, for any sets of inputs and any limits that satisfy the assumptions of
  `ToolServers`, one theorem for each property of the `servers` run.  A server serves nothing but its own tools
  (`WhoServes`), so each has its own inductive invariant, proved from the steps of its component:
  * `EndpointChecked` (`Spec => []EndpointIsChecked`), `ValidatedIsDelivered`
    (`Spec => []DeliveredIsValidated`): `ConnectInv`, that what is pinned was checked and stays public however
    DNS changes; `DeliverInv`, that an Ok commits to the bytes that were parsed.  They rest on
    `PolicyIsExact`: `is_public_ip` lets an address through exactly if it is in no block of `Reserved`, nor
    stands for an IPv4 address in one, for all addresses of 32 and 128 bits.  Its lemmas turn the order of
    addresses into comparisons of octets (`OctetOrder`), blocks into ranges of one octet
    (`Slash8`, `Slash16`, `Slash24`), and masks into divisions; `EmbeddedIsCarried` compares `embedded_ipv4`
    with the forms that carry an IPv4 address (`Carriers`), which are written down apart from it.
  * `TokenGoesHome` (`[]TokenStaysHome`), from `TokenInv`: only an upload to a publisher on Cloud Run has a
    token, it is for the URL of that publisher, and what is sent with it goes to that URL's host.
  * `CoinbaseHonest` (`[]CoinbaseIsHonest`), from `AskedInv` (which pair and day are asked) and `StageInv` (how
    far a call has come, and the ways in which it can end: refused, unreached, unreadable, failed, told no,
    or whole).
  * `MathExact` (`[]MathIsExact`), for every width and length: `MathInv` says of `sum` that the
    accumulator is the sum of what is folded and the rest what is not.
  * `LoadAsAsked` (`[]LoadIsAsAsked`), from `BenchInv`.
  * `RenderBounded` (`[]RenderIsBounded`), for expressions of any size and every `MAX_DEPTH`: by levels, `Covers`
    says that what MiniJinja makes of an expression fits in its bound, level for level (`BinopFits`,
    `FilterFits`, `BoundedFits`); `Settles` that a bound that is not an error is the
    same with more levels left, so that the bounds that were computed on the way are those of the
    parts; `UnboundedNeeds`, that an expression has no bound exactly when a variable that it needs is missing.  `JinjaInv` ties pieces and size to the segments that are through.
  * `PagesFollow` (`[]PagesInOrder`), for any number of pages, from `FollowInv`: after `n` items the token that
    the next request carries skips `n`.  `PagesInOrder` alone says nothing of the token.
  * `NothingDropped` (`[]NothingIsDropped`), from `FollowInv` and `DropInv`: the query in flight is that of the
    call, and a page is made of what the query asks for.  `QueryOf` shows of each of the 16
    builders that its query is one pair for each option that is given and not left out, by the names that
    `ParamsDiffer` keeps apart; `MainStruct`, `ExpandsTo` and `IncludeNeeds` compare what is asked and what Twitter always sends with
    what each struct needs.

The induction that some of these need is over levels, lengths and octets.  The induction theorems of the library
cannot be used here, since they take an operator; they are replaced by a fact about *sets* (`Induction`: a set of numbers that
has 0 and, with each number, the next one has all; `Recursion`, that functions by recursion exist), used with the set of the numbers for which the claim holds.
That goes as far as claims that a set comprehension can state.  `JinjaTool` has recursive functions
instead of RECURSIVE operators for this reason, by the levels that `expression_bound` counts anyway.

Only model-checked: `CallReturns` (of three modules), `UploadEnds`, `UploadReturns` and `Recovers`: liveness
under fairness is out of the prover's reach.  Every other property of a passing run is a theorem.

## 5. Plan

1. **Done**: the polling core of memory-memwal with its promise and proofs.
2. **Done**: `MediaUpload` with its promise and proofs.
3. **Done**: `WalrusUpload` with proofs, `WalrusRead`.
4. **Done**: `DeployPipeline` with proofs.
5. **Done**: `TwitterApi` and `TwitterTools` with proofs; `TwitterModels` and `TwitterReads`.
   Left: the second classification of errors that upload-media makes of their text.
6. **Done**: `MemWalTools` with proofs: start-up, signing, the replay cache, the one-request tools
   on one relayer.
7. **Done**: the tool servers without state: Coinbase, arithmetic, templates, bench load,
   the Walrus reads with the endpoint policy, the publisher's identity token.
8. Left: `DeployPipeline` with the reads and the writes of prepare and register apart, to
   check what else the concurrency group is needed for; a registration as one atomic
   step, and the pipeline as its refinement.
9. **Done**: the theorems about the tool servers, all safety properties of the `servers` run.
10. Left: the memory tools and `RememberTool` on one relayer; what a render promises (`Ok` within the limit, or
   `Err`) as an abstract specification that `ToolServers` refines.

Runs are kept few: a component joins the run of a module it composes with.

## 6. Not modelled

* CI: the pre-commit, coverage, audit and documentation workflows (no state that a run leaves to
  the next but a report); of the pipeline, how discover hashes versions and picks the changed ones,
  the dry run of pull requests, and two `pr-number` dispatches at once, which do not share a
  concurrency group.
* Of the Twitter tools that write, the bodies of their requests: they are copied from the
  input; and the fields of objects inside fields, in requests that read.
* MiniJinja, `reqwest`, `serde` and `url` but for what the code relies on; the shape of paths and of
  base64; numbers that Coinbase sends as text and that the tools hand on as text.
* `nexus_toolkit` (the HTTP server around `invoke`) is not in this
  repository; it appears as the environment that starts and drops calls.
