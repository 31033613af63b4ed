--------------------------- MODULE DeployPipeline ---------------------------
(***************************************************************************)
(* The runs of ci.yml that deploy to one environment: deploy (build and    *)
(* push the images), prepare, register and trigger-tf-apply, with what     *)
(* they leave behind: images, the secrets and the bucket of the GCP        *)
(* project, and the tools registered on chain.  A run may fail at any step *)
(* and be run again from the failed job or from the start.  The nexus CLI, *)
(* the chain, the key generator and terraform are not in this repository.  *)
(***************************************************************************)
EXTENDS Naturals, FiniteSets

CONSTANTS
  Runs,       \* runs of the pipeline in the environment
  Commits,    \* what they are started on
  Versions,   \* a tool with the content version that discover computed
  Fqns,       \* what is registered; an FQN carries the version of its tool
  Tools,
  ToolOf,     \* the tool of a version
  VersionOf,  \* the version of an FQN
  CommitOf,   \* GITHUB_SHA of a run
  Matrix,     \* matrix-all of a commit: the version of each of its tools
  Outdated,   \* the secrets that an earlier pipeline may have left for a version
  Earlier,    \* the commit that it deployed
  MAX_TAG,    \* bound: how often NEXUS_TAG is set
  Nothing     \* no file, no secret, no key

ASSUME PipelineAssumption ==
  /\ ToolOf \in [Versions -> Tools]
  /\ VersionOf \in [Fqns -> Versions]
  /\ CommitOf \in [Runs -> Commits]
  /\ Matrix \in [Commits -> SUBSET Versions]
  /\ Earlier \in Commits
  /\ Outdated \subseteq SUBSET Fqns
  /\ \A keyed \in Outdated : keyed # Nothing /\ keyed \notin Runs
  /\ MAX_TAG \in Nat \ {0}
  /\ Nothing \notin Runs /\ Nothing \notin Fqns
  /\ Nothing \notin [commit : Commits, nexus : 1 .. MAX_TAG]

\* The values of NEXUS_TAG, in order; each has its objects file and so, for all
\* the pipeline knows, a tool registry of its own.
NexusTags == 1 .. MAX_TAG

\* The signing keys of a version, and their secret, are named by the run that made
\* them, or, when outdated, by the FQNs of which the secret has a key: {} when it is
\* malformed, some when the FQNs changed, all when its Toolkit config is a legacy one.
Keys == Runs \cup Outdated \cup {Nothing}

VARIABLES
  phase,      \* phase[r]: the job of run r, or the step of its register job
  up,         \* up[r]: run r is being executed
  tag,        \* tag[r]: the NEXUS_TAG the job under way was started with
  done,       \* done[r]: the matrix entries, or the FQNs, that are through
  holding,    \* holding[r]: the FQN whose CLI output is not yet in the bucket
  nexus_tag,  \* vars.NEXUS_TAG
  images,     \* the images pushed, named by tool and commit
  secret,     \* secret[v]: the signing keys
  config,     \* config[v]: the Cloud Run config in the bucket
  registered, \* registered[t]: the FQNs in the registry of Nexus t
  chain_key,  \* chain_key[t][f]: the signing key registered there
  record,     \* record[f]: the registration record in the bucket
  toolkit,    \* toolkit[v]: the keys in the toolkit-config secret
  service     \* service[v]: what terraform deployed to Cloud Run

run == <<phase, up, tag, done, holding>>
bucket == <<config, record>>
secrets == <<secret, toolkit>>
chain == <<registered, chain_key>>
vars == <<phase, up, tag, done, holding, nexus_tag, images, secret, config,
          registered, chain_key, record, toolkit, service>>

\* Mutant of After: the config is reconciled before the keys are registered.
After_swapped ==
  [deploy |-> "prepare", prepare |-> "register", register |-> "toolkit",
   toolkit |-> "keys", keys |-> "apply"]

\* `needs`, and the order of the steps of the register job.
After ==
  [deploy |-> "prepare", prepare |-> "register", register |-> "keys",
   keys |-> "toolkit", toolkit |-> "apply"]

\* The job that a phase belongs to: what is run again after a failure.
JobOf(p) == IF p \in {"keys", "toolkit"} THEN "register" ELSE p

Entries(r) == Matrix[CommitOf[r]]
FqnsOf(r) == {f \in Fqns : VersionOf[f] \in Entries(r)}
Work(r) == IF phase[r] \in {"register", "keys"} THEN FqnsOf(r) ELSE Entries(r)

At(r, p) == up[r] /\ phase[r] = p

\* prepare takes the secret as it is: well formed, of the FQNs of the version, and
\* with a Toolkit-v2 config.
Fit(v) == secret[v] \in Runs

\* The secret has a key for f.
HasKey(f) == ~Fit(VersionOf[f]) => f \in secret[VersionOf[f]]

\* What an earlier pipeline left: versions that are deployed and registered, with the
\* keys that there are in their outdated secrets.
LeftBehind ==
  LET live == {v \in Versions : secret[v] # Nothing}
      left == {f \in Fqns : VersionOf[f] \in live}
      KeyOf(f) == IF f \in left /\ HasKey(f) THEN secret[VersionOf[f]] ELSE Nothing
  IN /\ images = live \X {Earlier}
     /\ config = [v \in Versions |->
                    IF v \in live THEN [commit |-> Earlier, nexus |-> 1] ELSE Nothing]
     /\ service = config
     /\ registered = [t \in NexusTags |-> IF t = 1 THEN left ELSE {}]
     /\ chain_key = [t \in NexusTags |-> [f \in Fqns |-> IF t = 1 THEN KeyOf(f) ELSE Nothing]]
     /\ record = [f \in Fqns |-> [cap |-> IF f \in left THEN 1 ELSE 0, hash |-> KeyOf(f)]]
     /\ toolkit = secret

Init ==
  /\ phase = [r \in Runs |-> "idle"]
  /\ up = [r \in Runs |-> FALSE]
  /\ tag = [r \in Runs |-> 1]
  /\ done = [r \in Runs |-> {}]
  /\ holding = [r \in Runs |-> Nothing]
  /\ nexus_tag = 1
  /\ secret \in [Versions -> Outdated \cup {Nothing}]
  /\ LeftBehind

-----------------------------------------------------------------------------
(* The run as GitHub executes it.                                           *)

\* A job starts; prepare and register read NEXUS_TAG then.
StartJob(r, job) ==
  /\ phase' = [phase EXCEPT ![r] = job]
  /\ up' = [up EXCEPT ![r] = TRUE]
  /\ tag' = [tag EXCEPT ![r] = IF job \in {"prepare", "register"} THEN nexus_tag ELSE @]
  /\ done' = [done EXCEPT ![r] = {}]
  /\ holding' = [holding EXCEPT ![r] = Nothing]
  /\ UNCHANGED <<nexus_tag, images, secrets, bucket, chain, service>>

\* The concurrency group: one run at a time in an environment.
GroupIsFree == \A r \in Runs : ~up[r]

Start(r) == phase[r] = "idle" /\ GroupIsFree /\ StartJob(r, "deploy")

\* A run that failed is run again, from the failed job or from the start.
RunAgain(r) ==
  /\ phase[r] \notin {"idle", "green"} /\ GroupIsFree
  /\ \E job \in {phase[r], "deploy"} : StartJob(r, job)

\* A step fails, the run is cancelled, the runner is lost with what it held.
Fail(r) ==
  /\ up[r]
  /\ phase' = [phase EXCEPT ![r] = JobOf(@)]
  /\ up' = [up EXCEPT ![r] = FALSE]
  /\ done' = [done EXCEPT ![r] = {}]
  /\ holding' = [holding EXCEPT ![r] = Nothing]
  /\ UNCHANGED <<tag, nexus_tag, images, secrets, bucket,
                 chain, service>>

\* Mutant of Proceed: the next job does not look at the result of the last.
Proceed_always(r) ==
  /\ up[r] /\ phase[r] \in DOMAIN After
  /\ StartJob(r, After[phase[r]])

\* The next job (needs..., result == 'success'), or the next step of the job.
Proceed(r) ==
  /\ up[r] /\ phase[r] \in DOMAIN After
  /\ done[r] = Work(r)
  /\ IF After[phase[r]] \in {"prepare", "register", "apply"}
     THEN StartJob(r, After[phase[r]])
     ELSE /\ phase' = [phase EXCEPT ![r] = After[phase[r]]]
          /\ done' = [done EXCEPT ![r] = {}]
          /\ UNCHANGED <<up, tag, holding, nexus_tag, images, secrets, bucket,
                         chain, service>>

Through(r, x) == done' = [done EXCEPT ![r] = @ \cup {x}]

-----------------------------------------------------------------------------
(* The jobs.                                                                *)

\* deploy: an entry builds its image and pushes it under the commit.
Push(r, v) ==
  /\ At(r, "deploy") /\ v \in Entries(r) \ done[r]
  /\ images' = images \cup {<<v, CommitOf[r]>>}
  /\ Through(r, v)
  /\ UNCHANGED <<phase, up, tag, holding, nexus_tag, secrets, bucket, chain, service>>

\* Mutant of GenerateKeys: what the secret holds is not looked at.
GenerateKeys_forced(r, v) ==
  /\ At(r, "prepare") /\ v \in Entries(r) \ done[r]
  /\ <<v, CommitOf[r]>> \in images
  /\ secret' = [secret EXCEPT ![v] = r]
  /\ UNCHANGED <<run, nexus_tag, images, toolkit, bucket, chain, service>>

\* prepare: keys are generated for a version without a secret, and generated anew
\* (--force) if the secret is malformed, of other FQNs, or has a legacy config.
GenerateKeys(r, v) ==
  /\ At(r, "prepare") /\ v \in Entries(r) \ done[r]
  /\ <<v, CommitOf[r]>> \in images
  /\ ~Fit(v)
  /\ secret' = [secret EXCEPT ![v] = r]
  /\ UNCHANGED <<run, nexus_tag, images, toolkit, bucket, chain, service>>

\* prepare: the config is rendered anew, with the image it already pins if any.
Upload(r, v) ==
  /\ At(r, "prepare") /\ v \in Entries(r) \ done[r]
  /\ <<v, CommitOf[r]>> \in images
  /\ config' = [config EXCEPT ![v] =
       [commit |-> IF config[v] = Nothing THEN CommitOf[r] ELSE config[v].commit,
        nexus |-> tag[r]]]
  /\ Through(r, v)
  /\ UNCHANGED <<phase, up, tag, holding, nexus_tag, images, secrets, record,
                 chain, service>>

UploadConfig(r, v) == Fit(v) /\ Upload(r, v)

\* The secret could not be read: without --force the generator leaves it as it is.
UploadUnread(r, v) == secret[v] \in Outdated /\ Upload(r, v)

\* register: the CLI finds the FQN missing and registers it.
Register(r, f) ==
  /\ At(r, "register") /\ f \in FqnsOf(r) \ done[r]
  /\ holding[r] = Nothing
  /\ f \notin registered[tag[r]]
  /\ registered' = [registered EXCEPT ![tag[r]] = @ \cup {f}]
  /\ holding' = [holding EXCEPT ![r] = f]
  /\ UNCHANGED <<phase, up, tag, done, nexus_tag, images, secrets, bucket,
                 chain_key, service>>

\* register: the caps of the output are merged into the record.
RecordCaps(r) ==
  /\ At(r, "register") /\ holding[r] # Nothing
  /\ record' = [record EXCEPT ![holding[r]].cap = tag[r]]
  /\ Through(r, holding[r])
  /\ holding' = [holding EXCEPT ![r] = Nothing]
  /\ UNCHANGED <<phase, up, tag, nexus_tag, images, secrets, config, chain, service>>

\* Mutant of AlreadyRegistered: an FQN that is on chain is refused.
AlreadyRegistered_refused(r, f) ==
  /\ FALSE
  /\ UNCHANGED vars

\* register: the FQN is on chain and there is a record of it.  (Without one
\* the step fails.)
AlreadyRegistered(r, f) ==
  /\ At(r, "register") /\ f \in FqnsOf(r) \ done[r]
  /\ holding[r] = Nothing
  /\ f \in registered[tag[r]]
  /\ record[f].cap # 0
  /\ Through(r, f)
  /\ UNCHANGED <<phase, up, tag, holding, nexus_tag, images, secrets, bucket,
                 chain, service>>

\* register: the key is registered, with the cap in the record, unless the
\* record says that it is.  (A cap of another registry makes the CLI fail; without
\* a key in the secret the step does.)
RegisterKey(r, f) ==
  /\ At(r, "keys") /\ f \in FqnsOf(r) \ done[r]
  /\ holding[r] = Nothing
  /\ record[f].cap = tag[r]
  /\ HasKey(f) /\ record[f].hash # secret[VersionOf[f]]
  /\ chain_key' = [chain_key EXCEPT ![tag[r]][f] = secret[VersionOf[f]]]
  /\ holding' = [holding EXCEPT ![r] = f]
  /\ UNCHANGED <<phase, up, tag, done, nexus_tag, images, secrets, bucket,
                 registered, service>>

RecordKey(r) ==
  /\ At(r, "keys") /\ holding[r] # Nothing
  /\ record' = [record EXCEPT ![holding[r]].hash = secret[VersionOf[holding[r]]]]
  /\ Through(r, holding[r])
  /\ holding' = [holding EXCEPT ![r] = Nothing]
  /\ UNCHANGED <<phase, up, tag, nexus_tag, images, secrets, config, chain, service>>

KeyUnchanged(r, f) ==
  /\ At(r, "keys") /\ f \in FqnsOf(r) \ done[r]
  /\ holding[r] = Nothing
  /\ record[f].cap # 0
  /\ record[f].hash = secret[VersionOf[f]]
  /\ Through(r, f)
  /\ UNCHANGED <<phase, up, tag, holding, nexus_tag, images, secrets, bucket,
                 chain, service>>

\* register: the toolkit-config secret gets the keys of the signing-key secret.
\* (The step fails on what is not a Toolkit-v2 config of the FQNs.)
Reconcile(r, v) ==
  /\ At(r, "toolkit") /\ v \in Entries(r) \ done[r]
  /\ Fit(v)
  /\ toolkit' = [toolkit EXCEPT ![v] = secret[v]]
  /\ Through(r, v)
  /\ UNCHANGED <<phase, up, tag, holding, nexus_tag, images, secret, bucket,
                 chain, service>>

\* trigger-tf-apply: terraform deploys every config in the bucket, and the run
\* is green.
Apply(r) ==
  /\ At(r, "apply")
  /\ service' = config
  /\ phase' = [phase EXCEPT ![r] = "green"]
  /\ up' = [up EXCEPT ![r] = FALSE]
  /\ UNCHANGED <<tag, done, holding, nexus_tag, images, secrets, bucket, chain>>

\* The operators set NEXUS_TAG to a new Nexus.
BumpTag ==
  /\ nexus_tag < MAX_TAG
  /\ nexus_tag' = nexus_tag + 1
  /\ UNCHANGED <<run, images, secrets, bucket, chain, service>>

-----------------------------------------------------------------------------

Step(r) ==
  \/ Proceed(r) \/ RecordCaps(r) \/ RecordKey(r) \/ Apply(r)
  \/ \E v \in Versions :
       Push(r, v) \/ GenerateKeys(r, v) \/ UploadConfig(r, v) \/ Reconcile(r, v)
  \/ \E f \in Fqns :
       \/ Register(r, f) \/ AlreadyRegistered(r, f)
       \/ RegisterKey(r, f) \/ KeyUnchanged(r, f)

Next ==
  \/ \E r \in Runs : Start(r) \/ RunAgain(r) \/ Fail(r) \/ Step(r)
  \/ \E r \in Runs, v \in Versions : UploadUnread(r, v)
  \/ BumpTag

\* GitHub executes a run whose step can be taken; that somebody runs a failed
\* run again is an assumption about the operators, for Recovers alone.
Spec ==
  /\ Init /\ [][Next]_vars
  /\ \A r \in Runs : WF_vars(Step(r)) /\ WF_vars(RunAgain(r))

-----------------------------------------------------------------------------

Configs == [commit : Commits, nexus : NexusTags] \cup {Nothing}

TypeOK ==
  /\ phase \in [Runs -> {"idle", "green", "apply"} \cup DOMAIN After]
  /\ up \in [Runs -> BOOLEAN]
  /\ tag \in [Runs -> NexusTags]
  /\ done \in [Runs -> SUBSET (Versions \cup Fqns)]
  /\ \A r \in Runs : done[r] \subseteq Work(r) /\ (~up[r] => phase[r] = JobOf(phase[r]))
  /\ holding \in [Runs -> Fqns \cup {Nothing}]
  /\ nexus_tag \in NexusTags
  /\ images \subseteq Versions \X Commits
  /\ secret \in [Versions -> Keys]
  /\ config \in [Versions -> Configs]
  /\ registered \in [NexusTags -> SUBSET Fqns]
  /\ chain_key \in [NexusTags -> [Fqns -> Keys]]
  /\ record \in [Fqns -> [cap : 0 .. MAX_TAG, hash : Keys]]
  /\ toolkit \in [Versions -> Keys]
  /\ service \in [Versions -> Configs]

\* An FQN that was registered under one NEXUS_TAG only.
Once(f) == \A t, u \in NexusTags : f \in registered[t] /\ f \in registered[u] => t = u

\* "a green pipeline means Cloud Run + ALB + DNS are reconciled and the FQN URLs
\* on chain point at the right endpoints" (README.md): what a green run deployed
\* runs from an image of its version, is registered and on record, and signs with the
\* key that is registered; whatever failed and was run again before or after.
GreenIsServed ==
  \A r \in Runs : phase[r] = "green" =>
    /\ \A v \in Entries(r) : service[v] # Nothing /\ <<v, service[v].commit>> \in images
    /\ \A f \in FqnsOf(r) :
         /\ f \in registered[tag[r]]
         /\ Once(f) => /\ record[f].cap = tag[r]
                       /\ toolkit[VersionOf[f]] # Nothing
                       /\ chain_key[tag[r]][f] = toolkit[VersionOf[f]]

\* Keys that a run generated are never replaced, wherever they are verified or
\* signed with: prepare may run any number of times for a version, fail and be run
\* again, and forces new keys in place of an outdated secret once.
KeysStay ==
  /\ \A t \in NexusTags, f \in Fqns :
       chain_key[t][f] \in {Nothing, secret[VersionOf[f]]} \cup Outdated
  /\ \A v \in Versions : toolkit[v] \in {Nothing, secret[v]} \cup Outdated

\* "Register signing keys", then "Reconcile Toolkit-v2 config secret": a service that
\* starts at any time, of a run that failed or not, gets no keys of which one was
\* never registered; also where forced keys take the place of keys in use.
SignsRegistered ==
  \A f \in Fqns : toolkit[VersionOf[f]] \in Runs =>
    \E t \in NexusTags : chain_key[t][f] = toolkit[VersionOf[f]]

\* An FQN on chain of which the record of the caps was lost, or is of a former
\* registry: the CLI's output did not get to the bucket.
Orphan(f) == \E t \in NexusTags : f \in registered[t] /\ record[f].cap # t

\* A run that is past prepare with a secret that register refuses.
Refused(r) ==
  /\ JobOf(phase[r]) = "register"
  /\ \E v \in Entries(r) : secret[v] \in Outdated

\* A failed run can be run again to the end from wherever it failed, unless it
\* failed between a registration and its record, or prepare could not read an
\* outdated secret and left it: then only a run from the start gets further.
Recovers ==
  <>[][\A r \in Runs : ~Fail(r)]_vars =>
    \A r \in Runs :
      phase[r] # "idle" ~>
        \/ phase[r] = "green"
        \/ \E f \in Fqns : Orphan(f)
        \/ \E q \in Runs : Refused(q)

\* "Each tool's deploy pins to whichever value was current at prepare time;
\* later bumps to NEXUS_TAG only affect new deploys" (README.md).
PinStays ==
  [][\A v \in Versions : config[v] # Nothing => config'[v].nexus = config[v].nexus]_vars

\* readiness: the config of the version is there.  The count of registrations
\* never is "0": when gsutil ls fails, pipefail adds a second 0 to that of wc.
Ready(v) == config[v] # Nothing

\* "Missing artifacts [...] FQN registrations" (readiness): a PR found ready is
\* of tools that have registrations.
ReadyIsRegistered ==
  \A v \in Versions : Ready(v) =>
    \E f \in Fqns : ToolOf[VersionOf[f]] = ToolOf[v] /\ record[f].cap # 0


-----------------------------------------------------------------------------
(* Why the above holds: what is true between any two steps.                 *)

\* What is stored, deployed, on chain and on record belongs together.
StoreInv ==
  /\ KeysStay
  /\ SignsRegistered
  /\ \A v \in Versions :
       /\ config[v] # Nothing => <<v, config[v].commit>> \in images /\ secret[v] # Nothing
       /\ service[v] # Nothing => <<v, service[v].commit>> \in images
  /\ \A f \in Fqns :
       /\ record[f].cap # 0 => f \in registered[record[f].cap]
       /\ record[f].hash \in {Nothing, secret[VersionOf[f]]} \cup Outdated
       /\ record[f].hash \in Runs => \E t \in NexusTags : chain_key[t][f] = record[f].hash
       /\ \A t \in NexusTags : chain_key[t][f] # Nothing => f \in registered[t]

OnRecord(r, f) == f \in registered[tag[r]] /\ (Once(f) => record[f].cap = tag[r])

\* What the keys step leaves: the key is registered in the registry of the run, or in
\* that of a former run when the record said so.
Keyed(r, f) ==
  LET k == secret[VersionOf[f]] IN
  k \in Runs =>
    /\ \E t \in NexusTags : chain_key[t][f] = k
    /\ Once(f) => chain_key[tag[r]][f] = k

\* What a run has behind it, from the job or step it is in.
Behind(r) ==
  /\ \A v \in Entries(r) :
       /\ phase[r] \in {"register", "keys", "toolkit", "apply", "green"}
            \/ (phase[r] = "prepare" /\ v \in done[r])
            => config[v] # Nothing
       /\ phase[r] \in {"apply", "green"} \/ (phase[r] = "toolkit" /\ v \in done[r])
            => Fit(v) /\ toolkit[v] = secret[v]
       /\ phase[r] = "green" => service[v] # Nothing
  /\ \A f \in FqnsOf(r) :
       /\ phase[r] \in {"keys", "toolkit", "apply", "green"}
            \/ (phase[r] = "register" /\ f \in done[r])
            => OnRecord(r, f)
       /\ phase[r] \in {"toolkit", "apply", "green"} \/ (phase[r] = "keys" /\ f \in done[r])
            => Keyed(r, f)
  /\ holding[r] # Nothing =>
       /\ holding[r] \in FqnsOf(r) \ done[r] /\ phase[r] \in {"register", "keys"}
       /\ phase[r] = "register" => holding[r] \in registered[tag[r]]
       /\ phase[r] = "keys" =>
            chain_key[tag[r]][holding[r]] = secret[VersionOf[holding[r]]]

\* Of the runs of an environment one is executed: nobody generates keys meanwhile.
OneIsUp == \A q, r \in Runs : up[q] /\ up[r] => q = r

RunInv == OneIsUp /\ \A r \in Runs : Behind(r)
=============================================================================
