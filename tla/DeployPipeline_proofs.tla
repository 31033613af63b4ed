----------------------- MODULE DeployPipeline_proofs -----------------------
(***************************************************************************)
(* Theorems about DeployPipeline, for any runs, commits, tools and number  *)
(* of values of NEXUS_TAG.                                                 *)
(***************************************************************************)
EXTENDS DeployPipeline, TLAPS

Phases == {"idle", "green", "apply"} \cup DOMAIN After

LEMMA PhasesAre ==
  /\ DOMAIN After = {"deploy", "prepare", "register", "keys", "toolkit"}
  /\ After["deploy"] = "prepare" /\ After["prepare"] = "register"
  /\ After["register"] = "keys" /\ After["keys"] = "toolkit"
  /\ After["toolkit"] = "apply"
BY DEF After

LEMMA TypeInit == ASSUME PipelineAssumption, Init PROVE TypeOK
<1> DEFINE KeyOf(f) == IF f \in {g \in Fqns : VersionOf[g] \in {v \in Versions : secret[v] # Nothing}}
                            /\ HasKey(f)
                         THEN secret[VersionOf[f]] ELSE Nothing
<1>1. secret \in [Versions -> Keys] /\ LeftBehind
  BY DEF Init, Keys
<1>2. \A f \in Fqns : KeyOf(f) \in Keys
  BY <1>1 DEF PipelineAssumption, Keys
<1>3. /\ images \subseteq Versions \X Commits
      /\ config \in [Versions -> Configs] /\ service \in [Versions -> Configs]
      /\ toolkit \in [Versions -> Keys]
      /\ registered \in [NexusTags -> SUBSET Fqns]
  BY <1>1 DEF LeftBehind, PipelineAssumption, NexusTags, Configs
<1>4. /\ chain_key \in [NexusTags -> [Fqns -> Keys]]
      /\ record \in [Fqns -> [cap : 0 .. MAX_TAG, hash : Keys]]
  <2>1. /\ chain_key = [t \in NexusTags |-> [f \in Fqns |-> IF t = 1 THEN KeyOf(f) ELSE Nothing]]
        /\ record = [f \in Fqns |->
             [cap |-> IF f \in {g \in Fqns : VersionOf[g] \in {v \in Versions : secret[v] # Nothing}}
                      THEN 1 ELSE 0,
              hash |-> KeyOf(f)]]
    BY <1>1 DEF LeftBehind
  <2>2. Nothing \in Keys /\ 0 \in 0 .. MAX_TAG /\ 1 \in 0 .. MAX_TAG
    BY DEF Keys, PipelineAssumption
  <2> HIDE DEF KeyOf
  <2>3. QED
    BY <1>2, <2>1, <2>2
<1>5. QED
  BY <1>1, <1>3, <1>4, PhasesAre
  DEF PipelineAssumption, Init, TypeOK, NexusTags, JobOf, Work, Entries, FqnsOf

\* Starting a job, the one thing that Start, RunAgain and Proceed have in common.
LEMMA TypeStartJob ==
  ASSUME PipelineAssumption, TypeOK, NEW r \in Runs,
         NEW job \in {"deploy", "prepare", "register", "apply"}, StartJob(r, job)
  PROVE  TypeOK'
<1> USE PipelineAssumption, PhasesAre DEF TypeOK, Work, Entries, FqnsOf
<1>1. /\ phase' \in [Runs -> Phases]
      /\ up' \in [Runs -> BOOLEAN]
      /\ tag' \in [Runs -> NexusTags]
      /\ holding' \in [Runs -> Fqns \cup {Nothing}]
  BY DEF StartJob, Phases
<1>2. /\ done' \in [Runs -> SUBSET (Versions \cup Fqns)]
      /\ \A q \in Runs : (done[q] \subseteq Work(q) /\ (~up[q] => phase[q] = JobOf(phase[q])))'
  BY DEF StartJob, PipelineAssumption, JobOf
<1>3. UNCHANGED <<nexus_tag, images, secret, config, registered, chain_key, record, toolkit, service>>
  BY DEF StartJob, secrets, bucket, chain
<1> QED BY <1>1, <1>2, <1>3 DEF Phases


LEMMA StartsAJob ==
  ASSUME NEW r \in Runs, Start(r) \/ RunAgain(r) \/ Proceed(r),
         TypeOK
  PROVE  \/ \E job \in {"deploy", "prepare", "register", "apply"} :
              /\ StartJob(r, job)
              /\ job \in {"prepare", "register", "apply"} =>
                   \/ phase[r] = job
                   \/ phase[r] \in DOMAIN After /\ After[phase[r]] = job /\ done[r] = Work(r)
         \/ /\ phase[r] \in {"register", "keys"} /\ up[r] /\ done[r] = Work(r)
            /\ phase' = [phase EXCEPT ![r] = After[phase[r]]]
            /\ done' = [done EXCEPT ![r] = {}]
            /\ UNCHANGED <<up, tag, holding, nexus_tag, images, secret, toolkit, config,
                           record, registered, chain_key, service>>
<1> USE PhasesAre
<1>1. CASE Start(r)
  BY <1>1 DEF Start
<1>2. CASE RunAgain(r)
  <2>1. phase[r] \in {"deploy", "prepare", "register", "apply"}
    BY <1>2 DEF RunAgain, GroupIsFree, TypeOK, JobOf
  <2>2. QED
    BY <1>2, <2>1 DEF RunAgain
<1>3. CASE Proceed(r)
  BY <1>3 DEF Proceed, secrets, bucket, chain
<1> QED BY <1>1, <1>2, <1>3


\* An entry or an FQN of the phase is through.
LEMMA ThroughStep ==
  ASSUME PipelineAssumption, TypeOK, NEW r \in Runs, NEW x \in Work(r), Through(r, x),
         UNCHANGED <<phase, up>>
  PROVE  /\ done' \in [Runs -> SUBSET (Versions \cup Fqns)]
         /\ \A q \in Runs :
              (done[q] \subseteq Work(q) /\ (~up[q] => phase[q] = JobOf(phase[q])))'
<1>1. x \in Versions \cup Fqns
  BY DEF Work, Entries, FqnsOf, PipelineAssumption
<1>2. QED
  BY <1>1 DEF Through, TypeOK, Work, Entries, FqnsOf, JobOf

\* The two ways for an entry of prepare to get to its end.
Uploads(r, v) == UploadConfig(r, v) \/ UploadUnread(r, v)

LEMMA UploadsIsUpload ==
  ASSUME PipelineAssumption, NEW r, NEW v, Uploads(r, v)
  PROVE  Upload(r, v) /\ secret[v] # Nothing
BY DEF Uploads, UploadConfig, UploadUnread, Fit, PipelineAssumption

LEMMA TypeStep == ASSUME PipelineAssumption, TypeOK, RunInv, [Next]_vars PROVE TypeOK'
<1> USE PipelineAssumption, PhasesAre
<1>1. ASSUME NEW r \in Runs, Start(r) \/ RunAgain(r) \/ Proceed(r)
      PROVE  TypeOK'
  <2>1. CASE \E job \in {"deploy", "prepare", "register", "apply"} : StartJob(r, job)
    BY <2>1, TypeStartJob
  <2>2. CASE /\ phase[r] \in {"register", "keys"} /\ up[r]
             /\ phase' = [phase EXCEPT ![r] = After[phase[r]]]
             /\ done' = [done EXCEPT ![r] = {}]
             /\ UNCHANGED <<up, tag, holding, nexus_tag, images, secret, toolkit, config,
                            record, registered, chain_key, service>>
    <3>1. /\ phase' \in [Runs -> Phases]
          /\ done' \in [Runs -> SUBSET (Versions \cup Fqns)]
      BY <2>2 DEF TypeOK, Phases
    <3>2. \A q \in Runs : (done[q] \subseteq Work(q) /\ (~up[q] => phase[q] = JobOf(phase[q])))'
      BY <2>2 DEF TypeOK, Work, Entries, FqnsOf, JobOf
    <3>3. QED
      BY <2>2, <3>1, <3>2 DEF TypeOK, Phases
  <2>3. QED
    BY <1>1, <2>1, <2>2, StartsAJob
<1>2. ASSUME NEW r \in Runs, Fail(r) PROVE TypeOK'
  <2>1. /\ phase' \in [Runs -> Phases]
        /\ done' \in [Runs -> SUBSET (Versions \cup Fqns)]
        /\ holding' \in [Runs -> Fqns \cup {Nothing}]
        /\ up' \in [Runs -> BOOLEAN]
    BY <1>2 DEF Fail, TypeOK, Phases, JobOf
  <2>2. \A q \in Runs : (done[q] \subseteq Work(q) /\ (~up[q] => phase[q] = JobOf(phase[q])))'
    BY <1>2 DEF Fail, TypeOK, Work, Entries, FqnsOf, JobOf
  <2>3. QED
    BY <1>2, <2>1, <2>2 DEF Fail, TypeOK, Phases, secrets, bucket, chain
<1>3. ASSUME NEW r \in Runs, NEW v \in Versions,
             Push(r, v) \/ GenerateKeys(r, v) \/ Uploads(r, v) \/ Reconcile(r, v)
      PROVE  TypeOK'
  <2>1. CASE Push(r, v)
    <3>1. v \in Work(r) /\ Through(r, v)
      BY <2>1 DEF Push, At, Work
    <3>2. images' \subseteq Versions \X Commits
      BY <2>1 DEF Push, TypeOK, PipelineAssumption
    <3>3. QED
      BY <2>1, <3>1, <3>2, ThroughStep DEF Push, TypeOK, secrets, bucket, chain
  <2>2. CASE GenerateKeys(r, v)
    <3>1. secret' \in [Versions -> Keys]
      BY <2>2 DEF GenerateKeys, TypeOK, Keys
    <3>2. QED
      BY <2>2, <3>1 DEF GenerateKeys, TypeOK, Work, Entries, FqnsOf, JobOf, run, bucket, chain
  <2>3. CASE Uploads(r, v)
    <3>1. v \in Work(r) /\ Through(r, v)
      BY <2>3, UploadsIsUpload DEF Upload, At, Work
    <3>2. Upload(r, v)
      BY <2>3, UploadsIsUpload
    <3>3. config' \in [Versions -> Configs]
      BY <3>2 DEF Upload, TypeOK, PipelineAssumption, Configs
    <3>4. QED
      BY <3>1, <3>2, <3>3, ThroughStep DEF Upload, TypeOK, secrets, chain
  <2>4. CASE Reconcile(r, v)
    <3>1. v \in Work(r) /\ Through(r, v)
      BY <2>4 DEF Reconcile, At, Work
    <3>2. toolkit' \in [Versions -> Keys]
      BY <2>4 DEF Reconcile, TypeOK
    <3>3. QED
      BY <2>4, <3>1, <3>2, ThroughStep DEF Reconcile, TypeOK, bucket, chain
  <2>5. QED
    BY <1>3, <2>1, <2>2, <2>3, <2>4
<1>4. ASSUME NEW r \in Runs, NEW f \in Fqns, Register(r, f) \/ RegisterKey(r, f)
      PROVE  TypeOK'
  <2>1. /\ holding' = [holding EXCEPT ![r] = f]
        /\ UNCHANGED <<phase, up, tag, done, nexus_tag, images, secret, toolkit, config,
                       record, service>>
    BY <1>4 DEF Register, RegisterKey, secrets, bucket
  <2>2. /\ registered' \in [NexusTags -> SUBSET Fqns]
        /\ chain_key' \in [NexusTags -> [Fqns -> Keys]]
    <3>1. CASE Register(r, f)
      BY <3>1 DEF Register, TypeOK
    <3>2. CASE RegisterKey(r, f)
      <4>1. tag[r] \in NexusTags /\ secret[VersionOf[f]] \in Keys
        BY DEF TypeOK, PipelineAssumption
      <4>2. chain_key[tag[r]] \in [Fqns -> Keys]
        BY <4>1 DEF TypeOK
      <4>3. chain_key' = [chain_key EXCEPT ![tag[r]] =
                            [chain_key[tag[r]] EXCEPT ![f] = secret[VersionOf[f]]]]
        BY <3>2, <4>1 DEF RegisterKey, TypeOK
      <4>4. chain_key' \in [NexusTags -> [Fqns -> Keys]]
        BY <4>1, <4>2, <4>3 DEF TypeOK
      <4>5. QED
        BY <3>2, <4>4 DEF RegisterKey, TypeOK
    <3>3. QED
      BY <1>4, <3>1, <3>2
  <2>3. \A q \in Runs : (done[q] \subseteq Work(q) /\ (~up[q] => phase[q] = JobOf(phase[q])))'
    BY <2>1 DEF TypeOK, Work, Entries, FqnsOf, JobOf
  <2>4. holding' \in [Runs -> Fqns \cup {Nothing}]
    BY <2>1 DEF TypeOK
  <2>5. QED
    BY <2>1, <2>2, <2>3, <2>4 DEF TypeOK
<1>5. ASSUME NEW r \in Runs, NEW f \in Fqns, AlreadyRegistered(r, f) \/ KeyUnchanged(r, f)
      PROVE  TypeOK'
  <2>1. f \in Work(r) /\ Through(r, f)
    BY <1>5 DEF AlreadyRegistered, KeyUnchanged, At, Work
  <2>2. QED
    BY <1>5, <2>1, ThroughStep DEF AlreadyRegistered, KeyUnchanged, TypeOK, secrets, bucket, chain
<1>6. ASSUME NEW r \in Runs, RecordCaps(r) \/ RecordKey(r) PROVE TypeOK'
  <2>1. holding[r] \in Fqns /\ holding[r] \in Work(r) /\ Through(r, holding[r])
    BY <1>6 DEF RecordCaps, RecordKey, At, Work, RunInv, Behind, FqnsOf
  <2>2. record' \in [Fqns -> [cap : 0 .. MAX_TAG, hash : Keys]]
    <3>1. tag[r] \in 0 .. MAX_TAG /\ secret[VersionOf[holding[r]]] \in Keys
      BY <2>1 DEF TypeOK, NexusTags, PipelineAssumption
    <3> DEFINE Records == [cap : 0 .. MAX_TAG, hash : Keys]
    <3>a. record[holding[r]] \in Records
      BY <2>1 DEF TypeOK
    <3>2. CASE RecordCaps(r)
      <4>1. [record[holding[r]] EXCEPT !.cap = tag[r]] \in Records
        BY <3>1, <3>a
      <4>2. record' = [record EXCEPT ![holding[r]] = [record[holding[r]] EXCEPT !.cap = tag[r]]]
        BY <3>2 DEF RecordCaps
      <4> QED BY <2>1, <4>1, <4>2 DEF TypeOK
    <3>3. CASE RecordKey(r)
      <4>1. [record[holding[r]] EXCEPT !.hash = secret[VersionOf[holding[r]]]] \in Records
        BY <3>1, <3>a
      <4>2. record' = [record EXCEPT ![holding[r]] =
                         [record[holding[r]] EXCEPT !.hash = secret[VersionOf[holding[r]]]]]
        BY <3>3 DEF RecordKey
      <4> QED BY <2>1, <4>1, <4>2 DEF TypeOK
    <3>4. QED
      BY <1>6, <3>2, <3>3
  <2>3. holding' \in [Runs -> Fqns \cup {Nothing}]
    BY <1>6 DEF RecordCaps, RecordKey, TypeOK
  <2>4. QED
    BY <1>6, <2>1, <2>2, <2>3, ThroughStep DEF RecordCaps, RecordKey, TypeOK, secrets, chain
<1>7. ASSUME NEW r \in Runs, Apply(r) PROVE TypeOK'
  BY <1>7 DEF Apply, At, TypeOK, Work, Entries, FqnsOf, JobOf, secrets, bucket, chain
<1>8. CASE BumpTag
  BY <1>8 DEF BumpTag, NexusTags, TypeOK, Work, Entries, FqnsOf, JobOf, run, secrets, bucket, chain
<1>9. CASE UNCHANGED vars
  BY <1>9 DEF vars, TypeOK, Work, Entries, FqnsOf, JobOf
<1> QED
  BY <1>1, <1>2, <1>3, <1>4, <1>5, <1>6, <1>7, <1>8, <1>9 DEF Next, Step, Uploads


LEMMA InitStores == ASSUME PipelineAssumption, Init PROVE StoreInv /\ RunInv
<1> DEFINE live == {v \in Versions : secret[v] # Nothing}
           left == {f \in Fqns : VersionOf[f] \in live}
<1>1. /\ secret \in [Versions -> Outdated \cup {Nothing}]
      /\ toolkit = secret /\ service = config
      /\ \A v \in Versions : config[v] # Nothing =>
           v \in live /\ config[v].commit = Earlier /\ <<v, Earlier>> \in images
  BY DEF Init, LeftBehind
<1>2. \A f \in Fqns : VersionOf[f] \in Versions
  BY DEF PipelineAssumption
<1>3. ASSUME NEW f \in Fqns
      PROVE  /\ record[f].cap # 0 => record[f].cap = 1 /\ f \in registered[1]
             /\ record[f].hash \in {Nothing, secret[VersionOf[f]]}
             /\ record[f].hash \notin Runs
             /\ \A t \in NexusTags :
                  /\ chain_key[t][f] \in {Nothing, secret[VersionOf[f]]}
                  /\ chain_key[t][f] # Nothing => f \in registered[t]
  <2>1. /\ 1 \in NexusTags
        /\ secret[VersionOf[f]] \notin Runs
    BY <1>1, <1>2 DEF NexusTags, PipelineAssumption
  <2>2. QED
    BY <1>2, <2>1 DEF Init, LeftBehind, PipelineAssumption
<1>4. KeysStay /\ SignsRegistered
  BY <1>1, <1>2, <1>3 DEF KeysStay, SignsRegistered, PipelineAssumption
<1>5. StoreInv
  BY <1>1, <1>3, <1>4 DEF StoreInv
<1>6. RunInv
  BY DEF Init, RunInv, OneIsUp, Behind, Entries, FqnsOf, PipelineAssumption
<1>7. QED
  BY <1>5, <1>6

\* A step of the registration: what it makes of the record and of the chain.
LEMMA RegistrationStep ==
  ASSUME PipelineAssumption, TypeOK, StoreInv, RunInv, NEW r \in Runs, NEW f \in Fqns,
         \/ Register(r, f) \/ RegisterKey(r, f)
         \/ holding[r] = f /\ (RecordCaps(r) \/ RecordKey(r))
  PROVE  /\ f \in FqnsOf(r) /\ tag[r] \in NexusTags /\ tag[r] # 0
         /\ UNCHANGED <<images, secret, toolkit, config, service>>
         /\ \A t \in NexusTags : registered[t] \subseteq registered'[t]
         /\ f \in registered'[tag[r]]
         /\ \A t \in NexusTags, g \in Fqns :
              chain_key'[t][g] = chain_key[t][g]
                \/ (RegisterKey(r, f) /\ t = tag[r] /\ g = f)
         /\ \A g \in Fqns :
              \/ record'[g] = record[g]
              \/ g = f /\ record'[g].cap = tag[r] /\ record'[g].hash = record[g].hash
              \/ /\ g = f /\ record'[g].cap = record[g].cap
                 /\ record'[g].hash = secret[VersionOf[g]]
                 /\ chain_key[tag[r]][g] = secret[VersionOf[g]]
                 /\ secret[VersionOf[g]] # Nothing
         /\ RegisterKey(r, f) => chain_key'[tag[r]][f] = secret[VersionOf[f]]
                                   /\ secret[VersionOf[f]] # Nothing
<1>1. tag[r] \in NexusTags /\ tag[r] # 0
  BY DEF TypeOK, NexusTags, PipelineAssumption
<1>2. UNCHANGED <<images, secret, toolkit, config, service>>
  BY DEF Register, RegisterKey, RecordCaps, RecordKey, secrets, bucket
<1>3. record[f] \in [cap : 0 .. MAX_TAG, hash : Keys]
  BY DEF TypeOK
<1>4. CASE Register(r, f)
  <2>1. registered' = [registered EXCEPT ![tag[r]] = registered[tag[r]] \cup {f}]
        /\ UNCHANGED <<chain_key, record>> /\ f \in FqnsOf(r)
    BY <1>4 DEF Register, bucket
  <2>2. ~RegisterKey(r, f)
    BY <1>4 DEF Register, RegisterKey, At
  <2>3. QED
    BY <1>1, <1>2, <2>1, <2>2 DEF TypeOK
<1>5. CASE RegisterKey(r, f)
  <2>1. /\ f \in FqnsOf(r) /\ record[f].cap = tag[r]
        /\ UNCHANGED <<registered, record>>
        /\ chain_key' = [chain_key EXCEPT ![tag[r]][f] = secret[VersionOf[f]]]
    BY <1>5 DEF RegisterKey, bucket
  <2>2. f \in registered[tag[r]]
    BY <1>1, <2>1 DEF StoreInv
  <2>3. /\ chain_key'[tag[r]][f] = secret[VersionOf[f]]
        /\ \A t \in NexusTags, g \in Fqns :
             chain_key'[t][g] = chain_key[t][g] \/ (t = tag[r] /\ g = f)
    BY <1>1, <2>1 DEF TypeOK
  <2>4. secret[VersionOf[f]] # Nothing
    <3>1. phase[r] = "keys" /\ VersionOf[f] \in Entries(r)
      BY <1>5, <2>1 DEF RegisterKey, At, FqnsOf
    <3>2. config[VersionOf[f]] # Nothing
      BY <3>1 DEF RunInv, Behind
    <3>3. QED
      BY <3>2 DEF StoreInv, PipelineAssumption
  <2>5. QED
    BY <1>1, <1>2, <1>5, <2>1, <2>2, <2>3, <2>4
<1>6. CASE holding[r] = f /\ RecordCaps(r)
  <2>1. /\ UNCHANGED <<registered, chain_key>>
        /\ phase[r] = "register"
        /\ record' = [record EXCEPT ![f].cap = tag[r]]
    BY <1>6 DEF RecordCaps, At, chain
  <2>2. f \in FqnsOf(r) /\ f \in registered[tag[r]]
    BY <1>6, <2>1, PipelineAssumption DEF RunInv, Behind, PipelineAssumption
  <2>3. \A g \in Fqns :
          record'[g] = record[g]
            \/ (g = f /\ record'[g].cap = tag[r] /\ record'[g].hash = record[g].hash)
    BY <1>3, <2>1 DEF TypeOK
  <2>4. ~RegisterKey(r, f)
    BY <2>1 DEF RegisterKey, At
  <2>5. QED
    BY <1>1, <1>2, <2>1, <2>2, <2>3, <2>4
<1>7. CASE holding[r] = f /\ RecordKey(r)
  <2>1. /\ UNCHANGED <<registered, chain_key>>
        /\ phase[r] = "keys"
        /\ record' = [record EXCEPT ![f].hash = secret[VersionOf[f]]]
    BY <1>7 DEF RecordKey, At, chain
  <2>2. /\ f \in FqnsOf(r) /\ chain_key[tag[r]][f] = secret[VersionOf[f]]
        /\ config[VersionOf[f]] # Nothing
    BY <1>7, <2>1 DEF RunInv, Behind, FqnsOf, PipelineAssumption
  <2>a. secret[VersionOf[f]] # Nothing
    BY <2>2 DEF StoreInv, PipelineAssumption
  <2>3. f \in registered[tag[r]]
    BY <1>1, <2>2, <2>a DEF StoreInv
  <2>4. \A g \in Fqns :
          record'[g] = record[g]
            \/ (g = f /\ record'[g].cap = record[g].cap /\ record'[g].hash = secret[VersionOf[g]])
    BY <1>3, <2>1 DEF TypeOK
  <2>5. ~RegisterKey(r, f)
    BY <1>7 DEF RecordKey, RegisterKey, PipelineAssumption
  <2>6. QED
    BY <1>1, <1>2, <2>1, <2>2, <2>a, <2>3, <2>4, <2>5
<1> QED BY <1>4, <1>5, <1>6, <1>7


stores == <<images, secret, toolkit, config, service, registered, chain_key, record>>

\* Every step changes the stores in one of these ways.
LEMMA WaysToStep ==
  ASSUME PipelineAssumption, TypeOK, RunInv, [Next]_vars
  PROVE  \/ UNCHANGED stores
         \/ \E r \in Runs, v \in Versions :
              Push(r, v) \/ GenerateKeys(r, v) \/ Uploads(r, v) \/ Reconcile(r, v)
         \/ \E r \in Runs, f \in Fqns :
              \/ Register(r, f) \/ RegisterKey(r, f)
              \/ holding[r] = f /\ (RecordCaps(r) \/ RecordKey(r))
         \/ \E r \in Runs : Apply(r)
<1>1. ASSUME NEW r \in Runs, Start(r) \/ RunAgain(r) \/ Proceed(r)
      PROVE  UNCHANGED stores
  BY <1>1, StartsAJob DEF StartJob, stores, secrets, bucket, chain
<1>2. ASSUME NEW r \in Runs, Fail(r) PROVE UNCHANGED stores
  BY <1>2 DEF Fail, stores, secrets, bucket, chain
<1>3. ASSUME NEW r \in Runs, NEW f \in Fqns, AlreadyRegistered(r, f) \/ KeyUnchanged(r, f)
      PROVE  UNCHANGED stores
  BY <1>3 DEF AlreadyRegistered, KeyUnchanged, stores, secrets, bucket, chain
<1>4. CASE BumpTag
  BY <1>4 DEF BumpTag, stores, secrets, bucket, chain
<1>5. CASE UNCHANGED vars
  BY <1>5 DEF vars, stores
<1>6. ASSUME NEW r \in Runs, RecordCaps(r) \/ RecordKey(r)
      PROVE  holding[r] \in Fqns
  BY <1>6 DEF RecordCaps, RecordKey, TypeOK
<1>7. QED
  BY <1>1, <1>2, <1>3, <1>4, <1>5, <1>6 DEF Next, Step, Uploads

LEMMA StoreStep ==
  ASSUME PipelineAssumption, TypeOK, StoreInv, RunInv, [Next]_vars
  PROVE  StoreInv'
<1>1. CASE UNCHANGED stores
  BY <1>1 DEF stores, StoreInv, KeysStay, SignsRegistered
<1>2. ASSUME NEW r \in Runs, NEW v \in Versions, Push(r, v) PROVE StoreInv'
  BY <1>2 DEF Push, StoreInv, KeysStay, SignsRegistered, secrets, bucket, chain
<1>3. ASSUME NEW r \in Runs, NEW v \in Versions, GenerateKeys(r, v) PROVE StoreInv'
  <2>1. /\ UNCHANGED <<images, toolkit, config, service, registered, chain_key, record>>
        /\ ~Fit(v)
        /\ secret' = [secret EXCEPT ![v] = r]
    BY <1>3 DEF GenerateKeys, bucket, chain
  <2>2. /\ \A w \in Versions : secret[w] # Nothing => secret'[w] # Nothing
        /\ \A w \in Versions : secret'[w] = secret[w] \/ secret[w] \in Outdated \cup {Nothing}
    BY <2>1 DEF TypeOK, Keys, Fit, PipelineAssumption
  <2>3. \A f \in Fqns : VersionOf[f] \in Versions
    BY PipelineAssumption DEF PipelineAssumption
  <2>4. KeysStay'
    BY <2>1, <2>2, <2>3 DEF StoreInv, KeysStay
  <2>5. SignsRegistered'
    BY <2>1 DEF StoreInv, SignsRegistered
  <2>6. QED
    BY <2>1, <2>2, <2>3, <2>4, <2>5 DEF StoreInv
<1>4. ASSUME NEW r \in Runs, NEW v \in Versions, Uploads(r, v) PROVE StoreInv'
  <2>1. /\ UNCHANGED <<images, secret, toolkit, service, registered, chain_key, record>>
        /\ <<v, CommitOf[r]>> \in images /\ secret[v] # Nothing
        /\ config' = [config EXCEPT ![v] =
             [commit |-> IF config[v] = Nothing THEN CommitOf[r] ELSE config[v].commit,
              nexus |-> tag[r]]]
    BY <1>4, UploadsIsUpload DEF Upload, secrets, chain
  <2>2. \A w \in Versions :
          \/ config'[w] = config[w]
          \/ w = v /\ config'[w].commit \in
                        (IF config[v] = Nothing THEN {CommitOf[r]} ELSE {config[v].commit})
    BY <2>1 DEF TypeOK
  <2>3. \A w \in Versions :
          config'[w] # Nothing => <<w, config'[w].commit>> \in images /\ secret[w] # Nothing
    <3> SUFFICES ASSUME NEW w \in Versions, config'[w] # Nothing
                 PROVE  <<w, config'[w].commit>> \in images /\ secret[w] # Nothing
      OBVIOUS
    <3>1. CASE config'[w] = config[w]
      BY <3>1 DEF StoreInv
    <3>2. CASE w = v /\ config[v] = Nothing /\ config'[w].commit = CommitOf[r]
      BY <2>1, <3>2
    <3>3. CASE w = v /\ config[v] # Nothing /\ config'[w].commit = config[v].commit
      BY <2>1, <3>3 DEF StoreInv
    <3>4. QED
      BY <2>2, <3>1, <3>2, <3>3
  <2>4. KeysStay' /\ SignsRegistered'
    BY <2>1 DEF StoreInv, KeysStay, SignsRegistered
  <2>5. UNCHANGED <<images, secret, service, registered, chain_key, record>>
    BY <2>1
  <2>6. QED
    BY <2>3, <2>4, <2>5 DEF StoreInv
<1>5. ASSUME NEW r \in Runs, NEW v \in Versions, Reconcile(r, v) PROVE StoreInv'
  <2>1. /\ UNCHANGED <<images, secret, config, service, registered, chain_key, record>>
        /\ toolkit' = [toolkit EXCEPT ![v] = secret[v]]
        /\ Fit(v) /\ v \in Entries(r) /\ phase[r] = "toolkit"
    BY <1>5 DEF Reconcile, At, bucket, chain
  <2>2. KeysStay'
    BY <2>1 DEF StoreInv, KeysStay, TypeOK
  <2>3. SignsRegistered'
    <3> SUFFICES ASSUME NEW f \in Fqns, toolkit'[VersionOf[f]] \in Runs
                 PROVE  \E t \in NexusTags : chain_key[t][f] = toolkit'[VersionOf[f]]
      BY <2>1 DEF SignsRegistered
    <3>1. CASE VersionOf[f] = v
      <4>1. Keyed(r, f)
        BY <2>1, <3>1 DEF RunInv, Behind, FqnsOf
      <4>2. toolkit'[v] = secret[v]
        BY <2>1 DEF TypeOK
      <4>3. QED
        BY <2>1, <3>1, <4>1, <4>2 DEF Keyed, Fit
    <3>2. CASE VersionOf[f] # v
      BY <2>1, <3>2 DEF StoreInv, SignsRegistered, TypeOK, PipelineAssumption
    <3>3. QED
      BY <3>1, <3>2
  <2>4. QED
    BY <2>1, <2>2, <2>3 DEF StoreInv
<1>6. ASSUME NEW r \in Runs, NEW f \in Fqns,
             \/ Register(r, f) \/ RegisterKey(r, f)
             \/ holding[r] = f /\ (RecordCaps(r) \/ RecordKey(r))
      PROVE  StoreInv'
  <2> DEFINE k == secret[VersionOf[f]]
  <2>1. /\ tag[r] \in NexusTags
        /\ UNCHANGED <<images, secret, toolkit, config, service>>
        /\ \A t \in NexusTags : registered[t] \subseteq registered'[t]
        /\ f \in registered'[tag[r]]
        /\ \A t \in NexusTags, g \in Fqns :
             chain_key'[t][g] = chain_key[t][g]
               \/ (t = tag[r] /\ g = f /\ chain_key'[t][g] = k /\ k # Nothing)
    BY <1>6, RegistrationStep
  <2>2. \A g \in Fqns :
          \/ record'[g] = record[g]
          \/ g = f /\ record'[g].cap = tag[r] /\ record'[g].hash = record[g].hash
          \/ /\ g = f /\ record'[g].cap = record[g].cap
             /\ record'[g].hash = secret[VersionOf[g]]
             /\ chain_key[tag[r]][g] = secret[VersionOf[g]]
    BY <1>6, RegistrationStep
  <2>3. KeysStay'
    BY <2>1 DEF StoreInv, KeysStay
  <2>4. \A t \in NexusTags, g \in Fqns :
          chain_key[t][g] = secret[VersionOf[g]] => chain_key'[t][g] = secret[VersionOf[g]]
    BY <2>1
  <2>a. SignsRegistered'
    <3> SUFFICES ASSUME NEW g \in Fqns, toolkit[VersionOf[g]] \in Runs
                 PROVE  \E t \in NexusTags : chain_key'[t][g] = toolkit[VersionOf[g]]
      BY <2>1 DEF SignsRegistered
    <3>1. toolkit[VersionOf[g]] = secret[VersionOf[g]]
      BY DEF StoreInv, KeysStay, PipelineAssumption
    <3>2. QED
      BY <2>4, <3>1 DEF StoreInv, SignsRegistered
  <2>5. ASSUME NEW g \in Fqns
        PROVE  /\ record'[g].cap # 0 => g \in registered'[record'[g].cap]
               /\ record'[g].hash \in {Nothing, secret'[VersionOf[g]]} \cup Outdated
               /\ record'[g].hash \in Runs =>
                    \E t \in NexusTags : chain_key'[t][g] = record'[g].hash
               /\ \A t \in NexusTags : chain_key'[t][g] # Nothing => g \in registered'[t]
    <3>1. record[g].cap # 0 => record[g].cap \in NexusTags
      BY DEF TypeOK, NexusTags, PipelineAssumption
    <3>2. record'[g].cap # 0 => g \in registered'[record'[g].cap]
      BY <2>1, <2>2, <3>1 DEF StoreInv
    <3>3. record'[g].hash \in {Nothing, secret'[VersionOf[g]]} \cup Outdated
      BY <2>1, <2>2 DEF StoreInv
    <3>4. ASSUME record'[g].hash \in Runs
          PROVE  \E t \in NexusTags : chain_key'[t][g] = record'[g].hash
      <4>1. record'[g].hash = secret[VersionOf[g]]
        BY <2>1, <3>3, <3>4 DEF PipelineAssumption
      <4>2. \E t \in NexusTags : chain_key[t][g] = secret[VersionOf[g]]
        BY <2>1, <2>2, <3>4, <4>1 DEF StoreInv
      <4>3. QED
        BY <2>4, <4>1, <4>2
    <3>5. \A t \in NexusTags : chain_key'[t][g] # Nothing => g \in registered'[t]
      BY <2>1 DEF StoreInv
    <3>6. QED
      BY <3>2, <3>3, <3>4, <3>5
  <2>6. QED
    BY <2>1, <2>3, <2>a, <2>5 DEF StoreInv
<1>7. ASSUME NEW r \in Runs, Apply(r) PROVE StoreInv'
  <2>1. UNCHANGED <<images, secret, toolkit, config, registered, chain_key, record>> /\ service' = config
    BY <1>7 DEF Apply, secrets, bucket, chain
  <2>2. QED
    BY <2>1 DEF StoreInv, KeysStay, SignsRegistered
<1>8. QED
  BY <1>1, <1>2, <1>3, <1>4, <1>5, <1>6, <1>7, WaysToStep


LEMMA OnceBefore ==
  ASSUME NEW f, \A t \in NexusTags : registered[t] \subseteq registered'[t], Once(f)'
  PROVE  Once(f)
BY DEF Once

\* What is true of the stores for good, of keys unless they are generated anew.
LEMMA Stable ==
  ASSUME PipelineAssumption, TypeOK, StoreInv, RunInv, [Next]_vars
  PROVE  /\ \A v \in Versions :
              /\ config[v] # Nothing => config'[v] # Nothing
              /\ service[v] # Nothing /\ config[v] # Nothing => service'[v] # Nothing
              /\ Fit(v) => secret'[v] = secret[v]
              /\ toolkit[v] = secret[v] /\ secret'[v] = secret[v] => toolkit'[v] = secret'[v]
         /\ \A t \in NexusTags, f \in Fqns :
              /\ f \in registered[t] => f \in registered'[t]
              /\ f \in registered[t] /\ (Once(f) => record[f].cap = t)
                   => (Once(f)' => record'[f].cap = t)
              /\ chain_key[t][f] = secret[VersionOf[f]] /\ secret'[VersionOf[f]] = secret[VersionOf[f]]
                   => chain_key'[t][f] = secret'[VersionOf[f]]
         /\ \A f \in Fqns : Once(f)' => Once(f)
<1> DEFINE Goal ==
         /\ \A v \in Versions :
              /\ config[v] # Nothing => config'[v] # Nothing
              /\ service[v] # Nothing /\ config[v] # Nothing => service'[v] # Nothing
              /\ Fit(v) => secret'[v] = secret[v]
              /\ toolkit[v] = secret[v] /\ secret'[v] = secret[v] => toolkit'[v] = secret'[v]
         /\ \A t \in NexusTags, f \in Fqns :
              /\ f \in registered[t] => f \in registered'[t]
              /\ f \in registered[t] /\ (Once(f) => record[f].cap = t)
                   => (Once(f)' => record'[f].cap = t)
              /\ chain_key[t][f] = secret[VersionOf[f]] /\ secret'[VersionOf[f]] = secret[VersionOf[f]]
                   => chain_key'[t][f] = secret'[VersionOf[f]]
         /\ \A f \in Fqns : Once(f)' => Once(f)
<1>0. \A f \in Fqns : VersionOf[f] \in Versions
  BY DEF PipelineAssumption
<1>1. CASE UNCHANGED <<secret, toolkit, config, service, registered, chain_key, record>>
  BY <1>1 DEF Once
<1>2. ASSUME NEW r \in Runs, NEW v \in Versions,
             Push(r, v) \/ GenerateKeys(r, v) \/ Uploads(r, v) \/ Reconcile(r, v)
      PROVE  Goal
  <2>1. UNCHANGED <<registered, chain_key, record, service>>
    BY <1>2, UploadsIsUpload DEF Push, GenerateKeys, Upload, Reconcile, bucket, chain
  <2>2. \A w \in Versions :
          /\ config[w] # Nothing => config'[w] # Nothing
          /\ Fit(w) => secret'[w] = secret[w]
          /\ toolkit[w] = secret[w] /\ secret'[w] = secret[w] => toolkit'[w] = secret'[w]
    <3>1. CASE Push(r, v)
      BY <3>1 DEF Push, secrets, bucket
    <3>2. CASE GenerateKeys(r, v)
      BY <3>2 DEF GenerateKeys, TypeOK, bucket
    <3>3. CASE Uploads(r, v)
      <4>1. config' = [config EXCEPT ![v] =
              [commit |-> IF config[v] = Nothing THEN CommitOf[r] ELSE config[v].commit,
               nexus |-> tag[r]]]
            /\ UNCHANGED <<secret, toolkit>>
        BY <3>3, UploadsIsUpload DEF Upload, secrets
      <4>2. config[v] # Nothing => config[v] \in [commit : Commits, nexus : NexusTags]
        BY DEF TypeOK, Configs
      <4>3. config[v] # Nothing => config'[v] \in [commit : Commits, nexus : NexusTags]
        BY <4>1, <4>2 DEF TypeOK
      <4>4. config[v] # Nothing => config'[v] # Nothing
        BY <4>3 DEF PipelineAssumption, NexusTags
      <4>5. QED
        BY <4>1, <4>4 DEF TypeOK
    <3>4. CASE Reconcile(r, v)
      BY <3>4 DEF Reconcile, TypeOK, bucket
    <3>5. QED
      BY <1>2, <3>1, <3>2, <3>3, <3>4
  <2>3. QED
    BY <2>1, <2>2 DEF Once
<1>3. ASSUME NEW r \in Runs, NEW f \in Fqns,
             \/ Register(r, f) \/ RegisterKey(r, f)
             \/ holding[r] = f /\ (RecordCaps(r) \/ RecordKey(r))
      PROVE  Goal
  <2>1. /\ tag[r] \in NexusTags /\ f \in registered'[tag[r]]
        /\ UNCHANGED <<images, secret, toolkit, config, service>>
        /\ \A t \in NexusTags : registered[t] \subseteq registered'[t]
        /\ \A t \in NexusTags, g \in Fqns :
             chain_key'[t][g] = chain_key[t][g]
               \/ (chain_key'[t][g] = secret[VersionOf[g]] /\ chain_key'[t][g] # Nothing)
        /\ \A g \in Fqns : record'[g].cap = record[g].cap
                             \/ (g = f /\ record'[g].cap = tag[r])
    BY <1>3, RegistrationStep
  <2>2. \A g \in Fqns : Once(g)' => Once(g)
    BY <2>1, OnceBefore
  <2>3. ASSUME NEW t \in NexusTags, NEW g \in Fqns, g \in registered[t],
               Once(g) => record[g].cap = t, Once(g)'
        PROVE  record'[g].cap = t
    <3>1. CASE record'[g].cap = record[g].cap
      BY <2>2, <2>3, <3>1
    <3>2. CASE g = f /\ record'[g].cap = tag[r]
      <4>1. g \in registered'[t] /\ g \in registered'[tag[r]]
        BY <2>1, <2>3, <3>2
      <4>2. t = tag[r]
        BY <2>1, <2>3, <4>1 DEF Once
      <4>3. QED
        BY <3>2, <4>2
    <3>3. QED
      BY <2>1, <3>1, <3>2
  <2>4. \A t \in NexusTags, g \in Fqns :
          chain_key[t][g] = secret[VersionOf[g]] => chain_key'[t][g] = secret[VersionOf[g]]
    BY <2>1
  <2>5. QED
    BY <2>1, <2>2, <2>3, <2>4
<1>4. ASSUME NEW r \in Runs, Apply(r) PROVE Goal
  <2>1. /\ UNCHANGED <<secret, toolkit, config, registered, chain_key, record>>
        /\ service' = config
    BY <1>4 DEF Apply, secrets, bucket, chain
  <2>2. QED
    BY <2>1 DEF Once
<1>5. QED
  BY <1>1, <1>2, <1>3, <1>4, WaysToStep DEF stores

\* The keys of the versions of a run that registered them are not generated anew: no
\* other run is executed meanwhile, and when it is done the secret fits.
LEMMA NotAnew ==
  ASSUME PipelineAssumption, TypeOK, StoreInv, RunInv, [Next]_vars, NEW q \in Runs,
         phase[q] \in {"keys", "toolkit", "apply", "green"}, NEW v \in Entries(q)
  PROVE  secret'[v] = secret[v]
<1>1. v \in Versions
  BY DEF Entries, PipelineAssumption
<1>2. CASE phase[q] \in {"apply", "green"}
  BY <1>1, <1>2, Stable DEF RunInv, Behind
<1>3. CASE phase[q] \in {"keys", "toolkit"}
  <2>1. up[q]
    BY <1>3 DEF TypeOK, JobOf
  <2>2. ASSUME NEW r \in Runs, NEW w \in Versions, GenerateKeys(r, w)
        PROVE  FALSE
    BY <1>3, <2>1, <2>2 DEF GenerateKeys, At, RunInv, OneIsUp
  <2>3. \A r \in Runs, w \in Versions :
          Push(r, w) \/ Uploads(r, w) \/ Reconcile(r, w) => UNCHANGED secret
    BY UploadsIsUpload DEF Push, Upload, Reconcile, secrets
  <2>4. \A r \in Runs : Apply(r) => UNCHANGED secret
    BY DEF Apply, secrets
  <2>5. UNCHANGED secret
    BY <2>2, <2>3, <2>4, WaysToStep, RegistrationStep DEF stores
  <2>6. QED
    BY <2>5
<1>4. QED
  BY <1>2, <1>3

LEMMA KeyedStays ==
  ASSUME PipelineAssumption, TypeOK, StoreInv, RunInv, [Next]_vars, NEW q \in Runs,
         tag'[q] = tag[q], NEW f \in FqnsOf(q), Keyed(q, f),
         phase[q] \in {"keys", "toolkit", "apply", "green"}
  PROVE  Keyed(q, f)'
<1>1. /\ f \in Fqns /\ tag[q] \in NexusTags
      /\ secret'[VersionOf[f]] = secret[VersionOf[f]]
  BY NotAnew DEF TypeOK, FqnsOf
<1>2. QED
  BY <1>1, Stable DEF Keyed

\* A run that a step leaves where it is.
LEMMA OthersStay ==
  ASSUME PipelineAssumption, TypeOK, StoreInv, RunInv, [Next]_vars, NEW q \in Runs,
         phase'[q] = phase[q], tag'[q] = tag[q], done'[q] = done[q], holding'[q] = holding[q]
  PROVE  Behind(q)'
<1>1. /\ tag[q] \in NexusTags /\ Entries(q) \subseteq Versions
      /\ \A f \in FqnsOf(q) : f \in Fqns /\ VersionOf[f] \in Entries(q)
  BY DEF TypeOK, PipelineAssumption, Entries, FqnsOf
<1>2. Behind(q)
  BY DEF RunInv
<1>3. \A v \in Entries(q) :
        /\ phase'[q] \in {"register", "keys", "toolkit", "apply", "green"}
             \/ (phase'[q] = "prepare" /\ v \in done'[q])
             => config'[v] # Nothing
        /\ phase'[q] \in {"apply", "green"} \/ (phase'[q] = "toolkit" /\ v \in done'[q])
             => Fit(v)' /\ toolkit'[v] = secret'[v]
        /\ phase'[q] = "green" => service'[v] # Nothing
  BY <1>1, <1>2, Stable DEF Behind, Fit
<1>4. ASSUME NEW f \in FqnsOf(q)
      PROVE  /\ phase'[q] \in {"keys", "toolkit", "apply", "green"}
                  \/ (phase'[q] = "register" /\ f \in done'[q])
                  => OnRecord(q, f)'
             /\ phase'[q] \in {"toolkit", "apply", "green"} \/ (phase'[q] = "keys" /\ f \in done'[q])
                  => Keyed(q, f)'
  <2>1. OnRecord(q, f) => OnRecord(q, f)'
    BY <1>1, Stable DEF OnRecord
  <2>2. phase[q] \in {"keys", "toolkit", "apply", "green"} /\ Keyed(q, f) => Keyed(q, f)'
    BY KeyedStays
  <2>3. QED
    BY <1>1, <1>2, <2>1, <2>2 DEF Behind
<1>5. holding'[q] # Nothing =>
        /\ holding'[q] \in FqnsOf(q) \ done'[q] /\ phase'[q] \in {"register", "keys"}
        /\ phase'[q] = "register" => holding'[q] \in registered'[tag'[q]]
        /\ phase'[q] = "keys" =>
             chain_key'[tag'[q]][holding'[q]] = secret'[VersionOf[holding'[q]]]
  BY <1>1, <1>2, Stable, NotAnew DEF Behind
<1>6. QED
  BY <1>3, <1>4, <1>5 DEF Behind, Entries, FqnsOf


\* A run that starts a job or a step, or fails: the stores are as they were.
LEMMA MovesOn ==
  ASSUME PipelineAssumption, TypeOK, RunInv, NEW r \in Runs,
         Start(r) \/ RunAgain(r) \/ Proceed(r) \/ Fail(r)
  PROVE  Behind(r)'
<1>1. Behind(r) /\ \A f \in FqnsOf(r) : f \in Fqns /\ VersionOf[f] \in Entries(r)
  BY DEF RunInv, FqnsOf
<1> USE PhasesAre
<1>2. CASE Fail(r)
  <2>1. /\ phase'[r] = JobOf(phase[r]) /\ done'[r] = {} /\ holding'[r] = Nothing
        /\ UNCHANGED <<tag, secret, toolkit, config, service, registered, chain_key, record>>
    BY <1>2 DEF Fail, TypeOK, secrets, bucket, chain
  <2>2. phase'[r] # "toolkit" /\ phase'[r] # "keys"
    BY <2>1 DEF JobOf
  <2>3. /\ phase'[r] \in {"register", "apply", "green"} => phase[r] \in {"register", "keys", "toolkit", "apply", "green"}
        /\ phase'[r] \in {"apply", "green"} => phase[r] = phase'[r]
    BY <2>1 DEF JobOf
  <2>4. QED
    BY <1>1, <2>1, <2>2, <2>3 DEF Behind, OnRecord, Keyed, Once, Entries, FqnsOf, Fit
<1>3. ASSUME NEW job \in {"deploy", "prepare", "register", "apply"}, StartJob(r, job),
             job \in {"prepare", "register", "apply"} =>
               \/ phase[r] = job
               \/ phase[r] \in DOMAIN After /\ After[phase[r]] = job /\ done[r] = Work(r)
      PROVE  Behind(r)'
  <2>1. /\ phase'[r] = job /\ done'[r] = {} /\ holding'[r] = Nothing
        /\ job = "apply" => tag'[r] = tag[r]
        /\ UNCHANGED <<secret, toolkit, config, service, registered, chain_key, record>>
    BY <1>3 DEF StartJob, TypeOK, secrets, bucket, chain
  <2>2. job \in {"register", "apply"} => \A v \in Entries(r) : config[v] # Nothing
    BY <1>1, <1>3 DEF Behind, Work
  <2>3. job = "apply" =>
          /\ \A v \in Entries(r) : Fit(v) /\ toolkit[v] = secret[v]
          /\ \A f \in FqnsOf(r) : OnRecord(r, f) /\ Keyed(r, f)
    BY <1>1, <1>3 DEF Behind, Work
  <2>4. job = "apply" => \A f \in FqnsOf(r) : (OnRecord(r, f) /\ Keyed(r, f))'
    BY <2>1, <2>3 DEF OnRecord, Keyed, Once
  <2>5. QED
    BY <2>1, <2>2, <2>3, <2>4 DEF Behind, Entries, FqnsOf, Fit
<1>4. CASE /\ phase[r] \in {"register", "keys"} /\ up[r] /\ done[r] = Work(r)
           /\ phase' = [phase EXCEPT ![r] = After[phase[r]]]
           /\ done' = [done EXCEPT ![r] = {}]
           /\ UNCHANGED <<up, tag, holding, nexus_tag, images, secret, toolkit, config,
                          record, registered, chain_key, service>>
  <2>1. phase'[r] = After[phase[r]] /\ done'[r] = {}
    BY <1>4 DEF TypeOK
  <2>2. holding[r] = Nothing
    BY <1>1, <1>4 DEF Behind, Work
  <2>3. /\ phase[r] = "register" => \A f \in FqnsOf(r) : OnRecord(r, f)
        /\ phase[r] = "keys" => \A f \in FqnsOf(r) : OnRecord(r, f) /\ Keyed(r, f)
        /\ \A v \in Entries(r) : config[v] # Nothing
    BY <1>1, <1>4 DEF Behind, Work
  <2>4. /\ phase[r] = "register" => \A f \in FqnsOf(r) : OnRecord(r, f)'
        /\ phase[r] = "keys" => \A f \in FqnsOf(r) : (OnRecord(r, f) /\ Keyed(r, f))'
    BY <1>4, <2>3 DEF OnRecord, Keyed, Once
  <2>5. QED
    BY <1>4, <2>1, <2>2, <2>3, <2>4 DEF Behind, Entries, FqnsOf
<1>5. QED
  BY <1>2, <1>3, <1>4, StartsAJob

\* An entry of a matrix that is a step further.
LEMMA EntryMovesOn ==
  ASSUME PipelineAssumption, TypeOK, StoreInv, RunInv, [Next]_vars, NEW r \in Runs, NEW v \in Versions,
         Push(r, v) \/ Uploads(r, v) \/ Reconcile(r, v)
  PROVE  Behind(r)'
<1>1. /\ tag[r] \in NexusTags /\ Entries(r) \subseteq Versions
      /\ \A f \in FqnsOf(r) : f \in Fqns /\ VersionOf[f] \in Entries(r)
  BY DEF TypeOK, PipelineAssumption, Entries, FqnsOf
<1>2. Behind(r)
  BY DEF RunInv
<1>a. Push(r, v) \/ Upload(r, v) \/ Reconcile(r, v)
  BY UploadsIsUpload
<1>3. /\ phase'[r] = phase[r] /\ tag'[r] = tag[r] /\ holding'[r] = holding[r]
      /\ done'[r] = done[r] \cup {v}
      /\ phase[r] \in {"deploy", "prepare", "toolkit"}
  BY <1>a DEF Push, Upload, Reconcile, At, Through, TypeOK
<1>4. phase[r] = "prepare" => config'[v] # Nothing
  <2>1. CASE Uploads(r, v)
    <3>1. config' = [config EXCEPT ![v] =
            [commit |-> IF config[v] = Nothing THEN CommitOf[r] ELSE config[v].commit,
             nexus |-> tag[r]]]
      BY <2>1, UploadsIsUpload DEF Upload
    <3>2. config[v] # Nothing => config[v].commit \in Commits
      BY DEF TypeOK, Configs
    <3>3. config'[v] \in [commit : Commits, nexus : NexusTags]
      BY <1>1, <3>1, <3>2 DEF TypeOK, PipelineAssumption
    <3>4. QED
      BY <3>3 DEF PipelineAssumption, NexusTags
  <2>2. QED
    BY <2>1 DEF Push, Reconcile, At
<1>5. phase[r] = "toolkit" => Fit(v)' /\ toolkit'[v] = secret'[v]
  BY <1>a DEF Push, Upload, Reconcile, At, TypeOK, secrets, Fit
<1>6. holding'[r] = Nothing
  BY <1>2, <1>3 DEF Behind
<1>7. \A w \in Entries(r) :
        /\ phase[r] = "toolkit" => config'[w] # Nothing
        /\ phase[r] = "prepare" /\ w \in done'[r] => config'[w] # Nothing
        /\ phase[r] = "toolkit" /\ w \in done'[r] => Fit(w)' /\ toolkit'[w] = secret'[w]
  BY <1>1, <1>2, <1>3, <1>4, <1>5, Stable DEF Behind, Fit
<1>8. phase[r] = "toolkit" => \A f \in FqnsOf(r) : (OnRecord(r, f) /\ Keyed(r, f))'
  <2> SUFFICES ASSUME phase[r] = "toolkit", NEW f \in FqnsOf(r)
               PROVE  OnRecord(r, f)' /\ Keyed(r, f)'
    OBVIOUS
  <2>1. OnRecord(r, f) /\ Keyed(r, f)
    BY <1>2 DEF Behind
  <2>2. OnRecord(r, f)'
    BY <1>1, <1>3, <2>1, Stable DEF OnRecord
  <2>3. Keyed(r, f)'
    BY <1>3, <2>1, KeyedStays
  <2>4. QED
    BY <2>2, <2>3
<1>9. QED
  BY <1>3, <1>6, <1>7, <1>8 DEF Behind, Entries, FqnsOf


\* An FQN that is a step further.
LEMMA FqnMovesOn ==
  ASSUME PipelineAssumption, TypeOK, StoreInv, RunInv, [Next]_vars, NEW r \in Runs, NEW f \in Fqns,
         \/ Register(r, f) \/ RegisterKey(r, f)
         \/ AlreadyRegistered(r, f) \/ KeyUnchanged(r, f)
         \/ holding[r] = f /\ (RecordCaps(r) \/ RecordKey(r))
  PROVE  Behind(r)'
<1>1. /\ tag[r] \in NexusTags /\ Entries(r) \subseteq Versions
      /\ \A g \in FqnsOf(r) : g \in Fqns /\ VersionOf[g] \in Entries(r)
  BY DEF TypeOK, PipelineAssumption, Entries, FqnsOf
<1>2. Behind(r)
  BY DEF RunInv
<1>3. /\ phase'[r] = phase[r] /\ tag'[r] = tag[r] /\ phase[r] \in {"register", "keys"}
      /\ f \in FqnsOf(r) \ done[r]
      /\ \/ done'[r] = done[r] /\ holding'[r] = f /\ (Register(r, f) \/ RegisterKey(r, f))
         \/ done'[r] = done[r] \cup {f} /\ holding'[r] = Nothing
            /\ ~Register(r, f) /\ ~RegisterKey(r, f)
  <2>1. CASE Register(r, f)
    BY <2>1 DEF Register, At, TypeOK
  <2>2. CASE RegisterKey(r, f)
    BY <2>2 DEF RegisterKey, At, TypeOK
  <2>3. CASE AlreadyRegistered(r, f)
    <3>1. ~Register(r, f) /\ ~RegisterKey(r, f)
      BY <2>3 DEF AlreadyRegistered, Register, RegisterKey, At
    <3>2. QED
      BY <2>3, <3>1, <1>2 DEF AlreadyRegistered, At, TypeOK, Through, Behind
  <2>4. CASE KeyUnchanged(r, f)
    <3>1. ~Register(r, f) /\ ~RegisterKey(r, f)
      BY <2>4 DEF KeyUnchanged, Register, RegisterKey, At
    <3>2. QED
      BY <2>4, <3>1, <1>2 DEF KeyUnchanged, At, TypeOK, Through, Behind
  <2>5. CASE holding[r] = f /\ (RecordCaps(r) \/ RecordKey(r))
    <3>1. holding[r] # Nothing
      BY <2>5 DEF RecordCaps, RecordKey
    <3>2. ~Register(r, f) /\ ~RegisterKey(r, f)
      BY <3>1 DEF Register, RegisterKey
    <3>3. QED
      BY <1>2, <2>5, <3>1, <3>2 DEF RecordCaps, RecordKey, At, TypeOK, Through, Behind
  <2>6. QED
    BY <2>1, <2>2, <2>3, <2>4, <2>5
<1>4. \A v \in Entries(r) : config'[v] # Nothing
  BY <1>1, <1>2, <1>3, Stable DEF Behind
<1>5. phase[r] = "register" /\ f \in done'[r] => OnRecord(r, f)'
  <2>1. CASE AlreadyRegistered(r, f)
    <3>1. f \in registered[tag[r]] /\ record[f].cap # 0
      BY <2>1 DEF AlreadyRegistered
    <3>2. record[f].cap \in NexusTags /\ f \in registered[record[f].cap]
      BY <3>1 DEF StoreInv, TypeOK, NexusTags, PipelineAssumption
    <3>3. OnRecord(r, f)
      BY <1>1, <3>1, <3>2 DEF OnRecord, Once
    <3>4. QED
      BY <1>1, <1>3, <3>3, Stable DEF OnRecord
  <2>2. CASE holding[r] = f /\ RecordCaps(r)
    <3>1. f \in registered'[tag[r]]
      BY <2>2, RegistrationStep
    <3>2. record'[f].cap = tag[r]
      BY <2>2 DEF RecordCaps, TypeOK
    <3>3. QED
      BY <1>3, <3>1, <3>2 DEF OnRecord
  <2>3. QED
    BY <1>3, <2>1, <2>2 DEF KeyUnchanged, RecordKey, At
<1>6. phase[r] = "keys" => OnRecord(r, f)
  BY <1>2, <1>3 DEF Behind
<1>7. phase[r] = "keys" /\ f \in done'[r] => Keyed(r, f)'
  <2>1. CASE KeyUnchanged(r, f) /\ Fit(VersionOf[f])
    <3> DEFINE k == secret[VersionOf[f]]
    <3>1. record[f].hash = k /\ phase[r] = "keys" /\ k \in Runs
      BY <2>1 DEF KeyUnchanged, At, Fit
    <3>2. PICK t \in NexusTags : chain_key[t][f] = k
      BY <3>1 DEF StoreInv
    <3>3. f \in registered[t]
      BY <3>1, <3>2 DEF StoreInv, PipelineAssumption
    <3>4. f \in registered[tag[r]]
      BY <1>6, <3>1 DEF OnRecord
    <3>5. Keyed(r, f)
      BY <1>1, <3>2, <3>3, <3>4 DEF Keyed, Once
    <3>6. QED
      BY <1>3, <3>1, <3>5, KeyedStays
  <2>2. CASE holding[r] = f /\ RecordKey(r)
    <3>1. phase[r] = "keys" /\ holding[r] # Nothing
      BY <2>2 DEF RecordKey, At
    <3>2. chain_key[tag[r]][f] = secret[VersionOf[f]]
      BY <1>2, <2>2, <3>1 DEF Behind
    <3>3. Keyed(r, f)
      BY <1>1, <3>2 DEF Keyed
    <3>4. QED
      BY <1>3, <3>1, <3>3, KeyedStays
  <2>3. CASE KeyUnchanged(r, f) /\ ~Fit(VersionOf[f])
    BY <2>3 DEF KeyUnchanged, Keyed, Fit, chain, secrets
  <2>4. QED
    BY <1>3, <2>1, <2>2, <2>3 DEF AlreadyRegistered, RecordCaps, At
<1>8. ASSUME NEW g \in FqnsOf(r)
      PROVE  /\ phase[r] = "keys" \/ (phase[r] = "register" /\ g \in done'[r]) => OnRecord(r, g)'
             /\ phase[r] = "keys" /\ g \in done'[r] => Keyed(r, g)'
  <2>1. OnRecord(r, g) => OnRecord(r, g)'
    BY <1>1, <1>3, Stable DEF OnRecord
  <2>3. phase[r] = "keys" /\ Keyed(r, g) => Keyed(r, g)'
    BY <1>3, KeyedStays
  <2>4. phase[r] = "keys" => OnRecord(r, g)
    BY <1>2 DEF Behind
  <2>5. g # f /\ g \in done'[r] => g \in done[r]
    BY <1>3
  <2>6. /\ phase[r] = "register" /\ g \in done[r] => OnRecord(r, g)
        /\ phase[r] = "keys" /\ g \in done[r] => Keyed(r, g)
    BY <1>2 DEF Behind
  <2>7. QED
    BY <1>5, <1>7, <2>1, <2>3, <2>4, <2>5, <2>6
<1>9. holding'[r] # Nothing =>
        /\ holding'[r] \in FqnsOf(r) \ done'[r] /\ phase'[r] \in {"register", "keys"}
        /\ phase'[r] = "register" => holding'[r] \in registered'[tag'[r]]
        /\ phase'[r] = "keys" =>
             chain_key'[tag'[r]][holding'[r]] = secret'[VersionOf[holding'[r]]]
  <2>1. CASE Register(r, f)
    <3>1. f \in registered'[tag[r]] /\ phase[r] = "register"
      BY <2>1, RegistrationStep DEF Register, At
    <3>2. QED
      BY <1>3, <3>1
  <2>2. CASE RegisterKey(r, f)
    <3>1. chain_key'[tag[r]][f] = secret'[VersionOf[f]]
      BY <2>2, RegistrationStep
    <3>2. phase[r] = "keys"
      BY <2>2 DEF RegisterKey, At
    <3>3. QED
      BY <1>3, <2>2, <3>1, <3>2
  <2>3. QED
    BY <1>3, <2>1, <2>2
<1>10. QED
  BY <1>3, <1>4, <1>8, <1>9 DEF Behind, Entries, FqnsOf

LEMMA Applied ==
  ASSUME PipelineAssumption, TypeOK, StoreInv, RunInv, NEW r \in Runs, Apply(r)
  PROVE  Behind(r)'
<1>1. /\ phase[r] = "apply" /\ phase'[r] = "green" /\ service' = config
      /\ UNCHANGED <<tag, done, holding, secret, toolkit, config, registered, chain_key, record>>
  BY DEF Apply, At, TypeOK, secrets, bucket, chain
<1>2. QED
  BY <1>1 DEF RunInv, Behind, OnRecord, Keyed, Once, Entries, FqnsOf, Fit

\* A job starts when no run is executed, or in the run that is.
LEMMA OneUpStep ==
  ASSUME PipelineAssumption, TypeOK, RunInv, [Next]_vars
  PROVE  OneIsUp'
<1>1. ASSUME NEW r \in Runs, Start(r) \/ RunAgain(r) \/ Proceed(r)
      PROVE  OneIsUp'
  <2>1. \A q \in Runs : up[q] => q = r
    BY <1>1 DEF Start, RunAgain, Proceed, GroupIsFree, RunInv, OneIsUp
  <2>2. \A q \in Runs : up'[q] => up[q] \/ q = r
    <3>1. up' = [up EXCEPT ![r] = TRUE] \/ up' = up
      BY <1>1, StartsAJob DEF StartJob
    <3>2. QED
      BY <3>1 DEF TypeOK
  <2>3. QED
    BY <2>1, <2>2 DEF OneIsUp
<1>2. ASSUME \A q \in Runs : up'[q] => up[q]
      PROVE  OneIsUp'
  BY <1>2 DEF RunInv, OneIsUp
<1>3. ASSUME NEW r \in Runs, Fail(r) \/ Apply(r) PROVE OneIsUp'
  BY <1>2, <1>3 DEF Fail, Apply, TypeOK
<1>4. ASSUME NEW r \in Runs, NEW v \in Versions,
             Push(r, v) \/ GenerateKeys(r, v) \/ Uploads(r, v) \/ Reconcile(r, v)
      PROVE  OneIsUp'
  BY <1>2, <1>4, UploadsIsUpload DEF Push, GenerateKeys, Upload, Reconcile, run
<1>5. ASSUME NEW r \in Runs, NEW f \in Fqns,
             \/ Register(r, f) \/ AlreadyRegistered(r, f)
             \/ RegisterKey(r, f) \/ KeyUnchanged(r, f)
      PROVE  OneIsUp'
  BY <1>2, <1>5 DEF Register, AlreadyRegistered, RegisterKey, KeyUnchanged
<1>6. ASSUME NEW r \in Runs, RecordCaps(r) \/ RecordKey(r) PROVE OneIsUp'
  BY <1>2, <1>6 DEF RecordCaps, RecordKey
<1>7. CASE BumpTag \/ UNCHANGED vars
  BY <1>2, <1>7 DEF BumpTag, run, vars
<1>8. QED
  BY <1>1, <1>3, <1>4, <1>5, <1>6, <1>7 DEF Next, Step, Uploads

LEMMA RunStep ==
  ASSUME PipelineAssumption, TypeOK, StoreInv, RunInv, [Next]_vars
  PROVE  RunInv'
<1> SUFFICES ASSUME NEW q \in Runs PROVE Behind(q)'
  BY OneUpStep DEF RunInv
<1>1. ASSUME NEW r \in Runs, Start(r) \/ RunAgain(r) \/ Proceed(r) \/ Fail(r)
      PROVE  Behind(q)'
  <2>1. CASE q = r
    BY <1>1, <2>1, MovesOn
  <2>2. CASE q # r
    <3>1. /\ phase'[q] = phase[q] /\ tag'[q] = tag[q]
          /\ done'[q] = done[q] /\ holding'[q] = holding[q]
      <4>1. CASE Fail(r)
        BY <2>2, <4>1 DEF Fail, TypeOK
      <4>2. CASE Start(r) \/ RunAgain(r) \/ Proceed(r)
        <5>1. \/ \E job \in {"deploy", "prepare", "register", "apply"} : StartJob(r, job)
              \/ /\ phase' = [phase EXCEPT ![r] = After[phase[r]]]
                 /\ done' = [done EXCEPT ![r] = {}]
                 /\ UNCHANGED <<tag, holding>>
          BY <4>2, StartsAJob
        <5>2. QED
          BY <2>2, <5>1 DEF StartJob, TypeOK
      <4>3. QED
        BY <1>1, <4>1, <4>2
    <3>2. QED
      BY <3>1, OthersStay
  <2>3. QED
    BY <2>1, <2>2
<1>2. ASSUME NEW r \in Runs, NEW v \in Versions,
             Push(r, v) \/ Uploads(r, v) \/ Reconcile(r, v) \/ GenerateKeys(r, v)
      PROVE  Behind(q)'
  <2>1. CASE q = r /\ ~GenerateKeys(r, v)
    BY <1>2, <2>1, EntryMovesOn
  <2>2. CASE q # r \/ GenerateKeys(r, v)
    <3>1. /\ phase'[q] = phase[q] /\ tag'[q] = tag[q]
          /\ done'[q] = done[q] /\ holding'[q] = holding[q]
      BY <1>2, <2>2, UploadsIsUpload DEF Push, Upload, Reconcile, GenerateKeys, Through, TypeOK, run
    <3>2. QED
      BY <3>1, OthersStay
  <2>3. QED
    BY <2>1, <2>2
<1>3. ASSUME NEW r \in Runs, NEW f \in Fqns,
             \/ Register(r, f) \/ RegisterKey(r, f)
             \/ AlreadyRegistered(r, f) \/ KeyUnchanged(r, f)
             \/ holding[r] = f /\ (RecordCaps(r) \/ RecordKey(r))
      PROVE  Behind(q)'
  <2>1. CASE q = r
    BY <1>3, <2>1, FqnMovesOn
  <2>2. CASE q # r
    <3>1. /\ phase'[q] = phase[q] /\ tag'[q] = tag[q]
          /\ done'[q] = done[q] /\ holding'[q] = holding[q]
      BY <1>3, <2>2 DEF Register, RegisterKey, AlreadyRegistered, KeyUnchanged, RecordCaps,
                        RecordKey, Through, TypeOK
    <3>2. QED
      BY <3>1, OthersStay
  <2>3. QED
    BY <2>1, <2>2
<1>4. ASSUME NEW r \in Runs, Apply(r) PROVE Behind(q)'
  <2>1. CASE q = r
    BY <1>4, <2>1, Applied
  <2>2. CASE q # r
    BY <1>4, <2>2, OthersStay DEF Apply, TypeOK
  <2>3. QED
    BY <2>1, <2>2
<1>5. CASE BumpTag
  BY <1>5, OthersStay DEF BumpTag, run
<1>6. CASE UNCHANGED vars
  BY <1>6, OthersStay DEF vars
<1>7. \A r \in Runs : RecordCaps(r) \/ RecordKey(r) => holding[r] \in Fqns
  BY DEF RecordCaps, RecordKey, TypeOK
<1>8. QED
  BY <1>1, <1>2, <1>3, <1>4, <1>5, <1>6, <1>7 DEF Next, Step, Uploads

-----------------------------------------------------------------------------

IInv == TypeOK /\ StoreInv /\ RunInv

THEOREM Invariant == Spec => []IInv
<1>1. Init => IInv
  BY PipelineAssumption, TypeInit, InitStores DEF IInv
<1>2. IInv /\ [Next]_vars => IInv'
  BY PipelineAssumption, TypeStep, StoreStep, RunStep DEF IInv
<1>3. QED
  BY <1>1, <1>2, PTL DEF Spec

\* Every variable keeps to its type, every run to the work of its phase.
THEOREM TypeCorrect == Spec => []TypeOK
BY Invariant, PTL DEF IInv

\* The keys that a run generated are never replaced, on chain or in the Toolkit
\* config: what is found there is the secret of the version, or an outdated one that
\* was there before any run of today.
THEOREM KeysAreKept == Spec => []KeysStay
BY Invariant, PTL DEF IInv, StoreInv

\* The Toolkit config gets no keys of a run before each of them was registered: the
\* keys step is through all FQNs, and nobody generates keys anew meanwhile.
THEOREM SignsWhatIsRegistered == Spec => []SignsRegistered
BY Invariant, PTL DEF IInv, StoreInv

\* A green run has its tools deployed from images of their versions, registered
\* and on record, and signing with the registered key, for any number of runs,
\* failures and runs again.
THEOREM Served == Spec => []GreenIsServed
<1>1. IInv => GreenIsServed
  <2> SUFFICES ASSUME IInv, NEW r \in Runs, phase[r] = "green"
               PROVE  /\ \A v \in Entries(r) :
                           service[v] # Nothing /\ <<v, service[v].commit>> \in images
                      /\ \A f \in FqnsOf(r) :
                           /\ f \in registered[tag[r]]
                           /\ Once(f) => /\ record[f].cap = tag[r]
                                         /\ toolkit[VersionOf[f]] # Nothing
                                         /\ chain_key[tag[r]][f] = toolkit[VersionOf[f]]
    BY DEF GreenIsServed
  <2>1. /\ Entries(r) \subseteq Versions
        /\ \A f \in FqnsOf(r) : VersionOf[f] \in Entries(r)
    BY PipelineAssumption DEF PipelineAssumption, Entries, FqnsOf
  <2>2. Behind(r) /\ StoreInv
    BY DEF IInv, RunInv
  <2>3. \A v \in Entries(r) : service[v] # Nothing /\ <<v, service[v].commit>> \in images
    BY <2>1, <2>2 DEF Behind, StoreInv
  <2>4. \A v \in Entries(r) : toolkit[v] = secret[v] /\ secret[v] # Nothing /\ Fit(v)
    BY <2>1, <2>2 DEF Behind, StoreInv
  <2>5. \A f \in FqnsOf(r) : OnRecord(r, f) /\ Keyed(r, f)
    BY <2>2 DEF Behind
  <2>6. QED
    BY <2>1, <2>3, <2>4, <2>5 DEF OnRecord, Keyed, Fit
<1>2. QED
  BY <1>1, Invariant, PTL
=============================================================================
