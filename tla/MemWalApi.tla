----------------------------- MODULE MemWalApi -----------------------------
(***************************************************************************)
(* What the memory-memwal tools and the MemWal relayer say to each other   *)
(* about jobs.  The relayer itself is not in this repository: how a job    *)
(* moves, and what a status answer may hold, is what client.rs expects.    *)
(* An Option<String> is a set with at most one element.                    *)
(***************************************************************************)

None == {}
Some(x) == {x}

\* JobStatus of client.rs.  "unknown" is what serde makes of a status the tool
\* has no name for: a job is never in it, an answer may hold it.
IsInProgress(status) == status \in {"pending", "running", "uploaded"}
IsTerminal(status) == status \in {"done", "failed"}

\* The states of a job in the relayer; "absent" before the relayer accepted it.
JobState == {"absent", "pending", "running", "uploaded", "done", "failed"}

\* An accepted job goes on by itself: neither an answer that is lost nor a
\* caller that is gone stops it.  A terminal job does not move again.
JobSteps(state) ==
  CASE state = "pending"  -> {"running", "failed"}
    [] state = "running"  -> {"uploaded", "failed"}
    [] state = "uploaded" -> {"done", "failed"}
    [] OTHER              -> {}

\* What a status answer says of a job whose blob, once stored, is b.
\* The body may omit blob_id, and may name a status of a later relayer.
Reports(state, b) ==
  {[status |-> state, blob_id |-> None], [status |-> "unknown", blob_id |-> None]}
    \cup (IF state = "done" THEN {[status |-> state, blob_id |-> Some(b)]} ELSE {})

Report(Blob) ==
  [status : JobState \cup {"unknown"},
   blob_id : {None} \cup {Some(b) : b \in Blob}]

\* How a request fails, as MemWalError: no answer within the time limit, or
\* one that does not parse ("request"); 429; every other non-2xx status.
HttpErrors == {"request", "rateLimited", "server"}
============================================================================
