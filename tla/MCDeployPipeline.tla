-------------------------- MODULE MCDeployPipeline --------------------------
(***************************************************************************)
(* A repository for model checking DeployPipeline: a tool of two FQNs and  *)
(* two commits that leave it as it is, so it has one version.  An earlier  *)
(* pipeline may have deployed it, and left a secret that is malformed, of  *)
(* one of the FQNs, or of both, with a legacy Toolkit config.              *)
(***************************************************************************)
EXTENDS DeployPipeline, TLC

CONSTANTS r1, r2, c0, c1, c2, math, math1, add1, mul1

CheckedCommitOf == (r1 :> c1) @@ (r2 :> c2)

CheckedMatrix == [c \in {c0, c1, c2} |-> {math1}]

CheckedToolOf == math1 :> math

CheckedVersionOf == [f \in {add1, mul1} |-> math1]

CheckedOutdated == {{}, {add1}, {add1, mul1}}
=============================================================================
