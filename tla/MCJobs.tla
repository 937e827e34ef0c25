------------------------------- MODULE MCJobs -------------------------------
(***************************************************************************)
(* A service's job whose class comes with the deploy, and a job of a model *)
(* whose class goes with it or, in its place, one of an unknown type.      *)
(***************************************************************************)
EXTENDS Jobs, TLC

CONSTANTS service, other      \* jobs

MCKinds == {service :> "static" @@ other :> k : k \in {"model", "unknown"}}
=============================================================================
