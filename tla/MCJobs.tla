------------------------------- MODULE MCJobs -------------------------------
(***************************************************************************)
(* Two jobs, so that one can be submitted while the watcher is at the      *)
(* other; the constants are given in the configurations.  Jobs are alike:  *)
(* the safety run takes them as a symmetric set.                           *)
(***************************************************************************)
EXTENDS JobFsm, TLC

AnyJob == Permutations(Job)
=============================================================================
