---------------------------- MODULE MCShellJobs ----------------------------
(* Model-checking instance of ShellJobs. *)
EXTENDS ShellJobs, TLC

\* Jobs are interchangeable in the safety runs.
JobSymmetry == Permutations(Jobs)
=============================================================================
