---------------------------- MODULE MCJobQueue ----------------------------
(* Instances of JobQueue for TLC: job 2's kind has no registered handler   *)
(* in the instances with two jobs.                                         *)
EXTENDS JobQueue

OneJob   == {1}
TwoJobs  == {1, 2}
JobOne   == {1}
=============================================================================
