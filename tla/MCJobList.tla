----------------------------- MODULE MCJobList ------------------------------
(* The job list alone, with one process per slot.                          *)
EXTENDS JobList

FourPids == 1..4

=============================================================================
