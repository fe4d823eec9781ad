-------------------------- MODULE MCParallelLimit --------------------------
(* Instance of ParallelLimit for TLC. *)
EXTENDS ParallelLimit

\* A negative or zero limit starts no worker, 1 is sequential, 2 leaves fewer
\* workers than tasks and 4 is above the number of tasks.
MCLimits == {-1, 0, 1, 2, 4}

MCPositiveLimits == {1, 2}

=============================================================================
