---------------------------- MODULE MCDeadLetter ----------------------------
(* Instances of DeadLetter for TLC. *)
EXTENDS DeadLetter, TLC

CONSTANTS certificate, analytics, m1, m2

\* certificate and analytics both consume enrollment.completed, and so share
\* enrollment.completed.dlq and enrollment.completed.failed.
SharedTopic == [s \in {certificate, analytics} |-> "enrollment.completed"]

\* Both services run the same code on the same topic.
ServiceSymmetry == Permutations({certificate, analytics})

=============================================================================
