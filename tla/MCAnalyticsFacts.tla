-------------------------- MODULE MCAnalyticsFacts --------------------------
(* Instances of AnalyticsFacts for TLC. *)
EXTENDS AnalyticsFacts

CONSTANTS created, completed, e1

TwoTopics == [s \in {created, completed} |->
                 IF s = created THEN "enrollment.created" ELSE "enrollment.completed"]

=============================================================================
