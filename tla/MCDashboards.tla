---------------------------- MODULE MCDashboards ----------------------------
(* Instances of Dashboards for TLC. *)
EXTENDS Dashboards

CONSTANTS e1, e2, c1, s1, s2

TwoStudents == [e \in {e1, e2} |-> IF e = e1 THEN "ann" ELSE "bob"]
OneInstructor == [c \in {c1} |-> "eve"]

\* One server computes the overview, the other every other report.
SplitPaths == [s \in {s1, s2} |->
                  IF s = s1 THEN {"overview"} ELSE {"courses", "enrollments"}]

\* The service starts with one completed enrollment, or with one course.
Nothing == [enrolled |-> {}, completed |-> {}, aged |-> {}, known |-> {}]
StartTables == {[Nothing EXCEPT !.enrolled = {e1}, !.completed = {e1}],
            [Nothing EXCEPT !.known = {c1}]}

=============================================================================
