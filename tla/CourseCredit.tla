----------------------------- MODULE CourseCredit -----------------------------
(***************************************************************************)
(* What the enrollment and the certificate service promise together of one *)
(* student in one course: lessons are done and stay done; the enrollment   *)
(* is completed, for good, only at a moment when the lessons done are, but *)
(* for one in 200, those the course began with; only a completed one is    *)
(* announced; and only what was announced is certified, once.  There are   *)
(* no requests, workflows, topics or retries here.  CompletionPipeline     *)
(* implements this.                                                        *)
(***************************************************************************)
EXTENDS Naturals, FiniteSets

CONSTANTS Lessons, Initial      \* as in LessonProgress

VARIABLES
    lessons,        \* the lessons of the course
    done,           \* those that the student has done
    status,         \* "enrolled" or "completed"
    announced,      \* the completion was announced
    certificate     \* the certificates issued

vars == <<lessons, done, status, announced, certificate>>

Init ==
    /\ lessons = Initial /\ done = {} /\ status = "enrolled"
    /\ announced = FALSE /\ certificate = 0

\* The course grows.
Teach ==
    /\ lessons' \in SUBSET Lessons /\ lessons \subseteq lessons'
    /\ UNCHANGED <<done, status, announced, certificate>>

\* With these lessons done the enrollment may be completed.
Enough(some) == 200 * Cardinality(Initial \ some) <= Cardinality(lessons)

\* The student does lessons, and that or a look at the progress may complete the enrollment.
Study ==
    /\ done' \in SUBSET lessons /\ done \subseteq done'
    /\ status' = status \/ (status' = "completed" /\ Enough(done'))
    /\ UNCHANGED <<lessons, announced, certificate>>

\* The completion is announced; saying it again changes nothing.
Announce ==
    /\ status = "completed" /\ announced' = TRUE
    /\ UNCHANGED <<lessons, done, status, certificate>>

\* The certificate is issued.
Certify ==
    /\ announced /\ certificate = 0 /\ certificate' = 1
    /\ UNCHANGED <<lessons, done, status, announced>>

Next == Teach \/ Study \/ Announce \/ Certify

Spec == Init /\ [][Next]_vars

=============================================================================
