----------------------------- MODULE CourseLife -----------------------------
(***************************************************************************)
(* What the course service promises of the life of a course to those who   *)
(* see its status or its events: it is published only when it is ready,    *)
(* from draft to published to archived and never back, and is announced    *)
(* only once it is out of draft.  Two things loosen this: a status written *)
(* by hand binds nobody, and while the outcome of a write is in doubt the  *)
(* write may be repeated, which can take a course out of the archive - but *)
(* never into the archive from draft, nor back to draft.  CoursePublishing *)
(* implements this, with two workflows, retries and writes that land late. *)
(***************************************************************************)
EXTENDS Naturals

VARIABLES
    status,     \* the status that is seen
    ready,      \* the course has lessons, and its instructor wants it published
    announced,  \* the course.published events published
    edited,     \* the status was written by hand
    doubtful    \* the outcome of a write is not known

vars == <<status, ready, announced, edited, doubtful>>

Init ==
    /\ status = "draft" /\ announced = 0
    /\ ready = FALSE /\ edited = FALSE /\ doubtful = FALSE

\* The moves of a course that nobody edited.
Publish == status = "draft" /\ ready /\ status' = "published"
Archive == status = "published" /\ status' = "archived"

\* A repeated write takes effect again.
PublishAgain == doubtful /\ status = "archived" /\ status' = "published"

\* Whatever the status was edited to, it is published or archived from there.
MoveEdited == edited /\ status' \in {"published", "archived"}

\* The course moves, and it may be that the one who moves it does not learn of it.
Move ==
    /\ Publish \/ Archive \/ PublishAgain \/ MoveEdited
    /\ doubtful' \in {doubtful, TRUE}
    /\ UNCHANGED <<ready, announced, edited>>

\* The outcome of a write is lost, and the write may still happen.
Doubt == doubtful' = TRUE /\ UNCHANGED <<status, ready, announced, edited>>

\* Once ready, a course stays so: lessons are not removed.
Prepare == ready' = TRUE /\ UNCHANGED <<status, announced, edited, doubtful>>

\* The status is written by hand.
Edit ==
    /\ edited' = TRUE
    /\ status' \in {"draft", "published", "archived"}
    /\ UNCHANGED <<ready, announced, doubtful>>

\* The publication is announced.
Announce ==
    /\ status # "draft" \/ edited
    /\ announced' = announced + 1
    /\ UNCHANGED <<status, ready, edited, doubtful>>

Next == Move \/ Doubt \/ Prepare \/ Edit \/ Announce

Spec == Init /\ [][Next]_vars

=============================================================================
