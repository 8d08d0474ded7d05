-------------------------- MODULE CoursePublishing --------------------------
(***************************************************************************)
(* The status of one course.  Two Temporal workflows move it, each at most *)
(* once in the course's life, since the workflow's id is never reused:     *)
(*                                                                         *)
(*   PublishCourseWorkflow   validate -> transition -> notify -> emit      *)
(*   ArchiveCourseWorkflow   validate -> transition -> notify              *)
(*                                                                         *)
(* "validate" reads the row in one transaction and "transition" writes the *)
(* status in another, without looking at it again.  Meanwhile the course   *)
(* can be edited: PATCH /courses/<id> writes any column, the status too,   *)
(* and lessons are added, never removed.                                   *)
(*                                                                         *)
(* An attempt of an activity that times out or dies may have committed, or *)
(* may commit later; Temporal retries it all the same, for ever where the  *)
(* workflow gives no retry policy.                                         *)
(***************************************************************************)
EXTENDS Integers

CONSTANTS
    Attempts,     \* maximum_attempts of the notify and emit activities
    PatchTo,      \* the statuses that clients write with PATCH
    MaxFaults,    \* bound: attempts that fail
    MaxDrops,     \* bound: events dropped
    MaxEdits      \* bound: PATCH requests

Statuses == {"draft", "published", "archived"}

ASSUME PublishingAssumption ==
    /\ Attempts \in Nat \ {0} /\ PatchTo \subseteq Statuses
    /\ MaxFaults \in Nat /\ MaxDrops \in Nat /\ MaxEdits \in Nat

VARIABLES
    status, described, taught,  \* the course: its status, has it a description, a lesson?
    at,         \* where each workflow stands, or how it ended
    byOwner,    \* it was started by the course's instructor
    tries,      \* failed attempts of its activity
    late,       \* its transition attempts that were given up and may yet commit
    announced,  \* the course.published events published
    patched,    \* ghost: a PATCH wrote the status
    unsure,     \* ghost: a transition attempt that failed had an effect, or may have one
    faults, drops, edits

course == <<status, described, taught>>
flows == <<at, byOwner, tries, late>>
vars == <<course, flows, announced, patched, unsure, faults, drops, edits>>

Flows == {"publish", "archive"}
Ended == {"completed", "failed"}
Activities == {"validate", "transition", "notify", "emit"}

Target(f) == IF f = "publish" THEN "published" ELSE "archived"

\* Activities with no retry policy are retried for ever.
Limited(a) == a \in {"notify", "emit"}

\* What follows activity a of workflow f.
After(f, a) == CASE a = "validate" -> "transition"
                 [] a = "transition" -> "notify"
                 [] a = "notify" /\ f = "publish" -> "emit"
                 [] OTHER -> "completed"

\* The workflow f leaves its activity for place.
Goto(f, place) == at' = [at EXCEPT ![f] = place] /\ tries' = [tries EXCEPT ![f] = 0]

-----------------------------------------------------------------------------
\* A course is created as a draft, with a description or without.
Init ==
    /\ status = "draft" /\ described \in BOOLEAN /\ taught = FALSE
    /\ at = [f \in Flows |-> "none"] /\ byOwner = [f \in Flows |-> FALSE]
    /\ tries = [f \in Flows |-> 0] /\ late = [f \in Flows |-> 0]
    /\ announced = 0 /\ patched = FALSE /\ unsure = FALSE
    /\ faults = 0 /\ drops = 0 /\ edits = 0

\* The instructor adds a lesson.
AddLesson ==
    /\ ~ taught /\ taught' = TRUE
    /\ UNCHANGED <<status, described, flows, announced, patched, unsure, faults, drops, edits>>

\* update_course: sets the columns that the client sent.
Update ==
    /\ edits < MaxEdits /\ edits' = edits + 1
    /\ \/ described' \in BOOLEAN /\ UNCHANGED <<status, patched>>
       \/ status' \in PatchTo /\ patched' = TRUE /\ UNCHANGED described
    /\ UNCHANGED <<taught, flows, announced, unsure, faults, drops>>

\* publish_course and archive_course, called by any instructor: the workflow starts unless
\* one with its id was ever started.
Start(f) ==
    /\ at[f] = "none"
    /\ Goto(f, "validate")
    /\ \E owner \in BOOLEAN : byOwner' = [byOwner EXCEPT ![f] = owner]
    /\ UNCHANGED <<course, late, announced, patched, unsure, faults, drops, edits>>

\* Mutant: the lessons are not counted.
ValidUntaught(f) ==
    /\ byOwner[f]
    /\ IF f = "publish" THEN status = "draft" /\ described ELSE status = "published"

\* validate_publish_activity and validate_archive_activity let the workflow go on.
Valid(f) ==
    /\ byOwner[f]
    /\ IF f = "publish" THEN status = "draft" /\ described /\ taught
                        ELSE status = "published"

\* The validation reads the course; a refusal is not retried, and fails the workflow.
Validate(f) ==
    /\ at[f] = "validate"
    /\ Goto(f, IF Valid(f) THEN After(f, "validate") ELSE "failed")
    /\ UNCHANGED <<course, byOwner, late, announced, patched, unsure, faults, drops, edits>>

\* Mutant: the workflow moves on and leaves the write to a background task.
TransitionLater(f) ==
    /\ at[f] = "transition"
    /\ late' = [late EXCEPT ![f] = @ + 1]
    /\ Goto(f, After(f, "transition"))
    /\ UNCHANGED <<course, byOwner, announced, patched, unsure, faults, drops, edits>>

\* transition_course_status_activity commits and reports.
Transition(f) ==
    /\ at[f] = "transition"
    /\ status' = Target(f)
    /\ Goto(f, After(f, "transition"))
    /\ UNCHANGED <<described, taught, byOwner, late, announced, patched, unsure,
                   faults, drops, edits>>

\* An attempt that was given up commits at last.
LandLate(f) ==
    /\ late[f] > 0 /\ late' = [late EXCEPT ![f] = @ - 1]
    /\ status' = Target(f)
    /\ UNCHANGED <<described, taught, at, byOwner, tries, announced, patched, unsure,
                   faults, drops, edits>>

\* The notification is a stub that only logs.
Notify(f) ==
    /\ at[f] = "notify"
    /\ Goto(f, After(f, "notify"))
    /\ UNCHANGED <<course, byOwner, late, announced, patched, unsure, faults, drops, edits>>

\* emit_course_published_event_activity: the send's outcome is never looked at.
Emit(f) ==
    /\ at[f] = "emit"
    /\ Goto(f, After(f, "emit"))
    /\ \/ announced' = announced + 1 /\ UNCHANGED drops
       \/ drops < MaxDrops /\ drops' = drops + 1 /\ UNCHANGED announced
    /\ UNCHANGED <<course, byOwner, late, patched, unsure, faults, edits>>

\* Mutant: one attempt too many.
RetryPastLimit(f) ==
    IF Limited(at[f]) /\ tries[f] = Attempts
    THEN Goto(f, "failed")
    ELSE tries' = [tries EXCEPT ![f] = IF Limited(at[f]) THEN @ + 1 ELSE @] /\ UNCHANGED at

\* The retry policy after a failed attempt: another one, or the workflow fails.
Retry(f) ==
    IF Limited(at[f]) /\ tries[f] + 1 = Attempts
    THEN Goto(f, "failed")
    ELSE tries' = [tries EXCEPT ![f] = IF Limited(at[f]) THEN @ + 1 ELSE @] /\ UNCHANGED at

\* Mutant: a failed attempt fails the workflow, as with maximum_attempts = 1.
AttemptFailsOnce(f) ==
    /\ at[f] \in Activities
    /\ faults < MaxFaults /\ faults' = faults + 1
    /\ Goto(f, "failed")
    /\ UNCHANGED <<course, byOwner, late, announced, patched, unsure, drops, edits>>

\* An attempt fails before it did anything, or when what it did is done: the process dies,
\* or the report of its end is lost.
AttemptFails(f) ==
    /\ at[f] \in Activities
    /\ faults < MaxFaults /\ faults' = faults + 1
    /\ \/ UNCHANGED <<status, late, announced, unsure>>
       \/ /\ at[f] = "transition" /\ status' = Target(f) /\ unsure' = TRUE
          /\ UNCHANGED <<late, announced>>
       \/ /\ at[f] = "transition" /\ late' = [late EXCEPT ![f] = @ + 1] /\ unsure' = TRUE
          /\ UNCHANGED <<status, announced>>
       \/ /\ at[f] = "emit" /\ announced' = announced + 1
          /\ UNCHANGED <<status, late, unsure>>
    /\ Retry(f)
    /\ UNCHANGED <<described, taught, byOwner, patched, drops, edits>>

RunActivity(f) == Validate(f) \/ Transition(f) \/ Notify(f) \/ Emit(f)

Next == \/ AddLesson \/ Update
        \/ \E f \in Flows : Start(f) \/ RunActivity(f) \/ AttemptFails(f) \/ LandLate(f)

Spec == Init /\ [][Next]_vars

\* Temporal keeps scheduling the activities of a running workflow.
FairSpec == Spec /\ \A f \in Flows : WF_vars(RunActivity(f))

-----------------------------------------------------------------------------
TypeOK ==
    /\ status \in Statuses /\ described \in BOOLEAN /\ taught \in BOOLEAN
    /\ at \in [Flows -> Activities \cup Ended \cup {"none"}]
    /\ byOwner \in [Flows -> BOOLEAN]
    /\ tries \in [Flows -> 0..(Attempts - 1)] /\ late \in [Flows -> Nat]
    /\ announced \in Nat /\ patched \in BOOLEAN /\ unsure \in BOOLEAN
    /\ faults \in Nat /\ drops \in Nat /\ edits \in Nat

\* Whatever attempts are repeated or land late, the workflows take no course out of draft
\* but one with a lesson, at its instructor's request.  (Its description may have been
\* removed since it was validated.)
PublishedWasValid ==
    status # "draft" /\ ~ patched => taught /\ byOwner["publish"]

\* They archive no course that they did not publish first.
ArchivedWasPublished ==
    status = "archived" /\ ~ patched =>
        byOwner["archive"] /\ at["publish"] \in (Activities \cup Ended) \ {"validate"}

\* course.published tells of no course that is still a draft.
AnnouncedIsPublished == announced > 0 /\ ~ patched => status # "draft"

\* With no transition attempt in doubt, two workflows that write the status blindly still
\* never take a course out of the archive.
ArchivedStays ==
    [][status = "archived" /\ ~ unsure /\ ~ patched' => status' = "archived"]_vars

\* Ready to be published, in the sense of CourseLife.
Ready == taught /\ byOwner["publish"]

Life == INSTANCE CourseLife WITH ready <- Ready, edited <- patched, doubtful <- unsure

\* However the workflows interleave with edits, failed attempts and late ones, the course
\* lives the life of CourseLife.
ImplementsLife == Life!Spec

\* "Only draft courses can be published": the workflows publish none but a draft.
OnlyDraftsArePublished ==
    [][status # "published" /\ status' = "published" => status = "draft"]_vars

\* A course that its workflow published is announced: the retries absorb fewer faults than
\* an activity has attempts, and only a dropped event is lost beside that.
PublishedIsAnnounced ==
    status = "published" /\ ~ patched ~>
        patched \/ announced > 0 \/ drops > 0 \/ faults >= Attempts

=============================================================================
