--------------------------- MODULE EnrollmentSaga ---------------------------
(***************************************************************************)
(* The enrollment of one student in one course: POST /enrollments starts   *)
(* EnrollmentWorkflow under an id made of the two, and the workflow runs   *)
(*                                                                         *)
(*    validate -> create -> email -> emit created                          *)
(*                            \________\___> cancel -> emit cancelled      *)
(*                                                                         *)
(* as Temporal activities.  Temporal records each completed step durably   *)
(* and runs an activity again when an attempt raises or times out, up to   *)
(* its maximum_attempts (no limit for validate and create).  An attempt    *)
(* that timed out may still be running: its effect can land later, after   *)
(* other attempts, other steps and even other runs.                        *)
(*                                                                         *)
(* Different students and courses share no row and no workflow id, so one  *)
(* pair is modelled; it may be enrolled again after a failed run.          *)
(***************************************************************************)
EXTENDS Integers, FiniteSets

CONSTANTS
    EmailAttempts,      \* maximum_attempts of send_enrollment_email_activity
    EmitAttempts,       \* of emit_enrollment_created_event_activity
    CancelAttempts,     \* of cancel_enrollment_activity
    TombstoneAttempts,  \* of emit_enrollment_cancelled_event_activity
    MaxRuns,            \* bound: workflow runs
    MaxFaults,          \* bound: attempts that fail, and events dropped
    MaxLate             \* bound: failed attempts whose effect is still under way

ASSUME SagaAssumption ==
    /\ EmailAttempts \in Nat \ {0} /\ EmitAttempts \in Nat \ {0}
    /\ CancelAttempts \in Nat \ {0} /\ TombstoneAttempts \in Nat \ {0}
    /\ MaxRuns \in Nat /\ MaxFaults \in Nat /\ MaxLate \in Nat

VARIABLES
    published,  \* the course is published, as the course service answers
    wf,         \* status of the latest run of workflow enroll-<student>-<course>
    step,       \* the activity that the run executes
    tries,      \* failed attempts of that activity
    eid,        \* enrollment_id of the run, 0 before create has returned
    rows,       \* ids of the pair's rows in the enrollments table
    nextId,     \* the next fresh uuid
    created,    \* ids announced on enrollment.created
    cancelled,  \* ids announced on enrollment.cancelled
    dropped,    \* ghost: ids of which an event was dropped unnoticed
    condemned,  \* ghost: ids that some run decided to cancel
    late,       \* effects of failed attempts that may still land
    runs,       \* runs started
    faults      \* faults so far

vars == <<published, wf, step, tries, eid, rows, nextId, created, cancelled,
          dropped, condemned, late, runs, faults>>

Steps == {"validate", "create", "email", "emit", "cancel", "tombstone"}
None == 0
Ids == Nat \ {0}

\* What an attempt does to the world, as a record that can be applied late.
Effects == [op : {"insert", "announce", "delete", "tombstone"}, id : Nat]

\* Mutant: maximum_attempts left at 1.
LimitOne(s) == IF s \in {"validate", "create"} THEN MaxFaults + 1 ELSE 1

\* No limit stands for Temporal's default policy.
Limit(s) == CASE s = "email" -> EmailAttempts
              [] s = "emit" -> EmitAttempts
              [] s = "cancel" -> CancelAttempts
              [] s = "tombstone" -> TombstoneAttempts
              [] OTHER -> MaxFaults + 1

-----------------------------------------------------------------------------
Init ==
    /\ published \in BOOLEAN
    /\ wf = "none" /\ step = "validate" /\ tries = 0 /\ eid = None
    /\ rows = {} /\ nextId = 1
    /\ created = {} /\ cancelled = {} /\ dropped = {} /\ condemned = {}
    /\ late = {} /\ runs = 0 /\ faults = 0

\* The course service publishes or archives the course at any time.
CourseChanges ==
    /\ published' = ~ published
    /\ UNCHANGED <<wf, step, tries, eid, rows, nextId, created, cancelled,
                   dropped, condemned, late, runs, faults>>

\* Mutant: ALLOW_DUPLICATE instead of ALLOW_DUPLICATE_FAILED_ONLY.
EnrollAnyway ==
    /\ wf # "running" /\ runs < MaxRuns
    /\ wf' = "running" /\ step' = "validate" /\ tries' = 0 /\ eid' = None
    /\ runs' = runs + 1
    /\ UNCHANGED <<published, rows, nextId, created, cancelled, dropped,
                   condemned, late, faults>>

\* enroll_in_course: starts a run unless one is running or has completed; in that case
\* the request is accepted and nothing happens.
Enroll ==
    /\ wf \in {"none", "failed"} /\ runs < MaxRuns
    /\ wf' = "running" /\ step' = "validate" /\ tries' = 0 /\ eid' = None
    /\ runs' = runs + 1
    /\ UNCHANGED <<published, rows, nextId, created, cancelled, dropped,
                   condemned, late, faults>>

\* The run goes on with activity s.
Proceed(s) == step' = s /\ tries' = 0 /\ wf' = wf

\* The run ends.
End(status) == wf' = status /\ UNCHANGED <<step, tries>>

\* Mutant: the statement bypasses the model's uuid default.
InsertRowNoId ==
    IF rows = {} THEN rows' = {None} /\ nextId' = nextId ELSE UNCHANGED <<rows, nextId>>

\* INSERT ... ON CONFLICT (student_id, course_id) DO NOTHING, with a fresh uuid.
InsertRow ==
    IF rows = {} THEN rows' = {nextId} /\ nextId' = nextId + 1
                 ELSE UNCHANGED <<rows, nextId>>

\* Mutant: the compensation deletes by student and course.
DeleteRowOfPair(id) == rows' = {}

\* DELETE ... WHERE id = enrollment_id.
DeleteRow(id) == rows' = rows \ {id}

-----------------------------------------------------------------------------
\* Mutant: a course that is not published counts as a passing failure.
ValidateRetries ==
    /\ wf = "running" /\ step = "validate"
    /\ published /\ Proceed("create")
    /\ UNCHANGED <<published, eid, rows, nextId, created, cancelled, dropped,
                   condemned, late, runs, faults>>

\* validate_enrollment_activity: a course that is not published fails the run at once.
Validate ==
    /\ wf = "running" /\ step = "validate"
    /\ IF published THEN Proceed("create") ELSE End("failed")
    /\ UNCHANGED <<published, eid, rows, nextId, created, cancelled, dropped,
                   condemned, late, runs, faults>>

\* create_enrollment_activity: the new row, or else the existing one.
Create ==
    /\ wf = "running" /\ step = "create"
    /\ InsertRow
    /\ eid' \in rows'
    /\ Proceed("email")
    /\ UNCHANGED <<published, created, cancelled, dropped, condemned, late, runs, faults>>

\* send_enrollment_email_activity, a stub.
Email ==
    /\ wf = "running" /\ step = "email"
    /\ Proceed("emit")
    /\ UNCHANGED <<published, eid, rows, nextId, created, cancelled, dropped,
                   condemned, late, runs, faults>>

\* The event of eid is dropped and the activity succeeds: the send's future is not read.
DropEvent ==
    /\ faults < MaxFaults /\ faults' = faults + 1
    /\ dropped' = dropped \cup {eid}

\* emit_enrollment_created_event_activity; the run returns.
Emit ==
    /\ wf = "running" /\ step = "emit"
    /\ \/ created' = created \cup {eid} /\ UNCHANGED <<dropped, faults>>
       \/ created' = created /\ DropEvent
    /\ End("completed")
    /\ UNCHANGED <<published, eid, rows, nextId, cancelled, condemned, late, runs>>

\* cancel_enrollment_activity, the compensation.
Cancel ==
    /\ wf = "running" /\ step = "cancel"
    /\ DeleteRow(eid)
    /\ Proceed("tombstone")
    /\ UNCHANGED <<published, eid, nextId, created, cancelled, dropped, condemned,
                   late, runs, faults>>

\* emit_enrollment_cancelled_event_activity; the run raises.
Tombstone ==
    /\ wf = "running" /\ step = "tombstone"
    /\ \/ cancelled' = cancelled \cup {eid} /\ UNCHANGED <<dropped, faults>>
       \/ cancelled' = cancelled /\ DropEvent
    /\ End("failed")
    /\ UNCHANGED <<published, eid, rows, nextId, created, condemned, late, runs>>

\* The effect of an attempt of the current activity.
EffectOf(s) == CASE s = "create" -> {[op |-> "insert", id |-> None]}
                 [] s = "emit" -> {[op |-> "announce", id |-> eid]}
                 [] s = "cancel" -> {[op |-> "delete", id |-> eid]}
                 [] s = "tombstone" -> {[op |-> "tombstone", id |-> eid]}
                 [] OTHER -> {}

\* Mutant: the compensation announces the cancellation before it deletes the row.
GiveUpAnnouncing ==
    IF step \in {"email", "emit"}
    THEN Proceed("tombstone") /\ condemned' = condemned \cup {eid}
    ELSE End("failed") /\ UNCHANGED condemned

\* The last attempt has failed: email and emit are compensated, and a compensation that
\* fails itself ends the run where it stands.
GiveUp ==
    IF step \in {"email", "emit"}
    THEN Proceed("cancel") /\ condemned' = condemned \cup {eid}
    ELSE End("failed") /\ UNCHANGED condemned

\* An attempt raises or times out, its effect undone or still under way.
AttemptFails ==
    /\ wf = "running"
    /\ faults < MaxFaults /\ faults' = faults + 1
    /\ \/ late' = late
       \/ late' = late \cup EffectOf(step) /\ Cardinality(late') <= MaxLate
    /\ IF tries + 1 < Limit(step)
       THEN tries' = tries + 1 /\ UNCHANGED <<wf, step, condemned>>
       ELSE GiveUp
    /\ UNCHANGED <<published, eid, rows, nextId, created, cancelled, dropped, runs>>

\* The effect of a failed attempt lands.
LateEffect ==
    /\ \E e \in late :
          /\ late' = late \ {e}
          /\ \/ /\ e.op = "insert" /\ InsertRow
                /\ UNCHANGED <<created, cancelled>>
             \/ /\ e.op = "delete" /\ DeleteRow(e.id)
                /\ UNCHANGED <<nextId, created, cancelled>>
             \/ /\ e.op = "announce" /\ created' = created \cup {e.id}
                /\ UNCHANGED <<rows, nextId, cancelled>>
             \/ /\ e.op = "tombstone" /\ cancelled' = cancelled \cup {e.id}
                /\ UNCHANGED <<rows, nextId, created>>
    /\ UNCHANGED <<published, wf, step, tries, eid, dropped, condemned, runs, faults>>

Run == Validate \/ Create \/ Email \/ Emit \/ Cancel \/ Tombstone \/ AttemptFails

Next == CourseChanges \/ Enroll \/ Run \/ LateEffect

Spec == Init /\ [][Next]_vars

\* Temporal keeps scheduling the activities of a running workflow.
FairSpec == Spec /\ WF_vars(Run)

-----------------------------------------------------------------------------
TypeOK ==
    /\ published \in BOOLEAN
    /\ wf \in {"none", "running", "completed", "failed"}
    /\ step \in Steps
    /\ tries \in Nat /\ runs \in Nat /\ faults \in Nat
    /\ eid \in Nat /\ nextId \in Ids
    /\ rows \in SUBSET Ids
    /\ created \in SUBSET Ids /\ cancelled \in SUBSET Ids
    /\ dropped \in SUBSET Ids /\ condemned \in SUBSET Ids
    /\ late \in SUBSET Effects

\* The pair never has two rows, although inserts of several attempts and runs may land
\* in any order.
AtMostOneRow == \A a, b \in rows : a = b

\* An enrollment that create returned is still there while the run goes on and after it
\* completed, unless a run decided to cancel that very row: the late effects of earlier
\* attempts and runs cannot take away a row they did not condemn.
EnrollmentKept ==
    (wf = "completed" \/ (wf = "running" /\ step \in {"email", "emit"}))
        => eid \in rows \cup condemned

\* An announced enrollment exists unless a run decided to cancel it: the event stream
\* names no enrollment that the table never held or lost by accident.
AnnouncedExists == created \subseteq rows \cup condemned

\* An enrollment announced as cancelled is gone from the table, and no late insert or
\* later run brings its id back.
CancelledIsGone == cancelled \cap rows = {}

\* A completed enrollment that no run condemned stays: no request, late effect or
\* course change takes it away or replaces it.
EnrolledForGood ==
    [][wf = "completed" /\ eid \notin condemned
           => eid' = eid /\ eid \in rows' /\ eid \notin condemned']_vars

\* Every accepted enrollment ends, completed or failed.
EveryRunEnds == wf = "running" ~> wf # "running"

\* Retries absorb transient faults: a run whose course stays published completes, unless
\* there are as many faults as one of the retried activities has attempts.
FaultsAbsorbed ==
    [](published) =>
        (wf = "running" ~> wf = "completed" \/ faults >= EmailAttempts \/ faults >= EmitAttempts)

\* What EnrollmentSeat calls the seat: the row, of which there is at most one; a completed run
\* confirms it unless an earlier run, which shares the row, had condemned it.
Held == IF rows = {} THEN None ELSE CHOOSE id \in rows : TRUE
Confirmed == IF wf = "completed" /\ eid \notin condemned THEN eid ELSE None

Seat == INSTANCE EnrollmentSeat WITH
            seat <- Held, issued <- 1..(nextId - 1), confirmed <- Confirmed

\* Whatever is retried, given up or lands late, the table and both event streams behave
\* like one seat that is taken under fresh ids and given up only when condemned.
ImplementsSeat == Seat!Spec

=============================================================================
