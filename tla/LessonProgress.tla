--------------------------- MODULE LessonProgress ---------------------------
(***************************************************************************)
(* The progress of one enrollment.  Two handlers of the enrollment service *)
(* write it, each a transaction spread over several awaits:                *)
(*                                                                         *)
(*   mark_lesson_complete    (POST /enrollments/lessons/<id>/complete)     *)
(*   get_enrollment_progress (GET /enrollments/<id>/progress)              *)
(*                                                                         *)
(*   read [ -> look ] -> count -> total -> commit [ -> refresh -> trigger ]*)
(*                                                                         *)
(* The session keeps the row as it was read first; the commit writes the   *)
(* columns whose value differs from that copy.  "total" asks the course    *)
(* service over HTTP, where lessons are added and never removed.  A        *)
(* handler that saw the enrollment become completed starts                 *)
(* CourseCompletionWorkflow, which announces it on enrollment.completed.   *)
(***************************************************************************)
EXTENDS Integers, FiniteSets

CONSTANTS
    Lessons,          \* every lesson that the course may come to have
    Initial,          \* those it has when the student enrolls
    Workers,          \* requests served at a time
    Kinds,            \* handlers in use: "mark" and "view"
    FetchAttempts,    \* maximum_attempts of the two fetch activities
    EmitAttempts,     \* and of emit_enrollment_completed_event_activity
    MaxRequests,      \* bound: requests
    MaxFaults,        \* bound: requests and attempts that fail
    MaxDrops          \* bound: events dropped

ASSUME ProgressAssumption ==
    /\ IsFiniteSet(Lessons) /\ Initial \subseteq Lessons /\ Initial # {}
    /\ Kinds \subseteq {"mark", "view"}
    /\ FetchAttempts \in Nat \ {0} /\ EmitAttempts \in Nat \ {0}
    /\ MaxRequests \in Nat /\ MaxFaults \in Nat /\ MaxDrops \in Nat

VARIABLES
    lessons,    \* the course's lessons, in the course service
    done,       \* lessons with a committed row in lesson_completions
    status,     \* the enrollment's status column
    progress,   \* and its progress_percentage
    viewed,     \* ghost: a progress view completed the enrollment
    req,        \* what each worker is doing
    flow,       \* CourseCompletionWorkflow: "none", an activity, or how it ended
    tries,      \* failed attempts of that activity
    starts,     \* runs started of that workflow
    announced,  \* the enrollment.completed events published
    requests, faults, drops

vars == <<lessons, done, status, progress, viewed, req, flow, tries, starts, announced,
          requests, faults, drops>>

Idle == [at |-> "idle"]

\* A request: where it stands, the lesson it marks, the row as it read it, whether it
\* has to insert a completion, the completions it counted and the total it was told.
Request == [at : {"read", "looked", "counted", "totalled", "committed", "trigger"},
            kind : {"mark", "view"}, lesson : Lessons,
            status : {"enrolled", "completed"}, progress : Nat, inserts : BOOLEAN,
            counted : SUBSET Lessons, total : Nat]

At(w, place) == req[w].at = place

\* The row that w's open transaction has inserted and not committed.
Held(w) == IF req[w].at \in {"counted", "totalled"} /\ req[w].inserts
           THEN {req[w].lesson} ELSE {}

\* int(round(completed / total * 100)), which rounds halves to even.
Percent(completed, total) ==
    LET q == (100 * completed) \div total
        r == (100 * completed) % total
    IN  IF 2 * r > total \/ (2 * r = total /\ q % 2 = 1) THEN q + 1 ELSE q

Goto(w, place) == req' = [req EXCEPT ![w].at = place]

-----------------------------------------------------------------------------
Init ==
    /\ lessons = Initial /\ done = {}
    /\ status = "enrolled" /\ progress = 0 /\ viewed = FALSE
    /\ req = [w \in Workers |-> Idle]
    /\ flow = "none" /\ tries = 0 /\ starts = 0 /\ announced = 0
    /\ requests = 0 /\ faults = 0 /\ drops = 0

UnchangedFlow == UNCHANGED <<flow, tries, starts, announced, drops>>
UnchangedRow == UNCHANGED <<done, status, progress, viewed>>

\* The instructor adds a lesson.
AddLesson ==
    /\ \E l \in Lessons \ lessons : lessons' = lessons \cup {l}
    /\ UNCHANGED <<req, requests, faults>> /\ UnchangedRow /\ UnchangedFlow

\* A request about lesson l that has just read the enrollment.
Fresh(kind, l) ==
    [at |-> IF kind = "mark" THEN "read" ELSE "looked", kind |-> kind, lesson |-> l,
     status |-> status, progress |-> progress,
     inserts |-> FALSE, counted |-> {}, total |-> 0]

\* Mutant: the lesson is not resolved with the course service first.
ReadUnresolved(w) ==
    /\ At(w, "idle") /\ requests < MaxRequests /\ requests' = requests + 1
    /\ \E kind \in Kinds, l \in Lessons : req' = [req EXCEPT ![w] = Fresh(kind, l)]
    /\ UNCHANGED <<lessons, faults>> /\ UnchangedRow /\ UnchangedFlow

\* A request resolves its lesson and reads the enrollment.
Read(w) ==
    /\ At(w, "idle") /\ requests < MaxRequests /\ requests' = requests + 1
    /\ \E kind \in Kinds, l \in lessons : req' = [req EXCEPT ![w] = Fresh(kind, l)]
    /\ UNCHANGED <<lessons, faults>> /\ UnchangedRow /\ UnchangedFlow

\* get_lesson_completion: a lesson without a completion gets one, not flushed yet.
Look(w) ==
    /\ At(w, "read")
    /\ req' = [req EXCEPT ![w].at = "looked", ![w].inserts = req[w].lesson \notin done]
    /\ UNCHANGED <<lessons, requests, faults>> /\ UnchangedRow /\ UnchangedFlow

\* count_completed_lessons: the pending completion is flushed first.  It waits for another
\* transaction that inserted the same one, and fails once that has committed.
Count(w) ==
    /\ At(w, "looked")
    /\ LET r == req[w]
           own == IF r.inserts THEN {r.lesson} ELSE {}
       IN  /\ \A v \in Workers : own \cap Held(v) = {}
           /\ req' = [req EXCEPT ![w] =
                         IF own \cap done # {} THEN Idle
                         ELSE [r EXCEPT !.at = "counted", !.counted = done \cup own]]
    /\ UNCHANGED <<lessons, requests, faults>> /\ UnchangedRow /\ UnchangedFlow

\* count_course_lessons, which answers 0 when the course service does not.
Total(w) ==
    /\ At(w, "counted")
    /\ \/ /\ req' = [req EXCEPT ![w].at = "totalled", ![w].total = Cardinality(lessons)]
          /\ UNCHANGED faults
       \/ /\ faults < MaxFaults /\ faults' = faults + 1
          /\ Goto(w, "totalled")
    /\ UNCHANGED <<lessons, requests>> /\ UnchangedRow /\ UnchangedFlow

\* Mutant: the commit writes every column that the handler assigned or read.
WriteWholeRow(r, p) ==
    IF r.total > 0
    THEN /\ progress' = p
         /\ status' = IF p >= 100 THEN "completed" ELSE r.status
    ELSE UNCHANGED <<progress, status>>

\* The columns that the commit of request r writes, given its percentage p.
WriteRow(r, p) ==
    IF r.total > 0
    THEN /\ progress' = IF p # r.progress THEN p ELSE progress
         /\ status' = IF p >= 100 /\ r.status # "completed" THEN "completed" ELSE status
    ELSE UNCHANGED <<progress, status>>

\* Mutant: the completions are counted after the total is known.
CommitRecounted(w) ==
    /\ At(w, "totalled")
    /\ done' = done \cup Held(w)
    /\ WriteRow(req[w], Percent(Cardinality(done \cup Held(w)), req[w].total))
    /\ IF req[w].kind = "mark" THEN Goto(w, "committed")
                               ELSE req' = [req EXCEPT ![w] = Idle]
    /\ UNCHANGED <<lessons, viewed, requests, faults>> /\ UnchangedFlow

\* session.commit(): "view" writes only if the percentage differs from the one it read,
\* and answers.
Commit(w) ==
    /\ At(w, "totalled")
    /\ LET r == req[w]
           p == Percent(Cardinality(r.counted), r.total)
       IN  IF r.kind = "mark"
           THEN /\ done' = done \cup Held(w)
                /\ WriteRow(r, p) /\ viewed' = viewed
                /\ Goto(w, "committed")
           ELSE /\ done' = done
                /\ IF r.total > 0 /\ p # r.progress
                   THEN WriteRow(r, p) ELSE UNCHANGED <<progress, status>>
                /\ viewed' = (viewed \/ status' # status)
                /\ req' = [req EXCEPT ![w] = Idle]
    /\ UNCHANGED <<lessons, requests, faults>> /\ UnchangedFlow

\* Mutant: the handler does not look at the refreshed status.
RefreshUnchecked(w) ==
    /\ At(w, "committed")
    /\ IF req[w].status # "completed" THEN Goto(w, "trigger")
                                      ELSE req' = [req EXCEPT ![w] = Idle]
    /\ UNCHANGED <<lessons, requests, faults>> /\ UnchangedRow /\ UnchangedFlow

\* Mutant: was_completed is read after the handler assigned the new status.
RefreshAfterAssigned(w) ==
    /\ At(w, "committed")
    /\ IF /\ req[w].total = 0 \/ Percent(Cardinality(req[w].counted), req[w].total) < 100
          /\ req[w].status # "completed" /\ status = "completed"
       THEN Goto(w, "trigger") ELSE req' = [req EXCEPT ![w] = Idle]
    /\ UNCHANGED <<lessons, requests, faults>> /\ UnchangedRow /\ UnchangedFlow

\* session.refresh(): is the enrollment newly completed, since this request read it?
Refresh(w) ==
    /\ At(w, "committed")
    /\ IF req[w].status # "completed" /\ status = "completed"
       THEN Goto(w, "trigger") ELSE req' = [req EXCEPT ![w] = Idle]
    /\ UNCHANGED <<lessons, requests, faults>> /\ UnchangedRow /\ UnchangedFlow

\* _trigger_course_completion: starts the workflow unless its id was ever used.
Trigger(w) ==
    /\ At(w, "trigger")
    /\ IF flow = "none" THEN flow' = "student" /\ tries' = 0 /\ starts' = starts + 1
                        ELSE UNCHANGED <<flow, tries, starts>>
    /\ req' = [req EXCEPT ![w] = Idle]
    /\ UNCHANGED <<lessons, requests, faults, announced, drops>> /\ UnchangedRow

\* The request fails: the process dies, the database or Temporal does not answer.  What
\* it has not committed is rolled back.
Fail(w) ==
    /\ ~ At(w, "idle")
    /\ faults < MaxFaults /\ faults' = faults + 1
    /\ req' = [req EXCEPT ![w] = Idle]
    /\ UNCHANGED <<lessons, requests>> /\ UnchangedRow /\ UnchangedFlow

Serve(w) == \/ Read(w) \/ Look(w) \/ Count(w) \/ Total(w)
            \/ Commit(w) \/ Refresh(w) \/ Trigger(w)

-----------------------------------------------------------------------------
Activities == {"student", "title", "emit"}

\* Mutant: maximum_attempts left at 1.
LimitOne(a) == 1

Limit(a) == IF a = "emit" THEN EmitAttempts ELSE FetchAttempts

\* An activity succeeds; fetching the title does even when the course service is down.  The
\* event's send is not checked: it may be dropped.
RunActivity ==
    /\ flow \in Activities /\ tries' = 0
    /\ \/ flow = "student" /\ flow' = "title" /\ UNCHANGED <<announced, drops>>
       \/ flow = "title" /\ flow' = "emit" /\ UNCHANGED <<announced, drops>>
       \/ /\ flow = "emit" /\ flow' = "completed"
          /\ announced' = announced + 1 /\ UNCHANGED drops
       \/ /\ flow = "emit" /\ flow' = "completed"
          /\ drops < MaxDrops /\ drops' = drops + 1 /\ UNCHANGED announced
    /\ UNCHANGED <<lessons, req, starts, requests, faults>> /\ UnchangedRow

\* An attempt raises or times out, possibly after the event went out.
AttemptFails ==
    /\ flow \in Activities
    /\ faults < MaxFaults /\ faults' = faults + 1
    /\ announced' \in IF flow = "emit" THEN {announced, announced + 1} ELSE {announced}
    /\ IF tries + 1 < Limit(flow)
       THEN tries' = tries + 1 /\ UNCHANGED flow
       ELSE flow' = "failed" /\ UNCHANGED tries
    /\ UNCHANGED <<lessons, req, starts, requests, drops>> /\ UnchangedRow

Next == \/ AddLesson
        \/ \E w \in Workers : Serve(w) \/ Fail(w)
        \/ RunActivity \/ AttemptFails

Spec == Init /\ [][Next]_vars

\* Temporal keeps scheduling the activities of a running workflow.
FairSpec == Spec /\ WF_vars(RunActivity)

-----------------------------------------------------------------------------
TypeOK ==
    /\ lessons \in SUBSET Lessons /\ done \in SUBSET lessons
    /\ status \in {"enrolled", "completed"} /\ progress \in Nat /\ viewed \in BOOLEAN
    /\ req \in [Workers -> Request \cup {Idle}]
    /\ flow \in Activities \cup {"none", "completed", "failed"}
    /\ tries \in Nat /\ starts \in Nat /\ announced \in Nat
    /\ requests \in Nat /\ faults \in Nat /\ drops \in Nat

\* The lessons that are done are, rounded, 100% of those that the course began with: at
\* most one lesson in 200 is missing, and so none in a course of fewer than 200.
NearlyDone == 200 * Cardinality(Initial \ done) <= Cardinality(lessons)

\* A completed enrollment has all but that lesson done, although the completions and the
\* total are read at different times and written later.
CompletedJustified == status = "completed" => NearlyDone

\* No commit of a request that read the row earlier takes "completed" back.
CompletedStays == [][status = "completed" => status' = "completed"]_vars

\* Requests that all see the enrollment become completed start its workflow once.
StartedOnce == starts <= 1

\* A course completion is started and announced only for an enrollment that is completed
\* in the database.
StartedIsCompleted == flow # "none" \/ announced > 0 => status = "completed"

AllIdle == \A w \in Workers : At(w, "idle")

\* Among marks alone, however they interleave, one of them starts the workflow of the
\* enrollment that they completed: no request leaves it to another that leaves it back.
MarksTrigger ==
    faults = 0 /\ ~ viewed /\ AllIdle /\ status = "completed" => flow # "none"

\* "triggers CourseCompletionWorkflow if progress hits 100%": with no request under way,
\* a completed enrollment has its workflow.
CompletedIsTriggered == AllIdle /\ status = "completed" => flow # "none"

\* What has become of a workflow that ended.
EndedIsAnnounced ==
    flow \in {"completed", "failed"} => announced > 0 \/ drops > 0 \/ faults >= FetchAttempts

\* A started completion is announced: the retries absorb fewer faults than an activity
\* has attempts, and only a dropped event is lost beside that.
StartedIsAnnounced ==
    flow # "none" ~> announced > 0 \/ drops > 0 \/ faults >= FetchAttempts

=============================================================================
