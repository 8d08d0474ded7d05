-------------------------- MODULE PublishingProofs --------------------------
(***************************************************************************)
(* Proofs about CoursePublishing, for every number of attempts and faults. *)
(***************************************************************************)
EXTENDS CoursePublishing, TLAPS

\* The workflow f has passed its validation, by where it stands or by what it left behind.
Passed(f) == at[f] \in {"transition", "notify", "emit", "completed"} \/ late[f] > 0

\* What a passed validation still vouches for: lessons are never removed.
PassedWasValid ==
    /\ \A f \in Flows : Passed(f) => byOwner[f] /\ at[f] \notin {"none", "validate"}
    /\ Passed("publish") => taught

\* Nobody but a workflow moves an unpatched course: it is a draft until its publish
\* workflow comes to the transition, and never again once that is over.
MovedByPublish ==
    ~ patched =>
        /\ at["publish"] \in {"none", "validate"} => status = "draft"
        /\ \/ at["publish"] \in {"notify", "emit", "completed"}
           \/ announced > 0 \/ Passed("archive")
           => status # "draft"
        /\ status # "draft" => taught /\ byOwner["publish"]
        /\ status = "archived" => byOwner["archive"] /\ at["archive"] # "none"

\* With no attempt in doubt, the course is a draft until the transition reports.
NothingInDoubt ==
    ~ unsure =>
        /\ \A f \in Flows : late[f] = 0
        /\ ~ patched /\ at["publish"] = "transition" => status = "draft"

\* Only PublishCourseWorkflow has an event to emit.
ArchiveIsSilent == at["archive"] # "emit"

IInv == TypeOK /\ PassedWasValid /\ MovedByPublish /\ NothingInDoubt
        /\ ArchiveIsSilent

-----------------------------------------------------------------------------
\* The invariant holds of a new draft.
LEMMA PublishingInit == Init => IInv
<1> SUFFICES ASSUME Init PROVE IInv
  OBVIOUS
<1>1. at["publish"] = "none" /\ at["archive"] = "none" /\ \A f \in Flows : ~ Passed(f)
  BY DEF Init, Passed, Flows
<1>2. TypeOK
  <2>1. described \in BOOLEAN /\ taught \in BOOLEAN /\ patched \in BOOLEAN /\ unsure \in BOOLEAN
    BY Zenon DEF Init
  <2> QED BY <2>1, PublishingAssumption DEF Init, TypeOK, Statuses
<1>3. PassedWasValid /\ ArchiveIsSilent
  BY <1>1 DEF PassedWasValid, ArchiveIsSilent, Flows
<1>4. MovedByPublish /\ NothingInDoubt
  BY <1>1 DEF Init, MovedByPublish, NothingInDoubt, Flows
<1> QED BY <1>2, <1>3, <1>4 DEF IInv

\* Moving a workflow on changes its own place and counter only.
LEMMA GotoEffect ==
    ASSUME TypeOK, NEW f \in Flows, NEW place \in Activities \cup Ended, Goto(f, place)
    PROVE  /\ at' \in [Flows -> Activities \cup Ended \cup {"none"}]
           /\ tries' \in [Flows -> 0..(Attempts - 1)]
           /\ at'[f] = place /\ \A g \in Flows : g # f => at'[g] = at[g]
BY PublishingAssumption DEF Goto, TypeOK

\* A failed attempt leaves its workflow where it is, or fails it.
LEMMA RetryEffect ==
    ASSUME TypeOK, NEW f \in Flows, at[f] \in Activities, Retry(f)
    PROVE  /\ at' \in [Flows -> Activities \cup Ended \cup {"none"}]
           /\ tries' \in [Flows -> 0..(Attempts - 1)]
           /\ at'[f] = at[f] \/ (at'[f] = "failed" /\ at[f] \in {"notify", "emit"})
           /\ \A g \in Flows : g # f => at'[g] = at[g]
<1>1. CASE Limited(at[f]) /\ tries[f] + 1 = Attempts
  BY <1>1, GotoEffect DEF Retry, Limited, Ended
<1>2. CASE ~ (Limited(at[f]) /\ tries[f] + 1 = Attempts)
  BY <1>2, PublishingAssumption DEF Retry, TypeOK
<1> QED BY <1>1, <1>2

\* Every step of the two workflows, of edits and of late attempts keeps the invariant.
LEMMA PublishingStep == IInv /\ [Next]_vars => IInv'
<1> SUFFICES ASSUME IInv, [Next]_vars PROVE IInv'
  OBVIOUS
<1> USE DEF IInv, PassedWasValid, MovedByPublish, NothingInDoubt, ArchiveIsSilent, Passed
<1>1. TypeOK /\ "publish" \in Flows /\ "archive" \in Flows
      /\ \A f \in Flows : f = "publish" \/ f = "archive"
  BY DEF Flows
<1>2. CASE UNCHANGED vars
  BY <1>2 DEF vars, course, flows, TypeOK
<1>3. CASE AddLesson
  BY <1>3 DEF AddLesson, flows, TypeOK
<1>4. CASE Update
  <2>1. TypeOK'
    <3>1. described' \in BOOLEAN /\ patched' \in BOOLEAN
      BY <1>1, <1>4, Zenon DEF Update, TypeOK
    <3> QED BY <1>1, <1>4, <3>1, PublishingAssumption DEF Update, flows, TypeOK
  <2>2. /\ UNCHANGED <<taught, at, byOwner, late, announced, unsure>>
        /\ patched' = TRUE \/ (patched' = patched /\ status' = status)
    BY <1>4 DEF Update, flows
  <2>3. PassedWasValid' /\ ArchiveIsSilent'
    BY <1>1, <2>2
  <2>4. CASE patched'
    BY <1>1, <2>1, <2>2, <2>3, <2>4
  <2>5. CASE patched' = patched /\ status' = status
    BY <1>1, <2>1, <2>2, <2>3, <2>5
  <2> QED BY <2>2, <2>4, <2>5
<1>5. ASSUME NEW f \in Flows, Start(f)
      PROVE  IInv'
  <2>1. /\ at' \in [Flows -> Activities \cup Ended \cup {"none"}]
        /\ tries' \in [Flows -> 0..(Attempts - 1)]
        /\ at'[f] = "validate" /\ \A g \in Flows : g # f => at'[g] = at[g]
    BY <1>1, <1>5, GotoEffect DEF Start, Activities
  <2>2. byOwner' \in [Flows -> BOOLEAN] /\ \A g \in Flows : g # f => byOwner'[g] = byOwner[g]
    BY <1>1, <1>5 DEF Start, TypeOK
  <2>3. at[f] = "none" /\ ~ Passed(f)
    BY <1>5 DEF Start
  <2>4. TypeOK'
    BY <1>1, <1>5, <2>1, <2>2 DEF Start, course, TypeOK
  <2>5. UNCHANGED <<course, late, announced, patched, unsure>>
    BY <1>5 DEF Start
  <2>6. PassedWasValid' /\ ArchiveIsSilent'
    BY <1>1, <2>1, <2>2, <2>3, <2>5 DEF course
  <2>7. f = "publish" /\ ~ patched => status = "draft"
    BY <2>3
  <2>8. MovedByPublish' /\ NothingInDoubt'
    BY <1>1, <2>1, <2>2, <2>3, <2>5, <2>7 DEF course
  <2> QED BY <2>4, <2>6, <2>8
<1>6. ASSUME NEW f \in Flows, Validate(f)
      PROVE  IInv'
  <2> DEFINE place == IF Valid(f) THEN "transition" ELSE "failed"
  <2>1. Goto(f, place) /\ place \in Activities \cup Ended
    BY <1>6 DEF Validate, After, Activities, Ended
  <2>2. /\ at' \in [Flows -> Activities \cup Ended \cup {"none"}]
        /\ tries' \in [Flows -> 0..(Attempts - 1)]
        /\ at'[f] = place /\ \A g \in Flows : g # f => at'[g] = at[g]
    BY <1>1, <2>1, GotoEffect
  <2>3. TypeOK'
    BY <1>1, <1>6, <2>2 DEF Validate, course, TypeOK
  <2>4. at[f] = "validate"
    BY <1>6 DEF Validate
  <2> QED BY <1>1, <1>6, <2>2, <2>3, <2>4 DEF Validate, Valid, course
<1>7. ASSUME NEW f \in Flows, Transition(f)
      PROVE  IInv'
  <2>1. /\ at' \in [Flows -> Activities \cup Ended \cup {"none"}]
        /\ tries' \in [Flows -> 0..(Attempts - 1)]
        /\ at'[f] = "notify" /\ \A g \in Flows : g # f => at'[g] = at[g]
    BY <1>1, <1>7, GotoEffect DEF Transition, After, Activities
  <2>2. TypeOK'
    BY <1>1, <1>7, <2>1 DEF Transition, Target, Statuses, TypeOK
  <2>3. at[f] = "transition" /\ status' = Target(f)
    BY <1>7 DEF Transition
  <2> QED BY <1>1, <1>7, <2>1, <2>2, <2>3 DEF Transition, Target
<1>8. ASSUME NEW f \in Flows, LandLate(f)
      PROVE  IInv'
  <2>1. late' \in [Flows -> Nat] /\ \A g \in Flows : late'[g] <= late[g]
    BY <1>1, <1>8 DEF LandLate, TypeOK
  <2>2. TypeOK'
    BY <1>1, <1>8, <2>1 DEF LandLate, Target, Statuses, TypeOK
  <2>3. late[f] > 0 /\ status' = Target(f)
    BY <1>8 DEF LandLate
  <2>4. \A g \in Flows : late'[g] \in Nat /\ late[g] \in Nat /\ (late'[g] > 0 => late[g] > 0)
    BY <1>1, <2>1 DEF TypeOK
  <2> QED BY <1>1, <1>8, <2>2, <2>3, <2>4 DEF LandLate, Target
<1>9. ASSUME NEW f \in Flows, Notify(f) \/ Emit(f)
      PROVE  IInv'
  <2>1. /\ at' \in [Flows -> Activities \cup Ended \cup {"none"}]
        /\ tries' \in [Flows -> 0..(Attempts - 1)]
        /\ at'[f] \in {"emit", "completed"} /\ \A g \in Flows : g # f => at'[g] = at[g]
    BY <1>1, <1>9, GotoEffect DEF Notify, Emit, After, Activities, Ended
  <2>2. /\ at[f] \in {"notify", "emit"} /\ announced' \in Nat /\ drops' \in Nat
        /\ announced' > 0 => announced > 0 \/ at[f] = "emit"
    BY <1>1, <1>9 DEF Notify, Emit, TypeOK
  <2>3. UNCHANGED <<course, byOwner, late, patched, unsure, faults, edits>>
    BY <1>9 DEF Notify, Emit
  <2>4. TypeOK'
    BY <1>1, <2>1, <2>2, <2>3 DEF course, TypeOK
  <2>5. at'["archive"] # "emit"
    BY <1>1, <1>9, <2>1, GotoEffect DEF Notify, Emit, After, Activities, Ended
  <2> QED BY <1>1, <2>1, <2>2, <2>3, <2>4, <2>5 DEF course
<1>10. ASSUME NEW f \in Flows, AttemptFails(f)
       PROVE  IInv'
  <2>1. at[f] \in Activities /\ Retry(f)
    BY <1>10 DEF AttemptFails
  <2>2. /\ at' \in [Flows -> Activities \cup Ended \cup {"none"}]
        /\ tries' \in [Flows -> 0..(Attempts - 1)]
        /\ at'[f] = at[f] \/ (at'[f] = "failed" /\ at[f] \in {"notify", "emit"})
        /\ \A g \in Flows : g # f => at'[g] = at[g]
    BY <1>1, <2>1, RetryEffect
  <2>3. UNCHANGED <<described, taught, byOwner, patched, drops, edits>>
        /\ faults' = faults + 1
    BY <1>10 DEF AttemptFails
  <2>4. CASE UNCHANGED <<status, late, announced, unsure>>
    BY <1>1, <2>2, <2>3, <2>4 DEF TypeOK
  <2>5. CASE /\ at[f] = "transition" /\ status' = Target(f) /\ unsure' = TRUE
             /\ UNCHANGED <<late, announced>>
    BY <1>1, <2>2, <2>3, <2>5 DEF TypeOK, Target, Statuses
  <2>6. CASE /\ at[f] = "transition" /\ late' = [late EXCEPT ![f] = @ + 1] /\ unsure' = TRUE
             /\ UNCHANGED <<status, announced>>
    <3>1. late' \in [Flows -> Nat] /\ \A g \in Flows : g # f => late'[g] = late[g]
      BY <1>1, <2>6 DEF TypeOK
    <3>2. TypeOK'
      BY <1>1, <2>2, <2>3, <2>6, <3>1 DEF TypeOK
    <3> QED BY <1>1, <2>2, <2>3, <2>6, <3>1, <3>2
  <2>7. CASE /\ at[f] = "emit" /\ announced' = announced + 1
             /\ UNCHANGED <<status, late, unsure>>
    BY <1>1, <2>2, <2>3, <2>7 DEF TypeOK
  <2> QED BY <1>10, <2>4, <2>5, <2>6, <2>7 DEF AttemptFails
<1> QED BY <1>2, <1>3, <1>4, <1>5, <1>6, <1>7, <1>8, <1>9, <1>10 DEF Next, RunActivity

\* The inductive invariant of the publication holds throughout.
THEOREM PublishingInvariance == Spec => []IInv
BY PublishingInit, PublishingStep, PTL DEF Spec

\* The course stays well typed, and no retry count reaches the limit.
THEOREM PublishingTypes == Spec => []TypeOK
<1>1. IInv => TypeOK
  BY DEF IInv
<1> QED BY <1>1, PublishingInvariance, PTL

\* Whatever attempts are repeated or land late, the workflows take out of draft only a
\* course with a lesson, at its instructor's request.
THEOREM OnlyValidPublished == Spec => []PublishedWasValid
<1>1. IInv => PublishedWasValid
  BY DEF IInv, MovedByPublish, PublishedWasValid
<1> QED BY <1>1, PublishingInvariance, PTL

\* They archive only what they published, and announce no draft.
THEOREM OnlyPublishedArchived == Spec => [](ArchivedWasPublished /\ AnnouncedIsPublished)
<1>1. IInv => ArchivedWasPublished /\ AnnouncedIsPublished
  BY DEF IInv, TypeOK, MovedByPublish, ArchivedWasPublished, AnnouncedIsPublished, Flows
<1> QED BY <1>1, PublishingInvariance, PTL

\* As long as no transition attempt is in doubt, no workflow takes a course out of the
\* archive.
THEOREM Archived == Spec => ArchivedStays
<1>1. IInv /\ [Next]_vars =>
         (status = "archived" /\ ~ unsure /\ ~ patched' => status' = "archived")
  <2> SUFFICES ASSUME IInv, Next, status = "archived", ~ unsure, ~ patched'
               PROVE  status' = "archived"
    BY DEF vars, course
  <2>1. CASE AddLesson \/ Update
    BY <2>1 DEF AddLesson, Update
  <2>2. ASSUME NEW f \in Flows, Start(f) \/ RunActivity(f) \/ AttemptFails(f) \/ LandLate(f)
        PROVE  status' = "archived"
    <3>1. patched' = patched
      BY <2>2 DEF Start, RunActivity, Validate, Transition, Notify, Emit, AttemptFails, LandLate
    <3>2. late[f] = 0 /\ at["publish"] # "transition" /\ (f = "publish" \/ f = "archive")
      BY <3>1 DEF IInv, NothingInDoubt, Flows
    <3> QED BY <2>2, <3>2 DEF Start, RunActivity, Validate, Transition, Notify, Emit,
                              AttemptFails, LandLate, course, Target
  <2> QED BY <2>1, <2>2 DEF Next
<1> QED BY <1>1, PublishingInvariance, PTL DEF Spec, ArchivedStays

-----------------------------------------------------------------------------
(* Refinement *)

\* A workflow that was not started has nobody who started it.
Unstarted == \A f \in Flows : at[f] = "none" => byOwner[f] = FALSE

\* Starting is the only way on from there.
LEMMA UnstartedStep == IInv /\ Unstarted /\ [Next]_vars => Unstarted'
<1> SUFFICES ASSUME IInv, Unstarted, [Next]_vars PROVE Unstarted'
  OBVIOUS
<1>1. CASE UNCHANGED <<at, byOwner>>
  BY <1>1 DEF Unstarted
<1>2. ASSUME NEW f \in Flows, NEW place \in Activities \cup Ended, Goto(f, place),
             \A g \in Flows : g # f => byOwner'[g] = byOwner[g]
      PROVE  Unstarted'
  BY <1>2, GotoEffect DEF IInv, Unstarted, Activities, Ended
<1>3. ASSUME NEW f \in Flows, Start(f)
      PROVE  Unstarted'
  <2>1. \A g \in Flows : g # f => byOwner'[g] = byOwner[g]
    BY <1>3 DEF Start, IInv, TypeOK
  <2> QED BY <1>2, <1>3, <2>1 DEF Start, Activities
<1>4. ASSUME NEW f \in Flows, RunActivity(f)
      PROVE  Unstarted'
  <2>1. \E place \in Activities \cup Ended : Goto(f, place)
    BY <1>4 DEF RunActivity, Validate, Transition, Notify, Emit, After, Activities, Ended
  <2>2. byOwner' = byOwner
    BY <1>4 DEF RunActivity, Validate, Transition, Notify, Emit
  <2> QED BY <1>2, <2>1, <2>2
<1>5. ASSUME NEW f \in Flows, AttemptFails(f)
      PROVE  Unstarted'
  <2>1. at[f] \in Activities /\ Retry(f) /\ byOwner' = byOwner
    BY <1>5 DEF AttemptFails
  <2>2. /\ at'[f] = at[f] \/ at'[f] = "failed"
        /\ \A g \in Flows : g # f => at'[g] = at[g]
    BY <2>1, RetryEffect DEF IInv
  <2> QED BY <2>1, <2>2 DEF Unstarted, Activities
<1> QED BY <1>1, <1>3, <1>4, <1>5 DEF Next, AddLesson, Update, LandLate, flows, vars

\* A workflow writes its status only on a course that is ready, that is on its way there, or
\* that was edited: it is a step of the course's life, or repeats one.
LEMMA WriteRefines ==
    ASSUME IInv, NEW f \in Flows, at[f] = "transition" \/ late[f] > 0,
           status' = Target(f), unsure' \in {unsure, TRUE},
           UNCHANGED <<taught, byOwner, announced, patched>>
    PROVE  [Life!Next]_(Life!vars)
<1>1. /\ status \in Statuses /\ late[f] \in Nat /\ (f = "publish" \/ f = "archive")
      /\ Ready' = Ready /\ Passed(f)
  BY DEF IInv, TypeOK, Flows, Ready, Passed
<1>2. CASE status' = status
  BY <1>1, <1>2 DEF Life!Next, Life!Doubt, Life!vars
<1>3. CASE status' # status /\ patched
  <2>1. Life!MoveEdited
    BY <1>1, <1>3 DEF Life!MoveEdited, Target
  <2> QED BY <1>1, <2>1 DEF Life!Next, Life!Move
<1>4. CASE status' # status /\ ~ patched /\ f = "publish"
  <2>1. Ready
    BY <1>1, <1>4 DEF IInv, PassedWasValid, Ready, Flows
  <2>2. status = "draft" \/ unsure
    BY <1>1, <1>4 DEF IInv, NothingInDoubt, Flows
  <2>3. Life!Publish \/ Life!PublishAgain
    BY <1>1, <1>4, <2>1, <2>2 DEF Life!Publish, Life!PublishAgain, Target, Statuses
  <2> QED BY <1>1, <2>3 DEF Life!Next, Life!Move
<1>5. CASE status' # status /\ ~ patched /\ f = "archive"
  <2>1. status # "draft"
    BY <1>1, <1>5 DEF IInv, MovedByPublish
  <2>2. Life!Archive
    BY <1>1, <1>5, <2>1 DEF Life!Archive, Target, Statuses
  <2> QED BY <1>1, <2>2 DEF Life!Next, Life!Move
<1> QED BY <1>1, <1>2, <1>3, <1>4, <1>5

\* Every step of the publication is a step of the course's life, or not seen in it.
LEMMA LifeStep == IInv /\ Unstarted /\ [Next]_vars => [Life!Next]_(Life!vars)
<1> SUFFICES ASSUME IInv, Unstarted, [Next]_vars PROVE [Life!Next]_(Life!vars)
  OBVIOUS
<1>1. CASE UNCHANGED <<status, taught, byOwner, announced, patched, unsure>>
  BY <1>1 DEF Life!vars, Ready
<1>2. CASE AddLesson
  <2>1. UNCHANGED <<status, byOwner, announced, patched, unsure>> /\ taught' = TRUE
    BY <1>2 DEF AddLesson, flows
  <2>2. CASE byOwner["publish"]
    BY <2>1, <2>2 DEF Life!Next, Life!Prepare, Ready
  <2>3. CASE ~ byOwner["publish"]
    BY <2>1, <2>3 DEF Life!vars, IInv, TypeOK, Ready
  <2> QED BY <2>2, <2>3
<1>3. CASE Update
  <2>1. UNCHANGED <<taught, byOwner, announced, unsure>> /\ Ready' = Ready
    BY <1>3 DEF Update, flows, Ready
  <2>2. CASE UNCHANGED <<status, patched>>
    BY <2>1, <2>2 DEF Life!vars
  <2>3. CASE status' \in PatchTo /\ patched' = TRUE
    BY <2>1, <2>3, PublishingAssumption DEF Life!Next, Life!Edit, Statuses
  <2> QED BY <1>3, <2>2, <2>3 DEF Update
<1>4. ASSUME NEW f \in Flows, Start(f)
      PROVE  [Life!Next]_(Life!vars)
  <2>1. UNCHANGED <<status, taught, announced, patched, unsure>> /\ at[f] = "none"
    BY <1>4 DEF Start, course
  <2>2. CASE f # "publish"
    <3>1. byOwner'["publish"] = byOwner["publish"]
      BY <1>4, <2>2 DEF Start, IInv, TypeOK, Flows
    <3> QED BY <2>1, <3>1 DEF Life!vars, Ready
  <2>3. CASE f = "publish"
    <3>1. byOwner["publish"] = FALSE /\ byOwner'["publish"] \in BOOLEAN
      BY <1>4, <2>1, <2>3 DEF Unstarted, Start, IInv, TypeOK
    <3>2. CASE Ready'
      BY <2>1, <3>2 DEF Life!Next, Life!Prepare, Ready
    <3>3. CASE ~ Ready'
      <4>1. Ready = FALSE /\ Ready' = FALSE
        BY <3>1, <3>3 DEF Ready, IInv, TypeOK
      <4> QED BY <2>1, <4>1 DEF Life!vars
    <3> QED BY <3>2, <3>3
  <2> QED BY <2>2, <2>3
<1>5. ASSUME NEW f \in Flows, Validate(f) \/ Notify(f)
      PROVE  [Life!Next]_(Life!vars)
  BY <1>1, <1>5 DEF Validate, Notify, course
<1>6. ASSUME NEW f \in Flows, Transition(f) \/ LandLate(f)
      PROVE  [Life!Next]_(Life!vars)
  BY <1>6, WriteRefines DEF Transition, LandLate
<1>7. ASSUME NEW f \in Flows, at[f] = "emit", announced' = announced + 1,
             UNCHANGED <<status, taught, byOwner, patched, unsure>>
      PROVE  [Life!Next]_(Life!vars)
  <2>1. status # "draft" \/ patched
    BY <1>7 DEF IInv, MovedByPublish, ArchiveIsSilent, Flows
  <2> QED BY <1>7, <2>1 DEF Life!Next, Life!Announce, Ready
<1>8. ASSUME NEW f \in Flows, Emit(f)
      PROVE  [Life!Next]_(Life!vars)
  BY <1>1, <1>7, <1>8 DEF Emit, course
<1>9. ASSUME NEW f \in Flows, AttemptFails(f)
      PROVE  [Life!Next]_(Life!vars)
  <2>1. UNCHANGED <<taught, byOwner, patched>>
    BY <1>9 DEF AttemptFails
  <2>2. CASE UNCHANGED <<status, late, announced, unsure>>
    BY <1>1, <2>1, <2>2
  <2>3. CASE /\ at[f] = "transition" /\ status' = Target(f) /\ unsure' = TRUE
             /\ UNCHANGED <<late, announced>>
    BY <2>1, <2>3, WriteRefines
  <2>4. CASE at[f] = "transition" /\ unsure' = TRUE /\ UNCHANGED <<status, announced>>
    BY <2>1, <2>4 DEF Life!Next, Life!Doubt, Ready
  <2>5. CASE at[f] = "emit" /\ announced' = announced + 1 /\ UNCHANGED <<status, late, unsure>>
    BY <1>7, <2>1, <2>5
  <2> QED BY <1>9, <2>2, <2>3, <2>4, <2>5 DEF AttemptFails
<1>10. CASE UNCHANGED vars
  BY <1>1, <1>10 DEF vars, course, flows
<1> QED BY <1>2, <1>3, <1>4, <1>5, <1>6, <1>8, <1>9, <1>10 DEF Next, RunActivity

\* The two workflows, with their retries and late writes and with the edits between them,
\* implement the course's life.
THEOREM PublishingImplementsLife == Spec => ImplementsLife
<1>1. Init => Unstarted /\ Life!Init
  BY DEF Init, Unstarted, Life!Init, Ready
<1> QED BY <1>1, UnstartedStep, LifeStep, PublishingInvariance, PTL
        DEF Spec, ImplementsLife, Life!Spec

-----------------------------------------------------------------------------
(* What a publish workflow leaves behind *)

\* Each failed attempt of the activity under way was a fault.  A workflow that completed sent
\* its event or dropped it, and one that failed with fewer faults than an activity has
\* attempts was refused by its validation: it wrote nothing, nor will it.
Attempted ==
    /\ \A f \in Flows : tries[f] <= faults
    /\ at["publish"] = "completed" => announced > 0 \/ drops > 0
    /\ at["publish"] = "failed" /\ faults < Attempts =>
          late["publish"] = 0 /\ (~ patched => status = "draft")

\* With its publish workflow over, the course is still a draft, or was announced.
PublishedEndsAnnounced ==
    at["publish"] \in Ended /\ status # "draft" /\ ~ patched =>
        announced > 0 \/ drops > 0 \/ faults >= Attempts

\* An activity that succeeds or refuses starts the count of the next one; only the last of
\* its attempts fails a workflow.
LEMMA AttemptedStep == IInv /\ Attempted /\ [Next]_vars => Attempted'
<1> SUFFICES ASSUME IInv, Attempted, [Next]_vars PROVE Attempted'
  OBVIOUS
<1>1. /\ TypeOK /\ faults \in Nat /\ announced \in Nat /\ drops \in Nat
      /\ Attempts \in Nat \ {0} /\ "publish" \in Flows
      /\ \A f \in Flows : tries[f] \in Nat /\ late[f] \in Nat
  BY PublishingAssumption DEF IInv, TypeOK, Flows
<1>2. ASSUME UNCHANGED <<at, tries, announced, drops, faults>>,
             late'["publish"] = late["publish"], ~ patched' => ~ patched /\ status' = status
      PROVE  Attempted'
  BY <1>2 DEF Attempted
<1>3. CASE AddLesson \/ Update \/ UNCHANGED vars
  <2>1. UNCHANGED flows /\ UNCHANGED <<announced, drops, faults>>
    BY <1>3 DEF AddLesson, Update, vars
  <2>2. ~ patched' => ~ patched /\ status' = status
    BY <1>3 DEF AddLesson, Update, vars, course
  <2> QED BY <1>2, <2>1, <2>2 DEF flows
<1>4. ASSUME NEW f \in Flows, Start(f)
      PROVE  Attempted'
  <2>1. at'[f] = "validate" /\ \A g \in Flows \ {f} : at'[g] = at[g] /\ tries'[g] = tries[g]
    BY <1>1, <1>4 DEF Start, Goto, TypeOK
  <2>2. tries'[f] = 0 /\ UNCHANGED <<course, late, announced, patched, faults, drops>>
    BY <1>1, <1>4 DEF Start, Goto, TypeOK
  <2> QED BY <1>1, <2>1, <2>2 DEF Attempted, course
<1>5. ASSUME NEW f \in Flows, Validate(f)
      PROVE  Attempted'
  <2>1. /\ at[f] = "validate" /\ at'[f] \in {"transition", "failed"} /\ tries'[f] = 0
        /\ \A g \in Flows \ {f} : at'[g] = at[g] /\ tries'[g] = tries[g]
        /\ UNCHANGED <<course, late, announced, patched, faults, drops>>
    BY <1>1, <1>5 DEF Validate, Goto, After, TypeOK
  <2>2. CASE f = "publish"
    <3>1. late["publish"] = 0 /\ (~ patched => status = "draft")
      BY <1>1, <2>1, <2>2 DEF IInv, PassedWasValid, Passed, MovedByPublish
    <3> QED BY <1>1, <2>1, <2>2, <3>1 DEF Attempted, course
  <2>3. CASE f # "publish"
    BY <1>1, <2>1, <2>3 DEF Attempted, course
  <2> QED BY <2>2, <2>3
<1>6. ASSUME NEW f \in Flows, ~ patched, Passed(f),
             at["publish"] = "failed", faults < Attempts
      PROVE  FALSE
  <2>1. f = "publish" => FALSE
    BY <1>1, <1>6 DEF Attempted, Passed
  <2>2. f = "archive" => FALSE
    BY <1>6 DEF Attempted, IInv, MovedByPublish
  <2> QED BY <2>1, <2>2 DEF Flows
<1>7. ASSUME NEW f \in Flows, LandLate(f)
      PROVE  Attempted'
  <2>1. Passed(f) /\ UNCHANGED <<at, tries, announced, patched, faults, drops>>
    BY <1>7 DEF LandLate, Passed
  <2>2. late'["publish"] = 0 \/ late["publish"] > 0
    BY <1>1, <1>7 DEF LandLate, TypeOK
  <2>3. at["publish"] = "failed" /\ faults < Attempts => late["publish"] = 0 /\ patched
    BY <1>6, <2>1 DEF Attempted
  <2> QED BY <1>1, <2>1, <2>2, <2>3 DEF Attempted
<1>8. ASSUME NEW f \in Flows, Transition(f) \/ Notify(f) \/ Emit(f)
      PROVE  Attempted'
  <2>1. /\ at'[f] \in {"notify", "emit", "completed"} /\ tries'[f] = 0 /\ Passed(f)
        /\ \A g \in Flows \ {f} : at'[g] = at[g] /\ tries'[g] = tries[g]
        /\ UNCHANGED <<late, patched, faults>>
    BY <1>1, <1>8 DEF Transition, Notify, Emit, Goto, After, TypeOK, Passed, Flows
  <2>2. at'["publish"] = "completed" => announced' > 0 \/ drops' > 0
    <3>1. CASE f = "publish" /\ Emit(f)
      BY <1>1, <3>1 DEF Emit
    <3>2. CASE f = "publish" /\ (Transition(f) \/ Notify(f))
      BY <1>1, <3>2 DEF Transition, Notify, Goto, After, TypeOK
    <3>3. CASE f # "publish"
      BY <1>1, <1>8, <2>1, <3>3 DEF Attempted, Transition, Notify, Emit
    <3> QED BY <1>8, <3>1, <3>2, <3>3
  <2>3. at'["publish"] = "failed" => at["publish"] = "failed"
    BY <1>1, <2>1
  <2>4. at["publish"] = "failed" /\ faults < Attempts => late["publish"] = 0 /\ patched
    BY <1>6, <2>1 DEF Attempted
  <2> QED BY <1>1, <2>1, <2>2, <2>3, <2>4 DEF Attempted
<1>9. ASSUME NEW f \in Flows, AttemptFails(f)
      PROVE  Attempted'
  <2>1. /\ at[f] \in Activities /\ faults' = faults + 1
        /\ announced' \in {announced, announced + 1} /\ UNCHANGED <<drops, patched>>
        /\ \A g \in Flows \ {f} : at'[g] = at[g] /\ tries'[g] = tries[g] /\ late'[g] = late[g]
    BY <1>1, <1>9 DEF AttemptFails, Retry, Goto, TypeOK
  <2>2. /\ tries'[f] \in {0, tries[f], tries[f] + 1}
        /\ \/ at'[f] = at[f]
           \/ at'[f] = "failed" /\ tries[f] + 1 = Attempts
    BY <1>1, <1>9 DEF AttemptFails, Retry, Goto, TypeOK
  <2>3. \A g \in Flows : tries'[g] <= faults'
    BY <1>1, <2>1, <2>2 DEF Attempted
  <2>4. at'["publish"] = "completed" => announced' > 0 \/ drops' > 0
    BY <1>1, <2>1, <2>2 DEF Attempted, Activities
  <2>5. ASSUME at'["publish"] = "failed", faults' < Attempts
        PROVE  late'["publish"] = 0 /\ (~ patched' => status' = "draft")
    <3>1. f # "publish" /\ at["publish"] = "failed" /\ faults < Attempts
      BY <1>1, <2>1, <2>2, <2>5 DEF Attempted, Activities
    <3>2. status' = status \/ (at[f] = "transition" /\ Passed(f))
      BY <1>9 DEF AttemptFails, Passed
    <3> QED BY <1>1, <1>6, <2>1, <3>1, <3>2 DEF Attempted
  <2> QED BY <2>3, <2>4, <2>5 DEF Attempted
<1> QED BY <1>3, <1>4, <1>5, <1>7, <1>8, <1>9 DEF Next, RunActivity

\* What is safe in PublishedIsAnnounced: a course that left its draft by the publish workflow
\* has been announced by the time that workflow is over, unless the event was dropped or
\* there were as many faults as an activity has attempts.  Fairness adds that it is over.
THEOREM PublishEnds == Spec => []PublishedEndsAnnounced
<1>1. Init => Attempted
  BY PublishingAssumption DEF Init, Attempted, Flows
<1>2. IInv /\ Attempted => PublishedEndsAnnounced
  BY PublishingAssumption DEF IInv, TypeOK, Attempted, PublishedEndsAnnounced, Ended
<1> QED BY <1>1, <1>2, AttemptedStep, PublishingInvariance, PTL DEF Spec

=============================================================================
