------------------------ MODULE EnrollmentSagaProofs ------------------------
(***************************************************************************)
(* Proofs about EnrollmentSaga, for any number of attempts, runs, faults   *)
(* and late effects: the pair has at most one row, a returned enrollment   *)
(* is lost only to a compensation that condemned that very row, announced  *)
(* enrollments exist or were condemned, cancelled ones are gone, and a     *)
(* completed enrollment stays.                                             *)
(***************************************************************************)
EXTENDS EnrollmentSaga, TLAPS

\* Every id in use has been handed out: nextId is fresh.
Fresh ==
    /\ eid < nextId
    /\ \A id \in rows \cup cancelled \cup condemned : id < nextId
    /\ \A e \in late : e.id < nextId

\* What may still land: only rows that a run condemned are deleted, only enrollments
\* that exist or were condemned are announced, and a cancellation is announced only of
\* a row that is gone.
LateSound ==
    \A e \in late : /\ e.op = "delete" => e.id \in condemned
                    /\ e.op = "announce" => e.id \in rows \cup condemned
                    /\ e.op = "tombstone" => e.id \in condemned \ rows

\* Where the run stands: it cancels what it condemned, and announces that afterwards.
RunSound ==
    wf = "running" =>
        /\ step \in {"email", "emit"} => eid # None
        /\ step = "cancel" => eid \in condemned
        /\ step = "tombstone" => eid \in condemned \ rows

IInv ==
    /\ TypeOK /\ Fresh /\ LateSound /\ RunSound
    /\ AtMostOneRow /\ EnrollmentKept /\ AnnouncedExists /\ CancelledIsGone

-----------------------------------------------------------------------------
\* The invariant holds before the first request.
LEMMA InductiveInit == Init => IInv
BY DEF Init, IInv, TypeOK, Fresh, LateSound, RunSound, AtMostOneRow, EnrollmentKept,
       AnnouncedExists, CancelledIsGone, Steps, Ids, None

\* An insert adds at most the fresh id, and only to an empty table.
LEMMA InsertEffect ==
    ASSUME IInv, InsertRow
    PROVE  /\ rows \subseteq rows' /\ rows' \subseteq rows \cup {nextId}
           /\ rows' # {} /\ rows' \in SUBSET Ids
           /\ \A a, b \in rows' : a = b
           /\ nextId' \in Ids /\ nextId <= nextId'
           /\ \A id \in rows' : id < nextId'
<1> USE DEF IInv, TypeOK, Fresh, AtMostOneRow, Ids
<1>1. CASE rows = {}
  <2>1. rows' = {nextId} /\ nextId' = nextId + 1
    BY <1>1 DEF InsertRow
  <2>2. nextId \in Nat \ {0}
    OBVIOUS
  <2> QED BY <1>1, <2>1, <2>2
<1>2. CASE rows # {}
  <2>1. rows' = rows /\ nextId' = nextId
    BY <1>2 DEF InsertRow
  <2> QED BY <1>2, <2>1
<1> QED BY <1>1, <1>2

\* Every step keeps the invariant: the table loses only condemned rows and gains only
\* the fresh id, which nothing in flight can name.
LEMMA InductiveStep == IInv /\ [Next]_vars => IInv'
<1> SUFFICES ASSUME IInv, [Next]_vars PROVE IInv'
  OBVIOUS
<1> USE DEF IInv, TypeOK, Fresh, LateSound, RunSound, AtMostOneRow, EnrollmentKept,
            AnnouncedExists, CancelledIsGone
<1>1. CASE UNCHANGED vars
  BY <1>1 DEF vars
<1>2. CASE CourseChanges
  BY <1>2 DEF CourseChanges
<1>3. CASE Enroll
  BY <1>3 DEF Enroll, Steps, None, Ids
<1>4. CASE Validate
  BY <1>4 DEF Validate, Proceed, End, Steps
<1>5. CASE Create
  <2>1. InsertRow
    BY <1>5 DEF Create
  <2>2. /\ rows \subseteq rows' /\ rows' \subseteq rows \cup {nextId}
        /\ rows' \in SUBSET Ids /\ nextId' \in Ids /\ nextId <= nextId'
        /\ \A a, b \in rows' : a = b
        /\ \A id \in rows' : id < nextId'
    BY <2>1, InsertEffect
  <2>3. /\ wf' = "running" /\ step' = "email" /\ tries' = 0 /\ eid' \in rows'
        /\ UNCHANGED <<published, created, cancelled, dropped, condemned, late, runs, faults>>
    BY <1>5 DEF Create, Proceed
  <2>4. TypeOK'
    BY <2>2, <2>3 DEF Steps, Ids
  <2>5. Fresh'
    BY <2>2, <2>3 DEF Ids, Effects
  <2>6. LateSound'
    <3>1. nextId \notin condemned
      BY DEF Ids
    <3> QED BY <2>2, <2>3, <3>1
  <2>7. RunSound' /\ EnrollmentKept'
    BY <2>2, <2>3 DEF Ids, None
  <2>8. AtMostOneRow' /\ AnnouncedExists'
    BY <2>2, <2>3
  <2>9. CancelledIsGone'
    <3>1. nextId \notin cancelled
      BY DEF Ids
    <3> QED BY <2>2, <2>3, <3>1
  <2> QED BY <2>4, <2>5, <2>6, <2>7, <2>8, <2>9
<1>6. CASE Email
  BY <1>6 DEF Email, Proceed, Steps
<1>7. CASE Emit
  <2>1. /\ wf = "running" /\ step = "emit" /\ wf' = "completed"
        /\ UNCHANGED <<step, tries, published, eid, rows, nextId, cancelled, condemned,
                       late, runs>>
    BY <1>7 DEF Emit, End
  <2>2. eid \in Ids /\ eid \in rows \cup condemned
    BY <2>1 DEF Ids, None
  <2>3. CASE created' = created \cup {eid} /\ UNCHANGED <<dropped, faults>>
    BY <2>1, <2>2, <2>3
  <2>4. CASE created' = created /\ DropEvent
    <3>1. faults' \in Nat /\ dropped' \in SUBSET Ids
      BY <2>2, <2>4 DEF DropEvent
    <3> QED BY <2>1, <2>4, <3>1
  <2> QED BY <1>7, <2>3, <2>4 DEF Emit
<1>8. CASE Cancel
  BY <1>8 DEF Cancel, DeleteRow, Proceed, Steps
<1>9. CASE Tombstone
  <2>1. /\ wf = "running" /\ step = "tombstone" /\ wf' = "failed"
        /\ UNCHANGED <<step, tries, published, eid, rows, nextId, created, condemned,
                       late, runs>>
    BY <1>9 DEF Tombstone, End
  <2>2. eid \in Ids /\ eid \in condemned \ rows
    BY <2>1
  <2>3. CASE cancelled' = cancelled \cup {eid} /\ UNCHANGED <<dropped, faults>>
    BY <2>1, <2>2, <2>3
  <2>4. CASE cancelled' = cancelled /\ DropEvent
    <3>1. faults' \in Nat /\ dropped' \in SUBSET Ids
      BY <2>2, <2>4 DEF DropEvent
    <3> QED BY <2>1, <2>4, <3>1
  <2> QED BY <1>9, <2>3, <2>4 DEF Tombstone
<1>10. CASE AttemptFails
  <2>1. late' \subseteq late \cup EffectOf(step)
    BY <1>10 DEF AttemptFails
  <2>2. \A e \in EffectOf(step) :
            /\ e \in Effects /\ e.id < nextId
            /\ e.op = "delete" => e.id \in condemned
            /\ e.op = "announce" => e.id \in rows \cup condemned
            /\ e.op = "tombstone" => e.id \in condemned \ rows
    BY <1>10 DEF AttemptFails, EffectOf, Effects, None, Ids, Steps
  <2>3. \/ UNCHANGED <<wf, step, condemned>> /\ tries' \in Nat
        \/ /\ step \in {"email", "emit"} /\ wf' = wf /\ step' = "cancel" /\ tries' = 0
           /\ condemned' = condemned \cup {eid}
        \/ wf' = "failed" /\ UNCHANGED <<step, tries, condemned>>
    BY <1>10 DEF AttemptFails, GiveUp, Proceed, End
  <2>4. /\ wf = "running" /\ faults' \in Nat
        /\ UNCHANGED <<published, eid, rows, nextId, created, cancelled, dropped, runs>>
    BY <1>10 DEF AttemptFails
  <2>5. condemned \subseteq condemned' /\ condemned' \subseteq condemned \cup {eid}
    BY <2>3
  <2>6. TypeOK'
    <3>1. condemned' \in SUBSET Ids
      BY <2>3, <2>4 DEF None, Ids
    <3>2. late' \in SUBSET Effects
      BY <2>1, <2>2
    <3>3. wf' \in {"none", "running", "completed", "failed"} /\ step' \in Steps
          /\ tries' \in Nat
      BY <2>3 DEF Steps
    <3> QED BY <2>4, <3>1, <3>2, <3>3
  <2>7. Fresh'
    BY <2>1, <2>2, <2>4, <2>5
  <2>8. LateSound'
    BY <2>1, <2>2, <2>4, <2>5
  <2>9. RunSound'
    BY <2>3, <2>4
  <2>10. AtMostOneRow' /\ CancelledIsGone'
    BY <2>4
  <2>11. EnrollmentKept' /\ AnnouncedExists'
    BY <2>3, <2>4, <2>5
  <2> QED BY <2>6, <2>7, <2>8, <2>9, <2>10, <2>11
<1>11. CASE LateEffect
  <2>1. PICK e \in late :
          /\ late' = late \ {e}
          /\ \/ /\ e.op = "insert" /\ InsertRow
                /\ UNCHANGED <<created, cancelled>>
             \/ /\ e.op = "delete" /\ DeleteRow(e.id)
                /\ UNCHANGED <<nextId, created, cancelled>>
             \/ /\ e.op = "announce" /\ created' = created \cup {e.id}
                /\ UNCHANGED <<rows, nextId, cancelled>>
             \/ /\ e.op = "tombstone" /\ cancelled' = cancelled \cup {e.id}
                /\ UNCHANGED <<rows, nextId, created>>
    BY <1>11 DEF LateEffect
  <2>2. UNCHANGED <<published, wf, step, tries, eid, dropped, condemned, runs, faults>>
    BY <1>11 DEF LateEffect
  <2>3. CASE e.op = "insert" /\ InsertRow /\ UNCHANGED <<created, cancelled>>
    <3>1. /\ rows \subseteq rows' /\ rows' \subseteq rows \cup {nextId}
          /\ rows' \in SUBSET Ids /\ nextId' \in Ids /\ nextId <= nextId'
          /\ \A a, b \in rows' : a = b
          /\ \A id \in rows' : id < nextId'
      BY <2>3, InsertEffect
    <3> QED BY <2>1, <2>2, <2>3, <3>1 DEF Steps, Ids, Effects
  <2>4. CASE e.op = "delete" /\ DeleteRow(e.id) /\ UNCHANGED <<nextId, created, cancelled>>
    BY <2>1, <2>2, <2>4 DEF DeleteRow
  <2>5. CASE /\ e.op = "announce" /\ created' = created \cup {e.id}
             /\ UNCHANGED <<rows, nextId, cancelled>>
    BY <2>1, <2>2, <2>5
  <2>6. CASE /\ e.op = "tombstone" /\ cancelled' = cancelled \cup {e.id}
             /\ UNCHANGED <<rows, nextId, created>>
    BY <2>1, <2>2, <2>6 DEF Ids
  <2> QED BY <2>1, <2>3, <2>4, <2>5, <2>6
<1> QED BY <1>1, <1>2, <1>3, <1>4, <1>5, <1>6, <1>7, <1>8, <1>9, <1>10, <1>11 DEF Next, Run

\* The inductive invariant of the saga holds throughout.
THEOREM SagaInvariance == Spec => []IInv
BY InductiveInit, InductiveStep, PTL DEF Spec

\* The saga stays well typed: ids are those of rows, never the missing one.
THEOREM SagaTypes == Spec => []TypeOK
<1>1. IInv => TypeOK
  BY DEF IInv
<1> QED BY <1>1, SagaInvariance, PTL

\* The pair has at most one row, whatever lands late.
THEOREM OneRow == Spec => []AtMostOneRow
<1>1. IInv => AtMostOneRow
  BY DEF IInv
<1> QED BY <1>1, SagaInvariance, PTL

\* Only a compensation that condemned a row takes it away from the run that returned it.
THEOREM Kept == Spec => []EnrollmentKept
<1>1. IInv => EnrollmentKept
  BY DEF IInv
<1> QED BY <1>1, SagaInvariance, PTL

\* The streams of created and cancelled enrollments agree with the table.
THEOREM Announced == Spec => [](AnnouncedExists /\ CancelledIsGone)
<1>1. IInv => AnnouncedExists /\ CancelledIsGone
  BY DEF IInv
<1> QED BY <1>1, SagaInvariance, PTL

\* A completed enrollment that no run condemned stays.
THEOREM ForGood == Spec => EnrolledForGood
<1>1. IInv /\ [Next]_vars =>
          (wf = "completed" /\ eid \notin condemned
               => eid' = eid /\ eid \in rows' /\ eid \notin condemned')
  <2> SUFFICES ASSUME IInv, [Next]_vars, wf = "completed", eid \notin condemned
               PROVE  eid' = eid /\ eid \in rows' /\ eid \notin condemned'
    OBVIOUS
  <2>1. eid \in rows
    BY DEF IInv, EnrollmentKept
  <2>2. CASE LateEffect
    <3>1. eid' = eid /\ condemned' = condemned
      BY <2>2 DEF LateEffect
    <3>2. rows \subseteq rows' \cup condemned
      BY <2>2, InsertEffect DEF LateEffect, DeleteRow, IInv, LateSound
    <3> QED BY <2>1, <3>1, <3>2
  <2>3. CASE ~ LateEffect
    BY <2>1, <2>3 DEF Next, Run, vars, CourseChanges, Enroll, Validate, Create, Email,
                      Emit, Cancel, Tombstone, AttemptFails
  <2> QED BY <2>2, <2>3
<1> QED BY <1>1, SagaInvariance, PTL DEF Spec, EnrolledForGood

-----------------------------------------------------------------------------
\* The seat is the one row there is.
LEMMA HeldIsTheRow ==
    ASSUME AtMostOneRow, rows \in SUBSET Ids
    PROVE  /\ rows = {} => Held = None
           /\ \A id \in rows : Held = id
           /\ Held # None => rows = {Held}
           /\ \A id \in Ids : id \in rows <=> Held = id
  BY DEF AtMostOneRow, Held, None, Ids

\* A completed run that was not condemned holds its row, and its id was issued.
LEMMA ConfirmedIsHeld ==
    ASSUME IInv, Confirmed # None
    PROVE  /\ wf = "completed" /\ eid \notin condemned /\ Confirmed = eid /\ Held = eid
           /\ rows = {eid}
<1>1. wf = "completed" /\ eid \notin condemned /\ Confirmed = eid
  BY DEF Confirmed
<1>2. eid \in rows
  BY <1>1 DEF IInv, EnrollmentKept
<1> QED  BY <1>1, <1>2, HeldIsTheRow DEF IInv, TypeOK, AtMostOneRow

\* An insert takes a seat that is free, or does nothing.
LEMMA InsertTakes ==
    ASSUME IInv, IInv', InsertRow, Confirmed = None, Confirmed' = None,
           UNCHANGED <<condemned, created, cancelled>>
    PROVE  [Seat!Next]_(Seat!vars)
<1>1. CASE rows = {}
  <2>1. rows' = {nextId} /\ nextId' = nextId + 1 /\ nextId \in Ids
    BY <1>1 DEF InsertRow, IInv, TypeOK
  <2>2. Held = None /\ Held' = nextId
    BY <1>1, <2>1, HeldIsTheRow DEF Held
  <2>3. nextId \notin 1..(nextId - 1) /\ 1..(nextId' - 1) = 1..(nextId - 1) \cup {nextId}
    BY <2>1 DEF Ids
  <2>4. Seat!Take
    BY <2>1, <2>2, <2>3 DEF Seat!Take, Seat!None, Seat!Ids, None, Ids
  <2> QED  BY <2>4 DEF Seat!Next
<1>2. CASE rows # {}
  <2>1. UNCHANGED <<rows, nextId>>
    BY <1>2 DEF InsertRow
  <2>2. Held' = Held
    BY <2>1 DEF Held
  <2> QED  BY <2>1, <2>2 DEF Seat!vars
<1> QED  BY <1>1, <1>2

\* The deletion of a condemned row gives the seat up, or does nothing.
LEMMA DeleteLeaves ==
    ASSUME IInv, IInv', NEW id \in condemned, DeleteRow(id), Confirmed' = Confirmed,
           UNCHANGED <<nextId, condemned, created, cancelled>>
    PROVE  [Seat!Next]_(Seat!vars)
<1>1. CASE id \in rows
  <2>1. Held = id /\ rows' = {} /\ Held' = None
    BY <1>1, HeldIsTheRow DEF IInv, TypeOK, AtMostOneRow, DeleteRow, Held
  <2>2. Seat!Leave
    BY <2>1 DEF Seat!Leave, Seat!None, None
  <2> QED  BY <2>2 DEF Seat!Next
<1>2. CASE id \notin rows
  <2>1. rows' = rows
    BY <1>2 DEF DeleteRow
  <2>2. Held' = Held
    BY <2>1 DEF Held
  <2> QED  BY <2>1, <2>2 DEF Seat!vars
<1> QED  BY <1>1, <1>2

\* Every step of the saga is a step of the seat or changes nothing of it.
LEMMA SeatStep == IInv /\ IInv' /\ [Next]_vars => [Seat!Next]_(Seat!vars)
<1> SUFFICES ASSUME IInv, IInv', [Next]_vars PROVE [Seat!Next]_(Seat!vars)
  OBVIOUS
<1>0. /\ AtMostOneRow /\ rows \in SUBSET Ids /\ eid \in Nat /\ nextId \in Ids
      /\ eid < nextId /\ \A id \in condemned : id < nextId
  BY DEF IInv, TypeOK, Fresh
<1>1. ASSUME UNCHANGED <<rows, nextId, condemned, created, cancelled>>, Confirmed' = Confirmed
      PROVE  UNCHANGED Seat!vars
  BY <1>1 DEF Seat!vars, Held
<1>2. CASE UNCHANGED vars
  BY <1>1, <1>2 DEF vars, Confirmed
<1>3. CASE CourseChanges
  BY <1>1, <1>3 DEF CourseChanges, Confirmed
<1>4. CASE Enroll
  BY <1>1, <1>4 DEF Enroll, Confirmed
<1>5. CASE Validate
  BY <1>1, <1>5 DEF Validate, Proceed, End, Confirmed
<1>6. CASE Create
  BY <1>6, InsertTakes DEF Create, Proceed, Confirmed
<1>7. CASE Email
  BY <1>1, <1>7 DEF Email, Proceed, Confirmed
<1>8. CASE Emit
  <2>1. /\ wf = "running" /\ step = "emit" /\ wf' = "completed"
        /\ UNCHANGED <<eid, rows, nextId, cancelled, condemned>>
        /\ created' = created \/ created' = created \cup {eid}
        /\ Held' = Held
    BY <1>8 DEF Emit, End, DropEvent, Held
  <2>2. eid # None /\ eid \in rows \cup condemned
    BY <2>1 DEF IInv, RunSound, EnrollmentKept
  <2>3. CASE eid \in condemned
    <3>1. Confirmed = None /\ Confirmed' = None
      BY <2>1, <2>3 DEF Confirmed
    <3>2. created' = created \cup {eid} => Seat!Announce
      BY <2>1, <2>3, <3>1 DEF Seat!Announce, Seat!None
    <3>3. created' = created => UNCHANGED Seat!vars
      BY <1>1, <2>1, <3>1
    <3> QED  BY <2>1, <3>2, <3>3 DEF Seat!Next
  <2>4. CASE eid \notin condemned
    <3>1. Confirmed = None /\ Confirmed' = eid /\ Held = eid
      BY <2>1, <2>2, <2>4, <1>0, HeldIsTheRow DEF Confirmed
    <3>2. Seat!Confirm
      BY <2>1, <2>2, <2>4, <3>1 DEF Seat!Confirm, Seat!None, None
    <3> QED  BY <3>2 DEF Seat!Next
  <2> QED  BY <2>3, <2>4
<1>9. CASE Cancel
  <2>1. /\ eid \in condemned /\ DeleteRow(eid) /\ wf = "running" /\ wf' = "running"
        /\ UNCHANGED <<nextId, condemned, created, cancelled>>
    BY <1>9 DEF Cancel, Proceed, IInv, RunSound
  <2> QED  BY <2>1, DeleteLeaves DEF Confirmed
<1>10. CASE Tombstone
  <2>1. /\ wf = "running" /\ wf' = "failed" /\ eid \in condemned \ rows
        /\ UNCHANGED <<eid, rows, nextId, created, condemned>>
        /\ cancelled' = cancelled \/ cancelled' = cancelled \cup {eid}
        /\ Held' = Held
    BY <1>10 DEF Tombstone, End, DropEvent, IInv, RunSound, Held
  <2>2. Confirmed = None /\ Confirmed' = None
    BY <2>1 DEF Confirmed
  <2>3. eid # Held
    BY <2>1, <1>0, HeldIsTheRow DEF IInv, TypeOK, None, Ids
  <2>4. cancelled' = cancelled \cup {eid} => Seat!AnnounceCancelled
    BY <2>1, <2>2, <2>3 DEF Seat!AnnounceCancelled
  <2>5. cancelled' = cancelled => UNCHANGED Seat!vars
    BY <1>1, <2>1, <2>2
  <2> QED  BY <2>1, <2>4, <2>5 DEF Seat!Next
<1>11. CASE AttemptFails
  <2>1. /\ wf = "running" /\ UNCHANGED <<eid, rows, nextId, created, cancelled>>
        /\ wf' \in {"running", "failed"} /\ Held' = Held
        /\ \/ condemned' = condemned
           \/ condemned' = condemned \cup {eid} /\ step \in {"email", "emit"}
    BY <1>11 DEF AttemptFails, GiveUp, Proceed, End, Held
  <2>2. Confirmed = None /\ Confirmed' = None
    BY <2>1 DEF Confirmed
  <2>3. CASE condemned' = condemned
    BY <1>1, <2>1, <2>2, <2>3
  <2>4. CASE condemned' = condemned \cup {eid} /\ step \in {"email", "emit"}
    <3>1. eid \in 1..(nextId - 1) /\ eid # None
      BY <1>0, <2>1, <2>4 DEF IInv, RunSound, None, Ids
    <3>2. Seat!Condemn
      BY <2>1, <2>2, <2>4, <3>1 DEF Seat!Condemn
    <3> QED  BY <3>2 DEF Seat!Next
  <2> QED  BY <2>1, <2>3, <2>4
<1>12. CASE LateEffect
  <2>1. PICK e \in late :
          \/ /\ e.op = "insert" /\ InsertRow
             /\ UNCHANGED <<created, cancelled>>
          \/ /\ e.op = "delete" /\ DeleteRow(e.id)
             /\ UNCHANGED <<nextId, created, cancelled>>
          \/ /\ e.op = "announce" /\ created' = created \cup {e.id}
             /\ UNCHANGED <<rows, nextId, cancelled>>
          \/ /\ e.op = "tombstone" /\ cancelled' = cancelled \cup {e.id}
             /\ UNCHANGED <<rows, nextId, created>>
    BY <1>12 DEF LateEffect
  <2>2. UNCHANGED <<wf, eid, condemned>> /\ Confirmed' = Confirmed
    BY <1>12 DEF LateEffect, Confirmed
  <2>3. /\ e.op = "delete" => e.id \in condemned
        /\ e.op = "announce" => e.id \in rows \cup condemned
        /\ e.op = "tombstone" => e.id \in condemned \ rows
    BY DEF IInv, LateSound
  <2>4. CASE e.op = "insert" /\ InsertRow /\ UNCHANGED <<created, cancelled>>
    <3>1. CASE Confirmed = None
      BY <2>2, <2>4, <3>1, InsertTakes
    <3>2. CASE Confirmed # None
      <4>1. rows # {}
        BY <3>2, ConfirmedIsHeld
      <4> QED  BY <1>1, <2>2, <2>4, <4>1 DEF InsertRow
    <3> QED  BY <3>1, <3>2
  <2>5. CASE e.op = "delete" /\ DeleteRow(e.id) /\ UNCHANGED <<nextId, created, cancelled>>
    BY <2>2, <2>3, <2>5, DeleteLeaves
  <2>6. CASE /\ e.op = "announce" /\ created' = created \cup {e.id}
             /\ UNCHANGED <<rows, nextId, cancelled>>
    <3>1. Held' = Held /\ e.id \in ({Held} \ {None}) \cup condemned
      BY <1>0, <2>3, <2>6, HeldIsTheRow DEF Held, None, Ids
    <3>2. Seat!Announce
      BY <2>2, <2>6, <3>1 DEF Seat!Announce, Seat!None, None
    <3> QED  BY <3>2 DEF Seat!Next
  <2>7. CASE /\ e.op = "tombstone" /\ cancelled' = cancelled \cup {e.id}
             /\ UNCHANGED <<rows, nextId, created>>
    <3>1. Held' = Held /\ e.id \in condemned \ {Held}
      BY <1>0, <2>3, <2>7, HeldIsTheRow DEF Held, None, Ids, IInv, TypeOK
    <3>2. Seat!AnnounceCancelled
      BY <2>2, <2>7, <3>1 DEF Seat!AnnounceCancelled
    <3> QED  BY <3>2 DEF Seat!Next
  <2> QED  BY <2>1, <2>4, <2>5, <2>6, <2>7
<1> QED  BY <1>2, <1>3, <1>4, <1>5, <1>6, <1>7, <1>8, <1>9, <1>10, <1>11, <1>12 DEF Next, Run

\* The saga implements the seat: a table, a workflow with retries, and effects that land
\* late look like one seat that is taken, confirmed or given up.
THEOREM SagaImplementsSeat == Spec => ImplementsSeat
<1>1. Init => Seat!Init
  BY DEF Init, Seat!Init, Seat!None, Held, Confirmed, None
<1> QED  BY <1>1, SeatStep, SagaInvariance, PTL DEF Spec, ImplementsSeat, Seat!Spec

-----------------------------------------------------------------------------
(* What a run can fail of *)

\* As many faults as one of the retried activities has attempts.
Exhausted == faults >= EmailAttempts \/ faults >= EmitAttempts

\* Each failed attempt of the activity under way was a fault, and a compensation is run,
\* or a row was ever condemned, only after every attempt of an activity had failed.
Spent ==
    /\ tries <= faults
    /\ wf = "running" /\ step \in {"cancel", "tombstone"} => Exhausted
    /\ condemned # {} => Exhausted

\* A run ends failed although its course is published.
FailedForCause == wf = "failed" => Exhausted

\* One fault short of giving up, an activity that is compensated has used all its attempts,
\* and one without a limit is never given up.
LEMMA LimitSpent ==
    ASSUME TypeOK, Spent, faults < MaxFaults, ~ (tries + 1 < Limit(step)), wf = "running"
    PROVE  /\ step \in {"email", "emit", "cancel", "tombstone"}
           /\ faults + 1 >= EmailAttempts \/ faults + 1 >= EmitAttempts
<1>1. /\ tries \in Nat /\ faults \in Nat /\ tries <= faults /\ step \in Steps
      /\ MaxFaults \in Nat /\ EmailAttempts \in Nat /\ EmitAttempts \in Nat
  BY SagaAssumption DEF TypeOK, Spent
<1>2. CASE step \in {"validate", "create"}
  BY <1>1, <1>2 DEF Limit
<1>3. CASE step \in {"email", "emit"}
  BY <1>1, <1>3 DEF Limit
<1>4. CASE step \in {"cancel", "tombstone"}
  BY <1>1, <1>4 DEF Spent, Exhausted
<1> QED BY <1>1, <1>2, <1>3, <1>4 DEF Steps

\* Only failed attempts bring a run to its compensation.
LEMMA SpentStep ==
    ASSUME IInv, Spent, [Next]_vars
    PROVE  Spent' /\ (published /\ FailedForCause => FailedForCause')
<1>1. /\ tries \in Nat /\ faults \in Nat /\ step \in Steps
      /\ EmailAttempts \in Nat /\ EmitAttempts \in Nat
  BY SagaAssumption DEF IInv, TypeOK
<1>2. faults' \in Nat /\ faults' >= faults
  BY <1>1 DEF Next, CourseChanges, Enroll, Run, Validate, Create, Email, Emit, DropEvent,
              Cancel, Tombstone, AttemptFails, LateEffect, vars
<1>3. Exhausted => Exhausted'
  BY <1>1, <1>2 DEF Exhausted
<1> USE DEF Spent, FailedForCause
<1>4. CASE UNCHANGED <<wf, step, tries, condemned>>
  BY <1>1, <1>2, <1>3, <1>4
<1>5. CASE Enroll
  BY <1>1, <1>3, <1>5 DEF Enroll
<1>6. CASE Validate
  BY <1>1, <1>3, <1>6 DEF Validate, Proceed, End
<1>7. CASE Create \/ Email \/ Emit
  BY <1>1, <1>2, <1>3, <1>7 DEF Create, Email, Emit, Proceed, End
<1>8. CASE Cancel \/ Tombstone
  BY <1>1, <1>2, <1>3, <1>8 DEF Cancel, Tombstone, Proceed, End
<1>9. CASE AttemptFails
  <2>1. wf = "running" /\ faults < MaxFaults /\ faults' = faults + 1
    BY <1>9 DEF AttemptFails
  <2>2. CASE tries + 1 < Limit(step)
    <3>1. tries' = tries + 1 /\ UNCHANGED <<wf, step, condemned>>
      BY <1>9, <2>2 DEF AttemptFails
    <3> QED BY <1>1, <1>3, <2>1, <3>1
  <2>3. CASE ~ (tries + 1 < Limit(step))
    <3>1. Exhausted'
      BY <2>1, <2>3, LimitSpent DEF IInv, Exhausted
    <3>2. tries' <= faults'
      BY <1>1, <1>9, <2>1, <2>3 DEF AttemptFails, GiveUp, Proceed, End
    <3> QED BY <3>1, <3>2
  <2> QED BY <2>2, <2>3
<1> QED BY <1>4, <1>5, <1>6, <1>7, <1>8, <1>9 DEF Next, CourseChanges, Run, LateEffect, vars

\* No row is condemned, and so no enrollment cancelled, before there were as many faults as
\* the email or the event has attempts: what a retry absorbs is never compensated.
THEOREM Absorbed == Spec => [](condemned # {} => Exhausted)
<1>1. Init => Spent
  BY DEF Init, Spent
<1>2. Spent => (condemned # {} => Exhausted)
  BY DEF Spent
<1>3. IInv /\ Spent /\ [Next]_vars => Spent'
  BY SpentStep
<1> QED BY <1>1, <1>2, <1>3, SagaInvariance, PTL DEF Spec

\* What is safe in FaultsAbsorbed: a run of a course that stays published fails only if there
\* were as many faults as a retried activity has attempts.  Fairness adds that it ends.
THEOREM FailsForCause == Spec /\ []published => []FailedForCause
<1>1. Init => Spent /\ FailedForCause
  BY DEF Init, Spent, FailedForCause
<1>2. /\ IInv /\ Spent /\ published /\ FailedForCause /\ [Next]_vars
      => Spent' /\ FailedForCause'
  BY SpentStep
<1> QED BY <1>1, <1>2, SagaInvariance, PTL DEF Spec

=============================================================================
