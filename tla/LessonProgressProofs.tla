------------------------ MODULE LessonProgressProofs ------------------------
(***************************************************************************)
(* Proofs about LessonProgress, for any number of concurrent requests, any *)
(* lessons added meanwhile and any faults: a completed enrollment stays    *)
(* completed, its workflow is started once and only for it, and it has the *)
(* lessons done that the course began with, but for the one in 200 that    *)
(* the rounding of the percentage may hide.                                *)
(***************************************************************************)
EXTENDS LessonProgress, FiniteSetTheorems, TLAPS

\* What is known of a request r, when the course has lessons ls, the completions dn are
\* committed and the enrollment's status is st.
Sound(r, ls, dn, st) ==
    /\ r \in Request
    /\ r.lesson \in ls
    /\ r.kind = "view" => ~ r.inserts /\ r.at # "read"
    /\ r.at \in {"read", "looked", "counted"} => r.total = 0
    /\ r.total <= Cardinality(Lessons)
    /\ r.at \in {"counted", "totalled"} =>
           /\ r.counted \subseteq ls
           /\ r.counted \subseteq dn \cup (IF r.inserts THEN {r.lesson} ELSE {})
    /\ r.at = "totalled" /\ r.total > 0 /\ Cardinality(r.counted) >= r.total
           => Initial \subseteq r.counted
    /\ r.at = "trigger" => st = "completed"

\* Every request is sound; a request that counted all lessons, by the number it was told,
\* counted those the course began with.
RequestsSound == \A w \in Workers : req[w] = Idle \/ Sound(req[w], lessons, done, status)

\* The workflow exists exactly if it was started once.
FlowSound ==
    /\ starts = IF flow = "none" THEN 0 ELSE 1
    /\ flow = "none" => announced = 0

IInv ==
    /\ TypeOK /\ Initial \subseteq lessons
    /\ RequestsSound /\ FlowSound /\ StartedIsCompleted

-----------------------------------------------------------------------------
\* The percentage is 100 exactly if at most one lesson in 200 is missing.
THEOREM PercentComplete ==
    ASSUME NEW c \in Nat, NEW t \in Nat, t > 0, c <= t
    PROVE  Percent(c, t) >= 100 <=> 200 * (t - c) <= t
<1> DEFINE q == (100 * c) \div t
<1> DEFINE r == (100 * c) % t
<1>1. /\ q \in Nat /\ r \in 0 .. (t - 1)
      /\ 100 * c = t * q + r
  OBVIOUS
<1>2. Percent(c, t) = IF 2 * r > t \/ (2 * r = t /\ q % 2 = 1) THEN q + 1 ELSE q
  BY DEF Percent
<1>3. CASE q <= 98
  <2>1. Percent(c, t) <= 99
    BY <1>1, <1>2, <1>3
  <2>2. t * q <= t * 98
    BY <1>1, <1>3
  <2>3. 200 * c < 198 * t
    BY <1>1, <2>2
  <2> QED BY <1>1, <1>2, <2>1, <2>3
<1>4. CASE q = 99
  <2>1. 2 * r = 200 * c - 198 * t
    BY <1>1, <1>4
  <2>2. Percent(c, t) = IF 2 * r >= t THEN 100 ELSE 99
    BY <1>1, <1>2, <1>4
  <2>3. 2 * r >= t <=> 200 * (t - c) <= t
    BY <2>1
  <2> QED BY <2>2, <2>3
<1>5. CASE q >= 100
  <2>1. t * q >= t * 100
    BY <1>1, <1>5
  <2>2. c = t
    BY <1>1, <2>1
  <2> QED BY <1>1, <1>2, <1>5, <2>2
<1> QED BY <1>1, <1>3, <1>4, <1>5

\* With 200 lessons it does round up.
LEMMA PercentRoundsUp == Percent(199, 200) = 100
BY DEF Percent

\* A percentage of a course with lessons is a natural number.
LEMMA PercentNat ==
    ASSUME NEW c \in Nat, NEW t \in Nat, t > 0
    PROVE  Percent(c, t) \in Nat
<1> DEFINE q == (100 * c) \div t
<1>1. q \in Nat
  OBVIOUS
<1> QED BY <1>1 DEF Percent

\* Lessons and completions are only added, and a completed status stays: a sound request
\* stays sound.
LEMMA SoundMonotone ==
    ASSUME NEW r, NEW ls, NEW dn, NEW st, NEW ls2, NEW dn2, NEW st2,
           Sound(r, ls, dn, st),
           ls \subseteq ls2, dn \subseteq dn2, st = "completed" => st2 = "completed"
    PROVE  Sound(r, ls2, dn2, st2)
BY DEF Sound

\* One worker takes a sound step and the others stay as they are.
LEMMA OneRequest ==
    ASSUME IInv, NEW w \in Workers, NEW x, req' = [req EXCEPT ![w] = x],
           x = Idle \/ Sound(x, lessons', done', status'),
           lessons \subseteq lessons', done \subseteq done',
           status = "completed" => status' = "completed"
    PROVE  RequestsSound' /\ req' \in [Workers -> Request \cup {Idle}]
<1>1. req \in [Workers -> Request \cup {Idle}]
  BY DEF IInv, TypeOK
<1>2. ASSUME NEW v \in Workers
      PROVE  req'[v] = Idle \/ Sound(req'[v], lessons', done', status')
  <2>1. CASE v = w
    BY <1>1, <2>1
  <2>2. CASE v # w
    <3>1. req'[v] = req[v]
      BY <1>1, <2>2
    <3>2. req[v] = Idle \/ Sound(req[v], lessons, done, status)
      BY DEF IInv, RequestsSound
    <3> QED BY <3>1, <3>2, SoundMonotone
  <2> QED BY <2>1, <2>2
<1>3. x \in Request \cup {Idle}
  BY DEF Sound
<1> QED BY <1>1, <1>2, <1>3 DEF RequestsSound

\* The sets of lessons that the handlers count are finite and bounded by the course.
LEMMA Cardinalities ==
    ASSUME IInv
    PROVE  /\ IsFiniteSet(lessons) /\ Cardinality(lessons) \in Nat
           /\ Cardinality(lessons) <= Cardinality(Lessons)
           /\ \A c \in SUBSET lessons :
                 /\ Cardinality(c) \in Nat
                 /\ Cardinality(c) >= Cardinality(lessons) => c = lessons
<1>1. IsFiniteSet(Lessons) /\ lessons \in SUBSET Lessons
  BY ProgressAssumption DEF IInv, TypeOK
<1>2. IsFiniteSet(lessons) /\ Cardinality(lessons) <= Cardinality(Lessons)
  BY <1>1, FS_Subset
<1>3. Cardinality(lessons) \in Nat
  BY <1>2, FS_CardinalityType
<1>4. ASSUME NEW c \in SUBSET lessons
      PROVE  /\ Cardinality(c) \in Nat
             /\ Cardinality(c) >= Cardinality(lessons) => c = lessons
  <2>1. IsFiniteSet(c) /\ Cardinality(c) <= Cardinality(lessons)
    BY <1>2, FS_Subset
  <2>2. Cardinality(c) = Cardinality(lessons) => c = lessons
    BY <1>2, FS_Subset
  <2>3. Cardinality(c) \in Nat
    BY <2>1, FS_CardinalityType
  <2> QED BY <1>3, <2>1, <2>2, <2>3
<1> QED BY <1>2, <1>3, <1>4

-----------------------------------------------------------------------------
\* The invariant holds when the student enrolls.
LEMMA InductiveInit == Init => IInv
<1> SUFFICES ASSUME Init PROVE IInv
  OBVIOUS
<1>1. viewed \in BOOLEAN
  BY Zenon DEF Init
<1> QED BY <1>1, ProgressAssumption
        DEF Init, IInv, TypeOK, RequestsSound, FlowSound, StartedIsCompleted, Idle

\* A request of w that is not idle, with its lesson among the course's.
LEMMA Busy ==
    ASSUME IInv, NEW w \in Workers, ~ At(w, "idle")
    PROVE  Sound(req[w], lessons, done, status) /\ req[w] \in Request
BY DEF IInv, RequestsSound, At, Idle, Sound

\* A request that reads the row knows of nothing that is not so.
LEMMA ReadStep == ASSUME IInv, NEW w \in Workers, Read(w) PROVE IInv'
<1>1. PICK kind \in Kinds, l \in lessons : req' = [req EXCEPT ![w] = Fresh(kind, l)]
  BY DEF Read
<1>2. UNCHANGED <<lessons, done, status, progress, viewed, flow, tries, starts, announced,
                  faults, drops>> /\ requests' \in Nat
  BY DEF Read, UnchangedRow, UnchangedFlow, IInv, TypeOK
<1>3. PICK x : x = Fresh(kind, l)
  OBVIOUS
<1>4. x \in Request
  BY <1>3, ProgressAssumption DEF Fresh, IInv, TypeOK, Request
<1>5. Cardinality(Lessons) \in Nat
  BY ProgressAssumption, FS_CardinalityType
<1>6. Sound(x, lessons', done', status')
  <2>1. /\ x.at \in {"read", "looked"} /\ x.lesson = l /\ x.total = 0
        /\ x.inserts = FALSE /\ (x.kind = "view" => x.at # "read")
    BY <1>3 DEF Fresh
  <2>2. x.total <= Cardinality(Lessons)
    BY <1>5, <2>1
  <2> QED BY <1>2, <1>4, <2>1, <2>2 DEF Sound
<1>7. RequestsSound' /\ req' \in [Workers -> Request \cup {Idle}]
  BY <1>1, <1>2, <1>3, <1>6, OneRequest
<1> QED BY <1>2, <1>7 DEF IInv, TypeOK, FlowSound, StartedIsCompleted

\* Whether it has to insert a completion does not matter to the invariant.
LEMMA LookStep == ASSUME IInv, NEW w \in Workers, Look(w) PROVE IInv'
<1> DEFINE r == req[w]
<1>1. r.at = "read" /\ Sound(r, lessons, done, status) /\ r \in Request
  BY Busy DEF Look, At
<1>2. UNCHANGED <<lessons, done, status, progress, viewed, flow, tries, starts, announced,
                  requests, faults, drops>>
  BY DEF Look, UnchangedRow, UnchangedFlow
<1>3. PICK x : x = [r EXCEPT !.at = "looked", !.inserts = r.lesson \notin done]
  OBVIOUS
<1>4. req' = [req EXCEPT ![w] = x]
  BY <1>3 DEF Look, IInv, TypeOK
<1>5. /\ x \in Request /\ x.at = "looked" /\ x.lesson = r.lesson /\ x.kind = r.kind
      /\ x.total = r.total
  BY <1>1, <1>3 DEF Request
<1>6. r.kind = "mark"
  BY <1>1 DEF Sound, Request
<1>7. Sound(x, lessons', done', status')
  BY <1>1, <1>2, <1>5, <1>6 DEF Sound
<1>8. RequestsSound' /\ req' \in [Workers -> Request \cup {Idle}]
  BY <1>2, <1>4, <1>7, OneRequest
<1> QED BY <1>2, <1>8 DEF IInv, TypeOK, FlowSound, StartedIsCompleted

\* What it counts is committed, or its own insert.
LEMMA CountStep == ASSUME IInv, NEW w \in Workers, Count(w) PROVE IInv'
<1> DEFINE r == req[w]
<1> DEFINE own == IF r.inserts THEN {r.lesson} ELSE {}
<1>1. r.at = "looked" /\ Sound(r, lessons, done, status) /\ r \in Request
  BY Busy DEF Count, At
<1>2. UNCHANGED <<lessons, done, status, progress, viewed, flow, tries, starts, announced,
                  requests, faults, drops>>
  BY DEF Count, UnchangedRow, UnchangedFlow
<1>3. done \subseteq lessons /\ lessons \subseteq Lessons
  BY DEF IInv, TypeOK
<1>4. PICK x : x = IF own \cap done # {} THEN Idle
                   ELSE [r EXCEPT !.at = "counted", !.counted = done \cup own]
  OBVIOUS
<1>5. req' = [req EXCEPT ![w] = x]
  BY <1>4 DEF Count
<1>6. x = Idle \/ Sound(x, lessons', done', status')
  <2>1. CASE own \cap done # {}
    BY <1>4, <2>1
  <2>2. CASE own \cap done = {}
    <3>1. x = [r EXCEPT !.at = "counted", !.counted = done \cup own]
      BY <1>4, <2>2
    <3>2. done \cup own \subseteq lessons
      BY <1>1, <1>3 DEF Sound
    <3>3. x \in Request
      BY <1>1, <1>3, <3>1, <3>2 DEF Request
    <3>4. /\ x.at = "counted" /\ x.counted = done \cup own
          /\ x.lesson = r.lesson /\ x.kind = r.kind /\ x.inserts = r.inserts
          /\ x.total = r.total
      BY <1>1, <3>1 DEF Request
    <3> QED BY <1>1, <1>2, <3>2, <3>3, <3>4 DEF Sound
  <2> QED BY <2>1, <2>2
<1>7. RequestsSound' /\ req' \in [Workers -> Request \cup {Idle}]
  BY <1>2, <1>5, <1>6, OneRequest
<1> QED BY <1>2, <1>7 DEF IInv, TypeOK, FlowSound, StartedIsCompleted

\* The total that it is told is that of the course so far, or 0.
LEMMA TotalStep == ASSUME IInv, NEW w \in Workers, Total(w) PROVE IInv'
<1> DEFINE r == req[w]
<1>1. r.at = "counted" /\ Sound(r, lessons, done, status) /\ r \in Request
  BY Busy DEF Total, At
<1>2. /\ UNCHANGED <<lessons, done, status, progress, viewed, flow, tries, starts, announced,
                     requests, drops>>
      /\ faults' \in Nat
  BY DEF Total, UnchangedRow, UnchangedFlow, IInv, TypeOK
<1>3. req \in [Workers -> Request \cup {Idle}]
  BY DEF IInv, TypeOK
<1>4. PICK t \in {0, Cardinality(lessons)} :
          req' = [req EXCEPT ![w] = [r EXCEPT !.at = "totalled", !.total = t]]
  <2>1. CASE req' = [req EXCEPT ![w].at = "totalled", ![w].total = Cardinality(lessons)]
    BY <1>1, <1>3, <2>1 DEF Request
  <2>2. CASE req' = [req EXCEPT ![w].at = "totalled"]
    <3>1. r.total = 0
      BY <1>1 DEF Sound
    <3>2. [r EXCEPT !.at = "totalled"] = [r EXCEPT !.at = "totalled", !.total = 0]
      BY <1>1, <3>1 DEF Request
    <3> QED BY <1>3, <2>2, <3>2
  <2> QED BY <2>1, <2>2 DEF Total, Goto
<1>5. PICK x : x = [r EXCEPT !.at = "totalled", !.total = t]
  OBVIOUS
<1>6. t \in Nat /\ t <= Cardinality(Lessons)
  BY Cardinalities, ProgressAssumption, FS_CardinalityType
<1>7. x \in Request
  BY <1>1, <1>5, <1>6 DEF Request
<1>8. /\ x.at = "totalled" /\ x.total = t /\ x.counted = r.counted
      /\ x.lesson = r.lesson /\ x.kind = r.kind /\ x.inserts = r.inserts
  BY <1>1, <1>5 DEF Request
<1>9. x.total > 0 /\ Cardinality(x.counted) >= x.total => Initial \subseteq x.counted
  <2>1. r.counted \in SUBSET lessons
    BY <1>1 DEF Sound
  <2>2. t > 0 /\ Cardinality(r.counted) >= t => r.counted = lessons
    BY <2>1, Cardinalities
  <2> QED BY <1>8, <2>2 DEF IInv
<1>10. Sound(x, lessons', done', status')
  BY <1>1, <1>2, <1>6, <1>7, <1>8, <1>9 DEF Sound
<1>11. RequestsSound' /\ req' \in [Workers -> Request \cup {Idle}]
  BY <1>2, <1>4, <1>5, <1>10, OneRequest
<1> QED BY <1>2, <1>11 DEF IInv, TypeOK, FlowSound, StartedIsCompleted

\* A commit takes no "completed" back, and keeps the types of the columns.
LEMMA WriteEffect ==
    ASSUME IInv, NEW r, NEW p, Sound(r, lessons, done, status), r.at = "totalled",
           r.total > 0 => p = Percent(Cardinality(r.counted), r.total),
           WriteRow(r, p)
    PROVE  /\ progress' \in Nat /\ status' \in {"enrolled", "completed"}
           /\ status = "completed" => status' = "completed"
<1>1. progress \in Nat /\ status \in {"enrolled", "completed"}
  BY DEF IInv, TypeOK
<1>2. CASE r.total > 0
  <2>1. r.total \in Nat /\ r.counted \in SUBSET lessons
    BY DEF Sound, Request
  <2>2. Cardinality(r.counted) \in Nat
    BY <2>1, Cardinalities
  <2>3. p \in Nat
    BY <1>2, <2>1, <2>2, PercentNat
  <2>4. /\ progress' \in {p, progress}
        /\ status' = IF p >= 100 /\ r.status # "completed" THEN "completed" ELSE status
    BY <1>2 DEF WriteRow
  <2> QED BY <1>1, <2>3, <2>4
<1>3. CASE ~ (r.total > 0)
  BY <1>1, <1>3 DEF WriteRow
<1> QED BY <1>2, <1>3

\* The commit writes what its counts justify, and takes no completion back.
LEMMA CommitStep ==
    ASSUME IInv, NEW w \in Workers, Commit(w)
    PROVE  IInv' /\ (status = "completed" => status' = "completed")
<1> DEFINE r == req[w]
<1> DEFINE p == Percent(Cardinality(r.counted), r.total)
<1>1. r.at = "totalled" /\ Sound(r, lessons, done, status) /\ r \in Request
  BY Busy DEF Commit, At
<1>2. /\ UNCHANGED <<lessons, flow, tries, starts, announced, requests, faults, drops>>
  BY DEF Commit, UnchangedFlow
<1>3. req \in [Workers -> Request \cup {Idle}] /\ progress \in Nat
      /\ status \in {"enrolled", "completed"} /\ done \subseteq lessons
  BY DEF IInv, TypeOK
<1>4. done' = done \cup Held(w)
  <2>1. r.kind # "mark" => Held(w) = {}
    BY <1>1 DEF Sound, Held, Request
  <2> QED BY <2>1 DEF Commit
<1>5. Held(w) \subseteq lessons
  BY <1>1 DEF Held, Sound
<1>6. /\ progress' \in Nat /\ status' \in {"enrolled", "completed"}
      /\ status = "completed" => status' = "completed"
  <2>1. WriteRow(r, p) \/ UNCHANGED <<progress, status>>
    BY DEF Commit
  <2>2. CASE WriteRow(r, p)
    BY <1>1, <2>2, WriteEffect
  <2>3. CASE UNCHANGED <<progress, status>>
    BY <1>3, <2>3
  <2> QED BY <2>1, <2>2, <2>3
<1>7. PICK x : x = IF r.kind = "mark" THEN [r EXCEPT !.at = "committed"] ELSE Idle
  OBVIOUS
<1>8. req' = [req EXCEPT ![w] = x]
  BY <1>3, <1>7 DEF Commit, Goto
<1>9. x = Idle \/ Sound(x, lessons', done', status')
  <2>1. CASE r.kind # "mark"
    BY <1>7, <2>1
  <2>2. CASE r.kind = "mark"
    <3>1. x = [r EXCEPT !.at = "committed"]
      BY <1>7, <2>2
    <3>2. x \in Request /\ x.at = "committed" /\ x.lesson = r.lesson /\ x.kind = r.kind
          /\ x.inserts = r.inserts /\ x.total = r.total
      BY <1>1, <3>1 DEF Request
    <3> QED BY <1>1, <1>2, <3>2 DEF Sound
  <2> QED BY <2>1, <2>2
<1>10. RequestsSound' /\ req' \in [Workers -> Request \cup {Idle}]
  BY <1>2, <1>4, <1>6, <1>8, <1>9, OneRequest
<1>11. viewed' \in BOOLEAN
  <2>1. viewed \in BOOLEAN
    BY DEF IInv, TypeOK
  <2>2. viewed' = viewed \/ viewed' = (viewed \/ status' # status)
    BY DEF Commit
  <2> QED BY <2>1, <2>2, Zenon
<1> QED BY <1>2, <1>3, <1>4, <1>5, <1>6, <1>10, <1>11
        DEF IInv, TypeOK, FlowSound, StartedIsCompleted

\* A request goes on to trigger only for a completed enrollment.
LEMMA RefreshStep == ASSUME IInv, NEW w \in Workers, Refresh(w) PROVE IInv'
<1> DEFINE r == req[w]
<1>1. r.at = "committed" /\ Sound(r, lessons, done, status) /\ r \in Request
  BY Busy DEF Refresh, At
<1>2. UNCHANGED <<lessons, done, status, progress, viewed, flow, tries, starts, announced,
                  requests, faults, drops>>
  BY DEF Refresh, UnchangedRow, UnchangedFlow
<1>3. req \in [Workers -> Request \cup {Idle}]
  BY DEF IInv, TypeOK
<1>4. PICK x : x = IF r.status # "completed" /\ status = "completed"
                   THEN [r EXCEPT !.at = "trigger"] ELSE Idle
  OBVIOUS
<1>5. req' = [req EXCEPT ![w] = x]
  BY <1>3, <1>4 DEF Refresh, Goto
<1>6. x = Idle \/ Sound(x, lessons', done', status')
  <2>1. CASE ~ (r.status # "completed" /\ status = "completed")
    BY <1>4, <2>1
  <2>2. CASE r.status # "completed" /\ status = "completed"
    <3>1. x = [r EXCEPT !.at = "trigger"]
      BY <1>4, <2>2
    <3>2. x \in Request /\ x.at = "trigger" /\ x.lesson = r.lesson /\ x.kind = r.kind
          /\ x.inserts = r.inserts /\ x.total = r.total
      BY <1>1, <3>1 DEF Request
    <3> QED BY <1>1, <1>2, <2>2, <3>2 DEF Sound
  <2> QED BY <2>1, <2>2
<1>7. RequestsSound' /\ req' \in [Workers -> Request \cup {Idle}]
  BY <1>2, <1>5, <1>6, OneRequest
<1> QED BY <1>2, <1>7 DEF IInv, TypeOK, FlowSound, StartedIsCompleted

\* The workflow is started at most once.
LEMMA TriggerStep == ASSUME IInv, NEW w \in Workers, Trigger(w) PROVE IInv'
<1>1. Sound(req[w], lessons, done, status) /\ req[w].at = "trigger"
  BY Busy DEF Trigger, At
<1>2. status = "completed"
  BY <1>1 DEF Sound
<1>3. req' = [req EXCEPT ![w] = Idle]
      /\ UNCHANGED <<lessons, done, status, progress, viewed, requests, faults, announced, drops>>
  BY DEF Trigger, UnchangedRow
<1>4. RequestsSound' /\ req' \in [Workers -> Request \cup {Idle}]
  BY <1>3, OneRequest
<1>5. CASE flow = "none" /\ flow' = "student" /\ tries' = 0 /\ starts' = starts + 1
  BY <1>2, <1>3, <1>4, <1>5 DEF IInv, TypeOK, FlowSound, StartedIsCompleted, Activities
<1>6. CASE UNCHANGED <<flow, tries, starts>>
  BY <1>2, <1>3, <1>4, <1>6 DEF IInv, TypeOK, FlowSound, StartedIsCompleted
<1> QED BY <1>5, <1>6 DEF Trigger

\* A request that fails leaves the stored state alone.
LEMMA FailStep == ASSUME IInv, NEW w \in Workers, Fail(w) PROVE IInv'
<1>1. req' = [req EXCEPT ![w] = Idle] /\ faults' = faults + 1
      /\ UNCHANGED <<lessons, done, status, progress, viewed, flow, tries, starts, announced,
                     requests, drops>>
  BY DEF Fail, UnchangedRow, UnchangedFlow
<1>2. RequestsSound' /\ req' \in [Workers -> Request \cup {Idle}]
  BY <1>1, OneRequest
<1> QED BY <1>1, <1>2 DEF IInv, TypeOK, FlowSound, StartedIsCompleted

\* A step that leaves every request where it is.
LEMMA NoRequest ==
    ASSUME IInv, req' = req, lessons \subseteq lessons', done' = done, status' = status
    PROVE  RequestsSound'
<1>1. ASSUME NEW v \in Workers, Sound(req[v], lessons, done, status)
      PROVE  Sound(req[v], lessons', done', status')
  BY <1>1, SoundMonotone
<1> QED BY <1>1 DEF IInv, RequestsSound

\* The course's growth and the completion workflow keep the invariant.
LEMMA OtherSteps ==
    ASSUME IInv, AddLesson \/ RunActivity \/ AttemptFails \/ UNCHANGED vars
    PROVE  IInv'
<1>1. CASE AddLesson
  <2>1. lessons \subseteq lessons' /\ lessons' \in SUBSET Lessons
        /\ UNCHANGED <<done, status, progress, viewed, req, flow, tries, starts, announced,
                       requests, faults, drops>>
    BY <1>1 DEF AddLesson, UnchangedRow, UnchangedFlow, IInv, TypeOK
  <2> QED BY <2>1, NoRequest DEF IInv, TypeOK, FlowSound, StartedIsCompleted
<1>2. CASE RunActivity
  <2>1. /\ UNCHANGED <<lessons, done, status, progress, viewed, req, starts, requests, faults>>
        /\ flow \in Activities /\ flow' \in Activities \cup {"completed"} /\ tries' = 0
        /\ announced' \in Nat /\ drops' \in Nat
    BY <1>2 DEF RunActivity, UnchangedRow, Activities, IInv, TypeOK
  <2>2. flow # "none" /\ flow' # "none"
    BY <2>1 DEF Activities
  <2>3. RequestsSound'
    BY <2>1, NoRequest
  <2> QED BY <2>1, <2>2, <2>3 DEF IInv, TypeOK, FlowSound, StartedIsCompleted
<1>3. CASE AttemptFails
  <2>1. /\ UNCHANGED <<lessons, done, status, progress, viewed, req, starts, requests, drops>>
        /\ flow \in Activities /\ flow' \in Activities \cup {"failed"} /\ tries' \in Nat
        /\ announced' \in Nat /\ faults' \in Nat
    BY <1>3 DEF AttemptFails, UnchangedRow, Activities, IInv, TypeOK
  <2>2. flow # "none" /\ flow' # "none"
    BY <2>1 DEF Activities
  <2>3. RequestsSound'
    BY <2>1, NoRequest
  <2> QED BY <2>1, <2>2, <2>3 DEF IInv, TypeOK, FlowSound, StartedIsCompleted
<1>4. CASE UNCHANGED vars
  BY <1>4 DEF vars, IInv, TypeOK, RequestsSound, FlowSound, StartedIsCompleted
<1> QED BY <1>1, <1>2, <1>3, <1>4

\* Every step keeps the invariant, and "completed".
LEMMA InductiveStep ==
    IInv /\ [Next]_vars => IInv' /\ (status = "completed" => status' = "completed")
<1> SUFFICES ASSUME IInv, [Next]_vars
             PROVE  IInv' /\ (status = "completed" => status' = "completed")
  OBVIOUS
<1>1. ASSUME NEW w \in Workers, Serve(w) \/ Fail(w)
      PROVE  IInv' /\ (status = "completed" => status' = "completed")
  <2>1. CASE Commit(w)
    BY <2>1, CommitStep
  <2>2. CASE Read(w)
    BY <2>2, ReadStep DEF Read, UnchangedRow
  <2>3. CASE Count(w)
    BY <2>3, CountStep DEF Count, UnchangedRow
  <2>4. CASE Total(w)
    BY <2>4, TotalStep DEF Total, UnchangedRow
  <2>5. CASE Refresh(w)
    BY <2>5, RefreshStep DEF Refresh, UnchangedRow
  <2>6. CASE Trigger(w)
    BY <2>6, TriggerStep DEF Trigger, UnchangedRow
  <2>7. CASE Fail(w)
    BY <2>7, FailStep DEF Fail, UnchangedRow
  <2>8. CASE Look(w)
    BY <2>8, LookStep DEF Look, UnchangedRow
  <2> QED BY <1>1, <2>1, <2>2, <2>3, <2>4, <2>5, <2>6, <2>7, <2>8 DEF Serve
<1>2. ASSUME AddLesson \/ RunActivity \/ AttemptFails \/ UNCHANGED vars
      PROVE  IInv' /\ (status = "completed" => status' = "completed")
  BY <1>2, OtherSteps DEF AddLesson, RunActivity, AttemptFails, UnchangedRow, vars
<1> QED BY <1>1, <1>2 DEF Next

\* The inductive invariant of the progress holds throughout.
THEOREM ProgressInvariance == Spec => []IInv
<1>1. IInv /\ [Next]_vars => IInv'
  BY InductiveStep
<1> QED BY InductiveInit, <1>1, PTL DEF Spec

\* The progress stays well typed, and only lessons of the course are done.
THEOREM ProgressTypes == Spec => []TypeOK
<1>1. IInv => TypeOK
  BY DEF IInv
<1> QED BY <1>1, ProgressInvariance, PTL

\* The workflow is started once, and only for a completed enrollment.
THEOREM CompletionStarts == Spec => [](StartedOnce /\ StartedIsCompleted)
<1>1. IInv => StartedOnce /\ StartedIsCompleted
  BY DEF IInv, FlowSound, StartedOnce
<1> QED BY <1>1, ProgressInvariance, PTL

\* No commit takes "completed" back.
THEOREM Stays == Spec => CompletedStays
<1>1. IInv /\ [Next]_vars => (status = "completed" => status' = "completed")
  BY InductiveStep
<1> QED BY <1>1, ProgressInvariance, PTL DEF Spec, CompletedStays

-----------------------------------------------------------------------------
\* As long as nothing has failed and no view has interfered, a completed enrollment whose
\* workflow is not started has a request that will start it: one that read the row
\* before it was completed and has committed since.
Triggering ==
    faults = 0 /\ ~ viewed /\ status = "completed" /\ flow = "none" =>
        \E w \in Workers :
            req[w].at = "trigger" \/ (req[w].at = "committed" /\ req[w].status # "completed")

\* Whichever request completes the enrollment goes on to start its workflow.
LEMMA TriggeringStep == IInv /\ Triggering /\ [Next]_vars => Triggering'
<1> SUFFICES ASSUME IInv, Triggering, [Next]_vars,
                    faults' = 0, ~ viewed', status' = "completed", flow' = "none"
             PROVE  \E w \in Workers : \/ req'[w].at = "trigger"
                                       \/ /\ req'[w].at = "committed"
                                          /\ req'[w].status # "completed"
  BY DEF Triggering
<1>1. faults \in Nat /\ viewed \in BOOLEAN /\ req \in [Workers -> Request \cup {Idle}]
  BY DEF IInv, TypeOK
<1>2. CASE UNCHANGED vars
  BY <1>2 DEF Triggering, vars
<1>3. CASE AddLesson \/ RunActivity \/ AttemptFails
  <2>1. CASE AddLesson
    BY <2>1 DEF AddLesson, UnchangedRow, UnchangedFlow, Triggering
  <2>2. CASE RunActivity \/ AttemptFails
    BY <1>1, <2>2 DEF RunActivity, AttemptFails, Activities
  <2> QED BY <1>3, <2>1, <2>2
<1>4. ASSUME NEW v \in Workers, Fail(v)
      PROVE  FALSE
  BY <1>1, <1>4 DEF Fail
<1>5. ASSUME NEW v \in Workers, Read(v) \/ Look(v) \/ Count(v) \/ Total(v)
      PROVE  Triggering'
  <2>1. /\ faults = 0 /\ flow = "none" /\ status = "completed" /\ ~ viewed
        /\ req[v].at \notin {"committed", "trigger"}
        /\ \A w \in Workers : w # v => req'[w] = req[w]
    BY <1>1, <1>5 DEF Read, Look, Count, Total, Goto, At, UnchangedRow, UnchangedFlow
  <2> QED BY <2>1 DEF Triggering
<1>6. ASSUME NEW v \in Workers, Commit(v)
      PROVE  Triggering'
  <2>1. /\ faults = 0 /\ flow = "none" /\ req[v].at = "totalled"
        /\ req[v] \in Request
        /\ \A w \in Workers : w # v => req'[w] = req[w]
    BY <1>1, <1>6 DEF Commit, Goto, At, UnchangedFlow, Idle
  <2>2. CASE status = "completed"
    <3>1. ~ viewed
      BY <1>1, <1>6 DEF Commit
    <3> QED BY <2>1, <2>2, <3>1 DEF Triggering
  <2>3. CASE status # "completed"
    <3>1. req[v].kind = "mark"
      BY <1>6, <2>1, <2>3 DEF Commit, Request
    <3>2. req[v].status # "completed"
      BY <1>6, <2>3, <3>1 DEF Commit, WriteRow
    <3>3. req'[v].at = "committed" /\ req'[v].status = req[v].status
      BY <1>1, <1>6, <2>1, <3>1 DEF Commit, Goto, Request
    <3> QED BY <3>2, <3>3 DEF Triggering
  <2> QED BY <2>2, <2>3
<1>7. ASSUME NEW v \in Workers, Refresh(v)
      PROVE  Triggering'
  <2>1. /\ faults = 0 /\ flow = "none" /\ status = "completed" /\ ~ viewed
        /\ req[v].at = "committed" /\ req[v] \in Request
        /\ \A w \in Workers : w # v => req'[w] = req[w]
    BY <1>1, <1>7 DEF Refresh, Goto, At, UnchangedRow, UnchangedFlow, Idle
  <2>2. CASE req[v].status # "completed"
    <3>1. req'[v].at = "trigger"
      BY <1>1, <1>7, <2>1, <2>2 DEF Refresh, Goto, Request
    <3> QED BY <3>1 DEF Triggering
  <2>3. CASE req[v].status = "completed"
    BY <2>1, <2>3 DEF Triggering
  <2> QED BY <2>2, <2>3
<1>8. ASSUME NEW v \in Workers, Trigger(v)
      PROVE  FALSE
  BY <1>8 DEF Trigger
<1> QED BY <1>2, <1>3, <1>4, <1>5, <1>6, <1>7, <1>8 DEF Next, Serve, Triggering

\* Among marks alone, however they interleave, one starts the workflow of the enrollment
\* that they completed.
THEOREM MarksStart == Spec => []MarksTrigger
<1>1. Init => Triggering
  BY DEF Init, Triggering
<1>2. IInv /\ Triggering => MarksTrigger
  BY DEF IInv, TypeOK, Triggering, MarksTrigger, AllIdle, At
<1> QED BY <1>1, <1>2, TriggeringStep, ProgressInvariance, PTL DEF Spec

-----------------------------------------------------------------------------
\* Each failed attempt of the activity under way was a fault, and so were all those of the
\* activity that failed the workflow; one that completed sent its event or dropped it.
FlowAccounted ==
    /\ tries <= faults
    /\ flow = "completed" => announced > 0 \/ drops > 0
    /\ flow = "failed" => faults >= FetchAttempts

\* A workflow ends with its event sent or dropped, or with one fault for each attempt of an
\* activity.
LEMMA FlowAccountedStep ==
    ASSUME FetchAttempts <= EmitAttempts
    PROVE  IInv /\ FlowAccounted /\ [Next]_vars => FlowAccounted'
<1> SUFFICES ASSUME IInv, FlowAccounted, [Next]_vars PROVE FlowAccounted'
  OBVIOUS
<1>1. tries \in Nat /\ faults \in Nat /\ announced \in Nat /\ drops \in Nat
  BY DEF IInv, TypeOK
<1>2. CASE UNCHANGED <<flow, tries, announced, drops>> /\ faults' \in {faults, faults + 1}
  BY <1>1, <1>2, ProgressAssumption DEF FlowAccounted
<1>3. CASE AddLesson \/ UNCHANGED vars
  BY <1>2, <1>3 DEF AddLesson, UnchangedFlow, vars
<1>4. ASSUME NEW w \in Workers, Serve(w) \/ Fail(w)
      PROVE  FlowAccounted'
  <2>1. CASE Trigger(w)
    BY <1>1, <2>1 DEF Trigger, FlowAccounted
  <2>2. CASE ~ Trigger(w)
    BY <1>2, <1>4, <2>2
       DEF Serve, Fail, Read, Look, Count, Total, Commit, Refresh, UnchangedFlow
  <2> QED BY <2>1, <2>2
<1>5. CASE RunActivity
  <2>1. /\ flow' \in {"title", "emit", "completed"} /\ tries' = 0 /\ faults' = faults
        /\ flow' = "completed" => announced' = announced + 1 \/ drops' = drops + 1
    BY <1>5 DEF RunActivity
  <2> QED BY <1>1, <1>5, <2>1 DEF RunActivity, FlowAccounted
<1>6. CASE AttemptFails
  <2>1. flow \in Activities /\ faults' = faults + 1
    BY <1>6 DEF AttemptFails
  <2>2. Limit(flow) \in Nat /\ Limit(flow) >= FetchAttempts
    BY ProgressAssumption DEF Limit
  <2>3. CASE tries + 1 < Limit(flow)
    BY <1>1, <1>6, <2>1, <2>3 DEF AttemptFails, FlowAccounted, Activities
  <2>4. CASE ~ (tries + 1 < Limit(flow))
    <3>1. flow' = "failed" /\ tries' = tries
      BY <1>6, <2>4 DEF AttemptFails
    <3> QED BY <1>1, <2>1, <2>2, <2>4, <3>1, ProgressAssumption DEF FlowAccounted
  <2> QED BY <2>3, <2>4
<1> QED BY <1>3, <1>4, <1>5, <1>6 DEF Next

\* What is safe in StartedIsAnnounced: when the completion workflow has ended, the
\* completion was announced, or its event dropped, or there were as many faults as an
\* activity has attempts.  Fairness adds that it ends.
THEOREM EndsAnnounced ==
    ASSUME FetchAttempts <= EmitAttempts
    PROVE  Spec => []EndedIsAnnounced
<1>1. Init => FlowAccounted
  BY DEF Init, FlowAccounted
<1>2. FlowAccounted => EndedIsAnnounced
  BY DEF FlowAccounted, EndedIsAnnounced
<1> QED BY <1>1, <1>2, FlowAccountedStep, ProgressInvariance, PTL DEF Spec

-----------------------------------------------------------------------------
\* A request that was told a total misses no more of the initial lessons than its count
\* falls short of that total: the total was read after the count, and it is the only number
\* that the two can be compared by when the request commits.
CountsCover ==
    \A w \in Workers : At(w, "totalled") /\ req[w].total > 0 =>
        /\ req[w].total <= Cardinality(lessons)
        /\ Cardinality(Initial \ req[w].counted)
             <= req[w].total - Cardinality(req[w].counted)

\* What a part of the course lacks of the initial lessons, it lacks of the course.
LEMMA Lacking ==
    ASSUME IInv, NEW c \in SUBSET lessons
    PROVE  /\ Cardinality(c) \in Nat /\ Cardinality(Initial \ c) \in Nat
           /\ Cardinality(Initial \ c) <= Cardinality(lessons) - Cardinality(c)
<1>1. IsFiniteSet(lessons) /\ Initial \ c \subseteq lessons \ c
  BY Cardinalities DEF IInv
<1>2. /\ IsFiniteSet(lessons \ c)
      /\ Cardinality(lessons \ c) = Cardinality(lessons) - Cardinality(lessons \cap c)
  BY <1>1, FS_Difference
<1>3. lessons \cap c = c
  OBVIOUS
<1>4. IsFiniteSet(Initial \ c) /\ Cardinality(Initial \ c) <= Cardinality(lessons \ c)
  BY <1>1, <1>2, FS_Subset
<1>5. IsFiniteSet(c)
  BY <1>1, FS_Subset
<1>6. Cardinality(c) \in Nat /\ Cardinality(Initial \ c) \in Nat
  BY <1>4, <1>5, FS_CardinalityType
<1> QED BY <1>2, <1>3, <1>4, <1>6

\* More lessons done, fewer missing.
LEMMA FewerLacking ==
    ASSUME IInv, NEW d, NEW e, d \subseteq e
    PROVE  /\ Cardinality(Initial \ e) \in Nat /\ Cardinality(Initial \ d) \in Nat
           /\ Cardinality(Initial \ e) <= Cardinality(Initial \ d)
<1>1. IsFiniteSet(lessons) /\ Initial \ d \subseteq lessons
  BY Cardinalities DEF IInv
<1>2. IsFiniteSet(Initial \ d)
  BY <1>1, FS_Subset
<1>3. IsFiniteSet(Initial \ e) /\ Cardinality(Initial \ e) <= Cardinality(Initial \ d)
  BY <1>2, FS_Subset
<1> QED BY <1>2, <1>3, FS_CardinalityType

\* The course never loses a lesson.
LEMMA MoreLessons ==
    ASSUME IInv, [Next]_vars
    PROVE  /\ Cardinality(lessons) \in Nat /\ Cardinality(lessons') \in Nat
           /\ Cardinality(lessons) <= Cardinality(lessons')
<1>1. lessons \subseteq lessons'
  BY DEF Next, Serve, Read, Look, Count, Total, Commit, Refresh, Trigger, Fail, AddLesson,
         RunActivity, AttemptFails, vars
<1>2. IsFiniteSet(lessons')
  <2>1. IInv'
    BY InductiveStep
  <2> QED BY <2>1, ProgressAssumption, FS_Subset DEF IInv, TypeOK
<1>3. IsFiniteSet(lessons) /\ Cardinality(lessons) <= Cardinality(lessons')
  BY <1>1, <1>2, FS_Subset
<1> QED BY <1>2, <1>3, FS_CardinalityType

\* A request takes its total after its count, and never counts again.
LEMMA CountsCoverStep == IInv /\ CountsCover /\ [Next]_vars => CountsCover'
<1> SUFFICES ASSUME IInv, CountsCover, [Next]_vars,
                    NEW v \in Workers, At(v, "totalled")', req'[v].total > 0
             PROVE  /\ req'[v].total <= Cardinality(lessons')
                    /\ Cardinality(Initial \ req'[v].counted)
                         <= req'[v].total - Cardinality(req'[v].counted)
  BY DEF CountsCover
<1>1. req \in [Workers -> Request \cup {Idle}]
  BY DEF IInv, TypeOK
<1>2. Cardinality(lessons) \in Nat /\ Cardinality(lessons') \in Nat
      /\ Cardinality(lessons) <= Cardinality(lessons')
  BY MoreLessons
<1>3. CASE req'[v] = req[v]
  <2>1. At(v, "totalled") /\ req[v].total \in Nat
    BY <1>1, <1>3 DEF At, Idle, Request
  <2>2. /\ req[v].total <= Cardinality(lessons)
        /\ Cardinality(Initial \ req[v].counted)
             <= req[v].total - Cardinality(req[v].counted)
    BY <1>3, <2>1 DEF CountsCover
  <2>3. req[v].total <= Cardinality(lessons')
    BY <1>2, <2>1, <2>2
  <2> QED BY <1>3, <2>2, <2>3
<1>4. CASE req'[v] # req[v]
  <2>1. Total(v)
    <3>1. PICK w \in Workers : Serve(w) \/ Fail(w)
      BY <1>4 DEF Next, AddLesson, RunActivity, AttemptFails, vars
    <3>2. w = v
      BY <1>1, <1>4, <3>1 DEF Serve, Read, Look, Count, Total, Commit, Refresh, Trigger, Fail,
                              Goto
    <3>3. req[v] = Idle \/ req[v] \in Request
      BY <1>1
    <3>4. ~ Read(v)
      BY <1>1 DEF Read, Fresh, At
    <3>5. ~ Look(v)
      BY <1>1, <3>3 DEF Look, At, Idle, Request
    <3>6. ~ Count(v)
      <4> SUFFICES ASSUME Count(v), req[v] \in Request PROVE FALSE
        BY <3>3 DEF Count, At, Idle
      <4> DEFINE own == IF req[v].inserts THEN {req[v].lesson} ELSE {}
      <4>1. req' = [req EXCEPT ![v] = IF own \cap done # {} THEN Idle
                                      ELSE [req[v] EXCEPT !.at = "counted",
                                                          !.counted = done \cup own]]
        BY DEF Count
      <4> HIDE DEF own
      <4> QED BY <1>1, <4>1 DEF At, Idle, Request
    <3>7. ~ Commit(v)
      <4> SUFFICES ASSUME Commit(v), req[v] \in Request PROVE FALSE
        BY <3>3 DEF Commit, At, Idle
      <4>1. req' = [req EXCEPT ![v] = IF req[v].kind = "mark"
                                      THEN [req[v] EXCEPT !.at = "committed"] ELSE Idle]
        BY <1>1 DEF Commit, Goto
      <4> QED BY <1>1, <4>1 DEF At, Idle, Request
    <3>8. ~ (Refresh(v) \/ Trigger(v) \/ Fail(v))
      BY <1>1, <3>3 DEF Refresh, Trigger, Fail, Goto, At, Idle, Request
    <3> QED BY <3>1, <3>2, <3>4, <3>5, <3>6, <3>7, <3>8 DEF Serve
  <2>2. Sound(req[v], lessons, done, status) /\ req[v] \in Request /\ req[v].at = "counted"
    BY <2>1, Busy DEF Total, At
  <2>3. req'[v].counted = req[v].counted /\ req'[v].total \in {0, Cardinality(lessons)}
    BY <1>1, <2>1, <2>2 DEF Total, Goto, Sound, Request
  <2> QED BY <1>2, <2>2, <2>3, Lacking DEF Sound
<1> QED BY <1>3, <1>4

\* A commit completes the enrollment only if the request counted nearly all.
LEMMA CommitJustified ==
    ASSUME IInv, CountsCover, CompletedJustified, NEW w \in Workers, Commit(w)
    PROVE  CompletedJustified'
<1> DEFINE r == req[w]
<1> DEFINE p == Percent(Cardinality(r.counted), r.total)
<1>1. r.at = "totalled" /\ Sound(r, lessons, done, status) /\ r \in Request
  BY Busy DEF Commit, At
<1>2. done' = done \cup Held(w) /\ r.counted \subseteq done'
  <2>1. r.kind # "mark" => Held(w) = {}
    BY <1>1 DEF Sound, Held, Request
  <2>2. r.counted \subseteq done \cup Held(w)
    BY <1>1 DEF Sound, Held
  <2> QED BY <2>1, <2>2 DEF Commit
<1>3. lessons' = lessons /\ Cardinality(lessons) \in Nat
  BY Cardinalities DEF Commit
<1>4. CASE status' = status
  <2>1. /\ Cardinality(Initial \ done') \in Nat /\ Cardinality(Initial \ done) \in Nat
        /\ Cardinality(Initial \ done') <= Cardinality(Initial \ done)
    BY <1>2, FewerLacking
  <2>2. NearlyDone => NearlyDone'
    BY <1>3, <2>1 DEF NearlyDone
  <2> QED BY <1>4, <2>2 DEF CompletedJustified
<1>5. CASE status' # status
  <2>1. WriteRow(r, p)
    BY <1>5 DEF Commit
  <2>2. r.total > 0 /\ p >= 100
    BY <1>5, <2>1 DEF WriteRow
  <2> DEFINE c == Cardinality(r.counted)
  <2> DEFINE missing == Cardinality(Initial \ r.counted)
  <2>3. /\ r.total \in Nat /\ r.total <= Cardinality(lessons)
        /\ c \in Nat /\ missing \in Nat /\ missing <= r.total - c
    BY <1>1, <2>2, Lacking DEF CountsCover, At, Sound, Request
  <2>4. 200 * (r.total - c) <= r.total
    BY <2>2, <2>3, PercentComplete
  <2>5. /\ Cardinality(Initial \ done') \in Nat
        /\ Cardinality(Initial \ done') <= missing
    BY <1>2, FewerLacking
  <2>6. 200 * Cardinality(Initial \ done') <= Cardinality(lessons)
    BY <1>3, <2>3, <2>4, <2>5
  <2> QED BY <1>3, <2>6 DEF CompletedJustified, NearlyDone
<1> QED BY <1>4, <1>5

\* A completed enrollment has the lessons done that the course began with, but for the one in
\* 200 that the percentage may round away.
THEOREM Justified == Spec => []CompletedJustified
<1>1. Init => CountsCover /\ CompletedJustified
  BY DEF Init, Idle, At, CountsCover, CompletedJustified
<1>2. IInv /\ CountsCover /\ CompletedJustified /\ [Next]_vars => CompletedJustified'
  <2> SUFFICES ASSUME IInv, CountsCover, CompletedJustified, [Next]_vars
               PROVE  CompletedJustified'
    OBVIOUS
  <2>1. CASE \E w \in Workers : Commit(w)
    BY <2>1, CommitJustified
  <2>2. CASE ~ \E w \in Workers : Commit(w)
    <3>1. UNCHANGED <<done, status>>
      BY <2>2 DEF Next, Serve, Read, Look, Count, Total, Refresh, Trigger, Fail, AddLesson,
                  RunActivity, AttemptFails, UnchangedRow, vars
    <3>2. Cardinality(Initial \ done) \in Nat
      BY FewerLacking
    <3> QED BY <3>1, <3>2, MoreLessons DEF CompletedJustified, NearlyDone
  <2> QED BY <2>1, <2>2
<1> QED BY <1>1, <1>2, CountsCoverStep, ProgressInvariance, PTL DEF Spec

\* In a course of fewer than 200 lessons, that is every one of them.
THEOREM JustifiedFully ==
    ASSUME Cardinality(Lessons) < 200
    PROVE  Spec => [](status = "completed" => Initial \subseteq done)
<1>1. IInv /\ CompletedJustified => (status = "completed" => Initial \subseteq done)
  <2> SUFFICES ASSUME IInv, NearlyDone PROVE Initial \subseteq done
    BY DEF CompletedJustified
  <2>1. Cardinality(lessons) \in Nat /\ Cardinality(lessons) <= Cardinality(Lessons)
    BY Cardinalities
  <2>2. Cardinality(Lessons) \in Nat
    BY ProgressAssumption, FS_CardinalityType
  <2>3. Cardinality(Initial \ done) \in Nat
    BY FewerLacking
  <2>4. Cardinality(Initial \ done) = 0
    BY <2>1, <2>2, <2>3 DEF NearlyDone
  <2>5. IsFiniteSet(Initial \ done)
    <3>1. IsFiniteSet(lessons) /\ Initial \ done \subseteq lessons
      BY Cardinalities DEF IInv
    <3> QED BY <3>1, FS_Subset
  <2> QED BY <2>4, <2>5, FS_EmptySet
<1> QED BY <1>1, Justified, ProgressInvariance, PTL

-----------------------------------------------------------------------------
\* What a step can do to what others see of the enrollment: lessons come, or completions come
\* and may complete it, or a workflow that was started announces it.
LEMMA Moves ==
    ASSUME IInv, IInv', [Next]_vars
    PROVE  \/ /\ lessons' \in SUBSET Lessons /\ lessons \subseteq lessons'
              /\ UNCHANGED <<done, status, announced>>
           \/ /\ done' \in SUBSET lessons /\ done \subseteq done'
              /\ status' = status \/ status' = "completed"
              /\ UNCHANGED <<lessons, announced>>
           \/ /\ announced' = announced + 1 /\ flow # "none"
              /\ UNCHANGED <<lessons, done, status>>
<1>1. done \in SUBSET lessons /\ done' \in SUBSET lessons' /\ lessons' \in SUBSET Lessons
  BY DEF IInv, TypeOK
<1>2. CASE UNCHANGED vars
  BY <1>1, <1>2 DEF vars
<1>3. CASE AddLesson
  BY <1>1, <1>3 DEF AddLesson, UnchangedRow, UnchangedFlow
<1>4. ASSUME NEW w \in Workers, Commit(w)
      PROVE  /\ done \subseteq done' /\ status' \in {status, "completed"}
             /\ UNCHANGED <<lessons, announced>>
  BY <1>4 DEF Commit, WriteRow, UnchangedFlow
<1>5. ASSUME NEW w \in Workers, Serve(w) \/ Fail(w), ~ Commit(w)
      PROVE  UNCHANGED <<lessons, done, status, announced>>
  BY <1>5 DEF Serve, Fail, Read, Look, Count, Total, Refresh, Trigger, UnchangedRow,
              UnchangedFlow
<1>6. CASE RunActivity \/ AttemptFails
  <2>1. flow # "none" /\ UNCHANGED <<lessons, done, status>>
    BY <1>6 DEF RunActivity, AttemptFails, Activities, UnchangedRow
  <2>2. announced' \in {announced, announced + 1}
    BY <1>6 DEF RunActivity, AttemptFails
  <2> QED BY <1>1, <2>1, <2>2
<1> QED BY <1>1, <1>2, <1>3, <1>4, <1>5, <1>6 DEF Next

=============================================================================
