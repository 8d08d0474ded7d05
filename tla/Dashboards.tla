----------------------------- MODULE Dashboards -----------------------------
(***************************************************************************)
(* The reports of the analytics service, computed from its two fact tables *)
(* while the consumers of AnalyticsFacts write them.  A report is a series *)
(* of queries with an await between any two, each in READ COMMITTED and so *)
(* each seeing the tables as they are by then.  Three results are cached   *)
(* in Redis for a minute: the overview, the enrollments over time, and the *)
(* popular courses, which the overview and the course report share.  A     *)
(* request that misses computes and then stores, whatever others stored    *)
(* meanwhile.                                                              *)
(*                                                                         *)
(* A figure is the size of the set of rows that its query counts; what is  *)
(* derived from two of them is the pair.  An average or a list stands for  *)
(* the number of enrollments that it covers.  Rows are never deleted, so   *)
(* the tables only grow.  The reports have their default window and        *)
(* length, with which a key of Redis has one content.  What Temporal says  *)
(* of failed workflows is left out: nothing here depends on it.            *)
(***************************************************************************)
EXTENDS Integers, Sequences, FiniteSets

CONSTANTS
    Enrollments, Courses,
    StudentOf,      \* [Enrollments -> students]
    InstructorOf,   \* [Courses -> instructors]
    Servers,        \* requests served at a time
    Serves,         \* [Servers -> SUBSET Paths], the reports each may be asked for
    Before,         \* the tables when the service starts
    MaxWrites       \* bound: writes since then, and enrollments that age

VARIABLES
    db,         \* the fact tables and the reporting window
    cache,      \* [Keys -> entry or Absent]
    req,        \* [Servers -> the request being served, or Idle]
    writes      \* writes so far

vars == <<db, cache, req, writes>>

\* enrolled and completed: the enrollments with a fact, and with a completed one.  aged:
\* those that have left the reporting window.  known: the courses with a fact, which are
\* published ones.
Tables == [enrolled : SUBSET Enrollments, completed : SUBSET Enrollments,
           aged : SUBSET Enrollments, known : SUBSET Courses]

Keys == {"overview", "popular", "series"}

Figures == {"students", "instructors", "courses", "new", "total", "completed", "averaged",
            "enrolled", "unique", "rank", "points"}

\* The figures cached under a key.
Holds(k) == CASE k = "popular" -> {"rank"}
              [] k = "series" -> {"points"}
              [] OTHER -> Figures \ {"points"}

Paths == {"overview", "enrollments", "courses"}

Look(k) == [do |-> "look", key |-> k, figures |-> {}]
Keep(k) == [do |-> "keep", key |-> k, figures |-> {}]
Ask(figures) == [do |-> "ask", key |-> "none", figures |-> figures]

\* What each endpoint awaits, in order.  Queries in a row whose figures no property relates
\* to each other are one step.
Program ==
    [overview |-> <<Look("overview"),
                    Ask({"students", "instructors", "courses", "new", "total"}),
                    Ask({"completed", "averaged", "enrolled"}), Ask({"unique"}),
                    Look("popular"), Ask({"rank"}), Keep("popular"),
                    Keep("overview")>>,
     enrollments |-> <<Look("series"), Ask({"points"}), Keep("series"), Ask({"new"})>>,
     courses |-> <<Ask({"total"}), Ask({"completed", "averaged", "enrolled"}),
                   Ask({"unique"}), Look("popular"), Ask({"rank"}), Keep("popular")>>]

ASSUME DashboardsAssumption ==
    /\ IsFiniteSet(Enrollments) /\ IsFiniteSet(Courses)
    /\ Serves \in [Servers -> SUBSET Paths]
    /\ Before \subseteq {d \in Tables : d.completed \subseteq d.enrolled}
    /\ MaxWrites \in Nat

\* The figures that a request for this path has once it is answered.
Asked(path) == CASE path = "overview" -> Figures \ {"points"}
                 [] path = "enrollments" -> {"points", "new"}
                 [] OTHER -> {"total", "completed", "averaged", "enrolled", "unique", "rank"}

\* Mutant: the total counts active enrollments only.
PoolActive(q, d) ==
    CASE q \in {"students", "unique"} -> {StudentOf[e] : e \in d.enrolled}
      [] q = "instructors" -> {InstructorOf[c] : c \in d.known}
      [] q = "courses" -> d.known
      [] q \in {"new", "points"} -> d.enrolled \ d.aged
      [] q \in {"total", "enrolled"} -> d.enrolled \ d.completed
      [] q = "rank" -> d.enrolled
      [] OTHER -> d.completed

\* Mutant: the series ignores the window.
PoolUnbounded(q, d) ==
    CASE q \in {"students", "unique"} -> {StudentOf[e] : e \in d.enrolled}
      [] q = "instructors" -> {InstructorOf[c] : c \in d.known}
      [] q = "courses" -> d.known
      [] q = "new" -> d.enrolled \ d.aged
      [] q \in {"total", "enrolled", "rank", "points"} -> d.enrolled
      [] OTHER -> d.completed

\* What the query of figure q counts in tables d.
Pool(q, d) ==
    CASE q \in {"students", "unique"} -> {StudentOf[e] : e \in d.enrolled}
      [] q = "instructors" -> {InstructorOf[c] : c \in d.known}
      [] q = "courses" -> d.known
      [] q \in {"new", "points"} -> d.enrolled \ d.aged
      [] q \in {"total", "enrolled", "rank"} -> d.enrolled
      [] OTHER -> d.completed

Measure(q, d) == Cardinality(Pool(q, d))

Unasked == -1
Blank == [q \in Figures |-> Unasked]

\* A request: its path, the next step of its program, the figures it has, and, as a ghost,
\* the enrollments there were when the computation of its oldest figure began.
Moments == [enrolled : SUBSET Enrollments, aged : SUBSET Enrollments]
Never == [enrolled |-> {}, aged |-> {}]
Requests == [path : Paths, at : Nat, got : [Figures -> Int], base : Moments]
Idle == [path |-> "none", at |-> 0, got |-> Blank, base |-> Never]

\* A cached result, with the moment of its request.
Entries == [got : [Figures -> Int], base : Moments]
Absent == [got |-> Blank, base |-> Never]

Busy(s) == req[s] # Idle
Answered(r) == r.at > Len(Program[r.path])
Doing(s, what) == Busy(s) /\ ~ Answered(req[s]) /\ Program[req[s].path][req[s].at].do = what
Step(s) == Program[req[s].path][req[s].at]

-----------------------------------------------------------------------------
Now == [enrolled |-> db.enrolled, aged |-> db.aged]

Init ==
    /\ db \in Before
    /\ cache = [k \in Keys |-> Absent]
    /\ req = [s \in Servers |-> Idle]
    /\ writes = 0

\* A transaction leaves tables d.
Put(d) ==
    /\ writes < MaxWrites
    /\ db' = d
    /\ writes' = writes + 1
    /\ UNCHANGED <<cache, req>>

\* create_enrollment_fact commits a fact.
EnrollmentCreated == \E e \in Enrollments \ db.enrolled : Put([db EXCEPT !.enrolled = @ \cup {e}])

\* complete_enrollment_fact commits one.
EnrollmentCompleted ==
    \E e \in db.enrolled \ db.completed : Put([db EXCEPT !.completed = @ \cup {e}])

\* upsert_course_fact commits.  Two workers that both find no row end up as one after the
\* other, since the second insert raises and is retried as an update.
CoursePublished == \E c \in Courses \ db.known : Put([db EXCEPT !.known = @ \cup {c}])

\* Time passes: an enrollment leaves the window that a report looks at.
Ages == \E e \in db.enrolled \ db.aged : Put([db EXCEPT !.aged = @ \cup {e}])

\* Mutant: the entry is set without a time to live.
ExpireNever(k) == FALSE /\ cache[k] # Absent /\ UNCHANGED vars

\* The entry's minute is over.
Expire(k) ==
    /\ cache[k] # Absent
    /\ cache' = [cache EXCEPT ![k] = Absent]
    /\ UNCHANGED <<db, req, writes>>

\* A request comes in.
Start(s) ==
    /\ ~ Busy(s)
    /\ \E path \in Serves[s] :
          req' = [req EXCEPT ![s] = [path |-> path, at |-> 1, got |-> Blank, base |-> Now]]
    /\ UNCHANGED <<db, cache, writes>>

\* cache_get finds the entry: the request takes it over and skips its computation.
Hit(s) ==
    /\ Doing(s, "look")
    /\ LET r == req[s]
           k == Step(s).key
           kept == CHOOSE i \in 1..Len(Program[r.path]) : Program[r.path][i] = Keep(k)
       IN  /\ cache[k] # Absent
           /\ req' = [req EXCEPT ![s] =
                 [path |-> r.path, at |-> kept + 1,
                  got |-> [q \in Figures |-> IF q \in Holds(k) THEN cache[k].got[q]
                                                             ELSE r.got[q]],
                  base |-> IF k = "popular" THEN r.base ELSE cache[k].base]]
    /\ UNCHANGED <<db, cache, writes>>

\* It finds nothing.
Miss(s) ==
    /\ Doing(s, "look")
    /\ cache[Step(s).key] = Absent
    /\ req' = [req EXCEPT ![s].at = @ + 1]
    /\ UNCHANGED <<db, cache, writes>>

\* Mutant: the rate of an empty table has no value.
AnswerUndefined(q, r) ==
    IF q = "completed" /\ r.got["total"] = 0 THEN Unasked ELSE Measure(q, db)

\* What a query records.  _get_completion_rate asks for the completed enrollments only if
\* there are any.
Answer(q, r) == IF q = "completed" /\ r.got["total"] = 0 THEN 0 ELSE Measure(q, db)

\* The queries of a step.
Query(s) ==
    /\ Doing(s, "ask")
    /\ LET r == req[s]
       IN  req' = [req EXCEPT ![s] =
               [path |-> r.path, at |-> r.at + 1, base |-> r.base,
                got |-> [q \in Figures |-> IF q \in Step(s).figures THEN Answer(q, r)
                                                                  ELSE r.got[q]]]]
    /\ UNCHANGED <<db, cache, writes>>

\* cache_set: over whatever is there by now.
Store(s) ==
    /\ Doing(s, "keep")
    /\ LET r == req[s]
           k == Step(s).key
       IN  /\ cache' = [cache EXCEPT ![k] =
                 [got |-> [q \in Figures |-> IF q \in Holds(k) THEN r.got[q] ELSE Unasked],
                  base |-> IF k = "popular" THEN Never ELSE r.base]]
           /\ req' = [req EXCEPT ![s].at = @ + 1]
    /\ UNCHANGED <<db, writes>>

\* The answer goes out, or a query or Redis raised and the request fails.
Finish(s) ==
    /\ Busy(s)
    /\ req' = [req EXCEPT ![s] = Idle]
    /\ UNCHANGED <<db, cache, writes>>

Serve(s) == Hit(s) \/ Miss(s) \/ Query(s) \/ Store(s) \/ Finish(s)

Write == EnrollmentCreated \/ EnrollmentCompleted \/ CoursePublished \/ Ages

Next == \/ Write
        \/ \E k \in Keys : Expire(k)
        \/ \E s \in Servers : Start(s) \/ Serve(s)

Spec == Init /\ [][Next]_vars

\* Entries expire, and a request that is being served goes on or fails.
FairSpec == /\ Spec
            /\ \A k \in Keys : WF_vars(Expire(k))
            /\ \A s \in Servers : WF_vars(Serve(s))

-----------------------------------------------------------------------------
\* What is shown to a reader: the answers, about to go out.
Reports == {req[s] : s \in {v \in Servers : Busy(v) /\ Answered(req[v])}}

DashTypeOK ==
    /\ db \in Tables /\ db.completed \subseteq db.enrolled
    /\ writes \in 0..MaxWrites
    /\ req \in [Servers -> Requests \cup {Idle}]
    /\ cache \in [Keys -> Entries]
    /\ \A r \in Reports : \A q \in Asked(r.path) : r.got[q] \in Nat

\* Value v of figure q was computed from the tables at some time from moment m to tables d.
\* They only grow, but enrollments also leave the window.
TrueSince(q, v, m, d) ==
    /\ q \in {"new", "points"} =>
          /\ Cardinality(m.enrolled \ d.aged) <= v
          /\ v <= Cardinality(d.enrolled \ m.aged)
    /\ q \in {"total", "enrolled"} => Cardinality(m.enrolled) <= v
    /\ q \notin {"new", "points"} => v <= Cardinality(Pool(q, d))

\* The figures of a request or an entry x are either missing or true since its moment.
Sound(x) ==
    /\ x.base.enrolled \subseteq db.enrolled /\ x.base.aged \subseteq db.aged
    /\ \A q \in Figures : x.got[q] # Unasked =>
          x.got[q] \in Nat /\ TrueSince(q, x.got[q], x.base, db)

\* Every figure of a request, and of a cached result, was true at some moment since base.
FiguresTrue == /\ \A s \in Servers : Sound(req[s])
               /\ \A k \in Keys : Sound(cache[k])

\* "Completed enrollments divided by total enrollments (0-1)": the two are counted one
\* after the other, so the rate of an answer may exceed 1, and then by no more than the
\* enrollments that were both created and completed since its computation began.  In the
\* same way an average below one course per student is explained by new students.
RatiosExplained ==
    \A r \in Reports : r.path \in {"overview", "courses"} =>
        /\ r.got["completed"] - r.got["total"] <= Cardinality(db.completed \ r.base.enrolled)
        /\ r.got["unique"] - r.got["enrolled"] <=
               Cardinality({StudentOf[e] : e \in db.enrolled \ r.base.enrolled})

\* The two halves of the enrollment report, a cached series and a fresh count, differ by no
\* more enrollments than were created, or left the window, since the series was computed.
SeriesExplained ==
    \A r \in Reports : r.path = "enrollments" =>
        LET moved == (db.enrolled \ r.base.enrolled) \cup (db.aged \ r.base.aged)
        IN  /\ r.got["points"] - r.got["new"] <= Cardinality(moved)
            /\ r.got["new"] - r.got["points"] <= Cardinality(moved)

\* An entry says what the tables say.
Current(k) == \A q \in Holds(k) : cache[k].got[q] = Measure(q, db)

\* Caches converge: once nothing is written any more, stale results disappear for good,
\* although a slow request may store one after a newer one, and an overview may take over
\* popular courses that were cached before it.
CachesConverge == <>[](\A k \in Keys : cache[k] # Absent => Current(k))

=============================================================================
