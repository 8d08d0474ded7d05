--------------------------- MODULE DashboardProofs ---------------------------
(***************************************************************************)
(* What the reports of Dashboards say of the tables, for any tables, any   *)
(* number of servers and any writes.  Two inductive invariants: every      *)
(* figure, asked or cached, is true since the moment its request began;    *)
(* and a request has the figures of all the steps that it has behind it.   *)
(***************************************************************************)
EXTENDS Dashboards, FiniteSetTheorems, TLAPS

\* Every look at a key has the keep of that key behind it, with only its figures between.
Kept(p, i, j) ==
    LET k == Program[p][i].key
    IN  /\ j \in 1..Len(Program[p]) /\ i < j
        /\ Program[p][j] = Keep(k)
        /\ \A m \in 1..Len(Program[p]) :
              /\ Program[p][m] = Keep(k) => m = j
              /\ i <= m /\ m <= j => Program[p][m].figures \subseteq Holds(k)

\* What the proofs use of a program p.
Wellformed(p) ==
    /\ Len(Program[p]) \in Nat
    /\ \A i \in 1..Len(Program[p]) :
          /\ Program[p][i].do \in {"look", "ask", "keep"}
          /\ Program[p][i].figures \subseteq Figures
          /\ Program[p][i].do # "ask" => Program[p][i].figures = {} /\ Program[p][i].key \in Keys
          /\ Program[p][i].do = "look" /\ Program[p][i].key # "popular" => i = 1
          /\ Program[p][i].do = "look" => \E j \in 1..Len(Program[p]) : Kept(p, i, j)
          /\ Program[p][i].do = "keep" =>
                \A q \in Holds(Program[p][i].key) :
                    \E j \in 1..(i - 1) : q \in Program[p][j].figures
    /\ \A q \in Asked(p) : \E j \in 1..Len(Program[p]) : q \in Program[p][j].figures

\* The program of the course report is well formed.
LEMMA CoursesWellformed == Wellformed("courses")
<1> DEFINE P == Program["courses"]
<1>1. /\ Len(P) = 6
      /\ P[1] = Ask({"total"}) /\ P[2] = Ask({"completed", "averaged", "enrolled"})
      /\ P[3] = Ask({"unique"}) /\ P[4] = Look("popular") /\ P[5] = Ask({"rank"})
      /\ P[6] = Keep("popular")
  BY DEF Program
<1>2. \A i \in 1..6 : i = 1 \/ i = 2 \/ i = 3 \/ i = 4 \/ i = 5 \/ i = 6
  OBVIOUS
<1> HIDE DEF P
<1>3. \A i \in 1..Len(P) :
          /\ P[i].do \in {"look", "ask", "keep"}
          /\ P[i].figures \subseteq Figures
          /\ P[i].do # "ask" => P[i].figures = {} /\ P[i].key \in Keys
          /\ P[i].do = "look" /\ P[i].key # "popular" => i = 1
  BY <1>1, <1>2 DEF Look, Ask, Keep, Figures, Keys
<1>4. \A i \in 1..Len(P) : P[i].do = "look" => i = 4
  BY <1>1, <1>2 DEF Look, Ask, Keep
<1>5. \A i \in 1..Len(P) : P[i].do = "keep" => i = 6
  BY <1>1, <1>2 DEF Look, Ask, Keep
<1>6. Kept("courses", 4, 6)
  BY <1>1, <1>2 DEF Kept, P, Look, Ask, Keep, Holds
<1>7. \A q \in Holds("popular") : \E j \in 1..5 : q \in P[j].figures
  BY <1>1 DEF Holds, Ask
<1>8. \A q \in Asked("courses") : \E j \in 1..Len(P) : q \in P[j].figures
  BY <1>1 DEF Asked, Ask
<1> QED  BY <1>1, <1>3, <1>4, <1>5, <1>6, <1>7, <1>8 DEF Wellformed, P, Keep, Look

\* The program of the enrollment report is well formed.
LEMMA EnrollmentsWellformed == Wellformed("enrollments")
<1> DEFINE P == Program["enrollments"]
<1>1. /\ Len(P) = 4
      /\ P[1] = Look("series") /\ P[2] = Ask({"points"}) /\ P[3] = Keep("series")
      /\ P[4] = Ask({"new"})
  BY DEF Program
<1>2. \A i \in 1..4 : i = 1 \/ i = 2 \/ i = 3 \/ i = 4
  OBVIOUS
<1> HIDE DEF P
<1>3. \A i \in 1..Len(P) :
          /\ P[i].do \in {"look", "ask", "keep"}
          /\ P[i].figures \subseteq Figures
          /\ P[i].do # "ask" => P[i].figures = {} /\ P[i].key \in Keys
  BY <1>1, <1>2 DEF Look, Ask, Keep, Figures, Keys
<1>4. \A i \in 1..Len(P) : P[i].do = "look" => i = 1
  BY <1>1, <1>2 DEF Look, Ask, Keep
<1>5. \A i \in 1..Len(P) : P[i].do = "keep" => i = 3
  BY <1>1, <1>2 DEF Look, Ask, Keep
<1>6. Kept("enrollments", 1, 3)
  BY <1>1, <1>2 DEF Kept, P, Look, Ask, Keep, Holds
<1>7. \A q \in Holds("series") : \E j \in 1..2 : q \in P[j].figures
  BY <1>1 DEF Holds, Ask
<1>8. \A q \in Asked("enrollments") : \E j \in 1..Len(P) : q \in P[j].figures
  BY <1>1 DEF Asked, Ask
<1> QED  BY <1>1, <1>3, <1>4, <1>5, <1>6, <1>7, <1>8 DEF Wellformed, P, Keep, Look

\* The program of the overview is well formed.
LEMMA OverviewWellformed == Wellformed("overview")
<1> DEFINE P == Program["overview"]
<1>1. /\ Len(P) = 8
      /\ P[1] = Look("overview")
      /\ P[2] = Ask({"students", "instructors", "courses", "new", "total"})
      /\ P[3] = Ask({"completed", "averaged", "enrolled"}) /\ P[4] = Ask({"unique"})
      /\ P[5] = Look("popular") /\ P[6] = Ask({"rank"}) /\ P[7] = Keep("popular")
      /\ P[8] = Keep("overview")
  BY DEF Program
<1>2. \A i \in 1..8 : \/ i = 1 \/ i = 2 \/ i = 3 \/ i = 4
                       \/ i = 5 \/ i = 6 \/ i = 7 \/ i = 8
  OBVIOUS
<1> HIDE DEF P
<1>3. \A i \in 1..Len(P) :
          /\ P[i].do \in {"look", "ask", "keep"}
          /\ P[i].figures \subseteq Figures
          /\ P[i].do # "ask" => P[i].figures = {} /\ P[i].key \in Keys
          /\ P[i].do = "look" /\ P[i].key # "popular" => i = 1
  BY <1>1, <1>2 DEF Look, Ask, Keep, Figures, Keys
<1>4. \A i \in 1..Len(P) : P[i].do = "look" => i = 1 \/ i = 5
  BY <1>1, <1>2 DEF Look, Ask, Keep
<1>5. \A i \in 1..Len(P) : P[i].do = "keep" => i = 7 \/ i = 8
  BY <1>1, <1>2 DEF Look, Ask, Keep
<1>6. Kept("overview", 1, 8)
  <2>1. \A m \in 1..8 : P[m].figures \subseteq Holds("overview")
    BY <1>1, <1>2 DEF Look, Ask, Keep, Holds, Figures
  <2>2. \A m \in 1..8 : P[m] = Keep("overview") => m = 8
    BY <1>1, <1>2 DEF Look, Ask, Keep
  <2> QED  BY <1>1, <2>1, <2>2 DEF Kept, P, Look
<1>7. Kept("overview", 5, 7)
  <2>1. \A m \in 1..8 : 5 <= m /\ m <= 7 => P[m].figures \subseteq Holds("popular")
    BY <1>1, <1>2 DEF Look, Ask, Keep, Holds
  <2>2. \A m \in 1..8 : P[m] = Keep("popular") => m = 7
    BY <1>1, <1>2 DEF Look, Ask, Keep
  <2> QED  BY <1>1, <2>1, <2>2 DEF Kept, P, Look
<1>8. \A q \in Holds("popular") : \E j \in 1..6 : q \in P[j].figures
  BY <1>1 DEF Holds, Ask
<1>9. \A q \in Figures \ {"points"} : \E j \in 1..7 : q \in P[j].figures
  BY <1>1 DEF Figures, Ask
<1>10. \A q \in Holds("overview") : \E j \in 1..7 : q \in P[j].figures
  BY <1>9 DEF Holds
<1>11. \A q \in Asked("overview") : \E j \in 1..Len(P) : q \in P[j].figures
  BY <1>1, <1>9 DEF Asked
<1> QED
  BY <1>1, <1>3, <1>4, <1>5, <1>6, <1>7, <1>8, <1>10, <1>11 DEF Wellformed, P, Keep, Look

\* Every program is well formed.
LEMMA ProgramsWellformed == \A p \in Paths : Wellformed(p)
  BY CoursesWellformed, EnrollmentsWellformed, OverviewWellformed DEF Paths

-----------------------------------------------------------------------------
\* The values of a function on a finite set are finitely many, and no more.
LEMMA Values ==
    ASSUME NEW S, IsFiniteSet(S), NEW F
    PROVE  LET T == {F[x] : x \in S}
           IN  IsFiniteSet(T) /\ Cardinality(T) <= Cardinality(S)
<1> DEFINE T == {F[x] : x \in S}
           g == [x \in S |-> F[x]]
<1>1. g \in Surjection(S, T)
  BY DEF Surjection
<1> QED  BY <1>1, FS_Surjection

\* A set is at most as large as two that cover it.
LEMMA Covered ==
    ASSUME NEW S, NEW A, NEW B, IsFiniteSet(A), IsFiniteSet(B), S \subseteq A \cup B
    PROVE  /\ Cardinality(S) \in Nat /\ Cardinality(A) \in Nat /\ Cardinality(B) \in Nat
           /\ Cardinality(S) <= Cardinality(A) + Cardinality(B)
<1>1. IsFiniteSet(A \cup B) /\ IsFiniteSet(A \cap B)
  BY FS_Union, FS_Subset
<1>2. Cardinality(A \cup B) = Cardinality(A) + Cardinality(B) - Cardinality(A \cap B)
  BY FS_Union
<1>3. IsFiniteSet(S) /\ Cardinality(S) <= Cardinality(A \cup B)
  BY <1>1, FS_Subset
<1>4. /\ Cardinality(S) \in Nat /\ Cardinality(A) \in Nat /\ Cardinality(B) \in Nat
      /\ Cardinality(A \cap B) \in Nat /\ Cardinality(A \cup B) \in Nat
  BY <1>1, <1>3, FS_CardinalityType
<1> QED  BY <1>2, <1>3, <1>4

\* A subset of a finite set is no larger.
LEMMA Smaller ==
    ASSUME NEW B, IsFiniteSet(B), NEW A, A \subseteq B
    PROVE  /\ IsFiniteSet(A) /\ Cardinality(A) \in Nat /\ Cardinality(B) \in Nat
           /\ Cardinality(A) <= Cardinality(B)
  BY FS_Subset, FS_CardinalityType

\* The pools are finite.
LEMMA PoolFinite ==
    ASSUME NEW d \in Tables, NEW q \in Figures
    PROVE  IsFiniteSet(Pool(q, d)) /\ Measure(q, d) \in Nat
<1>1. IsFiniteSet(d.enrolled) /\ IsFiniteSet(d.completed) /\ IsFiniteSet(d.known)
  BY DashboardsAssumption, FS_Subset DEF Tables
<1>2. IsFiniteSet({StudentOf[e] : e \in d.enrolled})
  BY <1>1, Values
<1>3. IsFiniteSet({InstructorOf[c] : c \in d.known})
  BY <1>1, Values
<1>4. IsFiniteSet(d.enrolled \ d.aged)
  BY <1>1, FS_Subset
<1>5. IsFiniteSet(Pool(q, d))
  BY <1>1, <1>2, <1>3, <1>4 DEF Pool
<1> QED  BY <1>5, FS_CardinalityType DEF Measure

\* Tables f came after tables d.
Later(d, f) == /\ d.enrolled \subseteq f.enrolled /\ d.completed \subseteq f.completed
               /\ d.known \subseteq f.known /\ d.aged \subseteq f.aged

\* A moment before tables d.
Earlier(m, d) == m \in Moments /\ m.enrolled \subseteq d.enrolled /\ m.aged \subseteq d.aged

\* What was true since m stays so as the tables grow.
LEMMA StaysTrue ==
    ASSUME NEW d \in Tables, NEW f \in Tables, Later(d, f), NEW q \in Figures,
           NEW m, Earlier(m, d), NEW v \in Nat, TrueSince(q, v, m, d)
    PROVE  TrueSince(q, v, m, f)
<1>1. CASE q \in {"new", "points"}
  <2>1. IsFiniteSet(m.enrolled \ d.aged) /\ IsFiniteSet(f.enrolled \ m.aged)
    BY DashboardsAssumption, FS_Subset DEF Tables, Earlier, Moments
  <2>2. /\ m.enrolled \ f.aged \subseteq m.enrolled \ d.aged
        /\ d.enrolled \ m.aged \subseteq f.enrolled \ m.aged
    BY DEF Later
  <2>3. /\ Cardinality(m.enrolled \ f.aged) <= Cardinality(m.enrolled \ d.aged)
        /\ Cardinality(m.enrolled \ f.aged) \in Nat
        /\ Cardinality(m.enrolled \ d.aged) \in Nat
    BY <2>1, <2>2, Smaller
  <2>4. /\ Cardinality(d.enrolled \ m.aged) <= Cardinality(f.enrolled \ m.aged)
        /\ Cardinality(d.enrolled \ m.aged) \in Nat
        /\ Cardinality(f.enrolled \ m.aged) \in Nat
    BY <2>1, <2>2, Smaller
  <2> QED  BY <1>1, <2>3, <2>4 DEF TrueSince
<1>2. CASE q \notin {"new", "points"}
  <2>1. Pool(q, d) \subseteq Pool(q, f)
    BY <1>2 DEF Pool, Figures, Later
  <2>2. IsFiniteSet(Pool(q, f))
    BY PoolFinite
  <2>3. /\ Cardinality(Pool(q, d)) <= Cardinality(Pool(q, f))
        /\ Cardinality(Pool(q, d)) \in Nat /\ Cardinality(Pool(q, f)) \in Nat
    BY <2>1, <2>2, Smaller
  <2> QED  BY <1>2, <2>3 DEF TrueSince
<1> QED  BY <1>1, <1>2

\* What a query counts is true since any moment before.
LEMMA CountsTrue ==
    ASSUME NEW d \in Tables, NEW q \in Figures, NEW m, Earlier(m, d)
    PROVE  TrueSince(q, Measure(q, d), m, d)
<1>1. CASE q \in {"new", "points"}
  <2>1. IsFiniteSet(d.enrolled \ d.aged) /\ IsFiniteSet(d.enrolled \ m.aged)
    BY DashboardsAssumption, FS_Subset DEF Tables
  <2>2. Measure(q, d) = Cardinality(d.enrolled \ d.aged)
    BY <1>1 DEF Measure, Pool
  <2>3. Cardinality(m.enrolled \ d.aged) <= Cardinality(d.enrolled \ d.aged)
    BY <2>1, Smaller DEF Earlier
  <2>4. Cardinality(d.enrolled \ d.aged) <= Cardinality(d.enrolled \ m.aged)
    BY <2>1, Smaller DEF Earlier
  <2> QED  BY <1>1, <2>2, <2>3, <2>4 DEF TrueSince
<1>2. CASE q \notin {"new", "points"}
  <2>1. Measure(q, d) <= Cardinality(Pool(q, d))
    BY PoolFinite DEF Measure
  <2>2. ASSUME q \in {"total", "enrolled"} PROVE Cardinality(m.enrolled) <= Measure(q, d)
    <3>1. Pool(q, d) = d.enrolled
      BY <2>2 DEF Pool
    <3>2. IsFiniteSet(d.enrolled)
      BY <3>1, PoolFinite
    <3> QED  BY <3>1, <3>2, Smaller DEF Earlier, Measure
  <2> QED  BY <1>2, <2>1, <2>2 DEF TrueSince
<1> QED  BY <1>1, <1>2

-----------------------------------------------------------------------------
Typed ==
    /\ db \in Tables /\ db.completed \subseteq db.enrolled
    /\ writes \in 0..MaxWrites
    /\ req \in [Servers -> Requests \cup {Idle}]
    /\ cache \in [Keys -> Entries]

\* A request has the figures of the steps behind it.
Progressed(r) ==
    /\ r.at \in 1..(Len(Program[r.path]) + 1)
    /\ r.at = 1 => r.got = Blank
    /\ \A i \in 1..Len(Program[r.path]) :
          i < r.at => \A q \in Program[r.path][i].figures : r.got[q] # Unasked

\* A cached result has its figures and no other.
Filled(k) ==
    \A q \in Figures : q \in Holds(k) <=> cache[k].got[q] # Unasked

IInv == /\ Typed
        /\ FiguresTrue
        /\ \A s \in Servers : Busy(s) => Progressed(req[s])
        /\ \A k \in Keys : cache[k] # Absent => Filled(k)

\* Initially.
LEMMA IInvInit == Init => IInv
<1> SUFFICES ASSUME Init PROVE IInv
  OBVIOUS
<1>1. Idle \in [path : {"none"}, at : {0}, got : [Figures -> Int], base : Moments]
  BY DEF Idle, Blank, Unasked, Never, Moments
<1>2. Absent \in Entries
  BY DEF Absent, Entries, Blank, Unasked, Never, Moments
<1>3. Typed
  BY <1>2, DashboardsAssumption DEF Init, Typed
<1>4. FiguresTrue
  BY DEF FiguresTrue, Init, Sound, Idle, Absent, Blank, Never
<1> QED  BY <1>3, <1>4 DEF IInv, Init, Busy

\* The tables grow and nothing else changes.
LEMMA PutInv ==
    ASSUME IInv, NEW d \in Tables, Later(db, d), d.completed \subseteq d.enrolled, Put(d)
    PROVE  IInv'
<1> USE DEF Put
<1>1. Typed'
  BY DashboardsAssumption DEF IInv, Typed
<1>2. ASSUME NEW x, Sound(x), x.base \in Moments PROVE Sound(x)'
  <2>1. Earlier(x.base, db) /\ db \in Tables /\ db' = d
    BY <1>2 DEF Earlier, Sound, IInv, Typed
  <2>2. \A q \in Figures : x.got[q] # Unasked =>
            x.got[q] \in Nat /\ TrueSince(q, x.got[q], x.base, d)
    BY <1>2, <2>1, StaysTrue DEF Sound
  <2> QED  BY <2>1, <2>2 DEF Sound, Earlier, Later
<1>3. \A s \in Servers : req[s].base \in Moments
  BY DEF IInv, Typed, Requests, Idle, Never, Moments
<1>4. \A k \in Keys : cache[k].base \in Moments
  BY DEF IInv, Typed, Entries
<1>5. FiguresTrue'
  BY <1>2, <1>3, <1>4 DEF IInv, FiguresTrue
<1> QED  BY <1>1, <1>5 DEF IInv, Busy, Filled

\* The four ways to write.
LEMMA WriteInv == ASSUME IInv, Write PROVE IInv'
<1>1. db \in Tables /\ db.completed \subseteq db.enrolled
  BY DEF IInv, Typed
<1>2. CASE EnrollmentCreated
  <2>1. PICK e \in Enrollments : Put([db EXCEPT !.enrolled = @ \cup {e}])
    BY <1>2 DEF EnrollmentCreated
  <2> DEFINE d == [db EXCEPT !.enrolled = @ \cup {e}]
  <2>2. d \in Tables /\ Later(db, d) /\ d.completed \subseteq d.enrolled
    BY <1>1 DEF Tables, Later
  <2> QED  BY <2>1, <2>2, PutInv
<1>3. CASE EnrollmentCompleted
  <2>1. PICK e \in db.enrolled : Put([db EXCEPT !.completed = @ \cup {e}])
    BY <1>3 DEF EnrollmentCompleted
  <2> DEFINE d == [db EXCEPT !.completed = @ \cup {e}]
  <2>2. d \in Tables /\ Later(db, d) /\ d.completed \subseteq d.enrolled
    BY <1>1 DEF Tables, Later
  <2> QED  BY <2>1, <2>2, PutInv
<1>4. CASE CoursePublished
  <2>1. PICK c \in Courses : Put([db EXCEPT !.known = @ \cup {c}])
    BY <1>4 DEF CoursePublished
  <2> DEFINE d == [db EXCEPT !.known = @ \cup {c}]
  <2>2. d \in Tables /\ Later(db, d) /\ d.completed \subseteq d.enrolled
    BY <1>1 DEF Tables, Later
  <2> QED  BY <2>1, <2>2, PutInv
<1>5. CASE Ages
  <2>1. PICK e \in Enrollments : Put([db EXCEPT !.aged = @ \cup {e}])
    BY <1>1, <1>5 DEF Ages, Tables
  <2> DEFINE d == [db EXCEPT !.aged = @ \cup {e}]
  <2>2. d \in Tables /\ Later(db, d) /\ d.completed \subseteq d.enrolled
    BY <1>1 DEF Tables, Later
  <2> QED  BY <2>1, <2>2, PutInv
<1> QED  BY <1>2, <1>3, <1>4, <1>5 DEF Write

\* A step of one request, to a sound one.
LEMMA RequestInv ==
    ASSUME IInv, NEW s \in Servers, NEW x \in Requests \cup {Idle},
           req' = [req EXCEPT ![s] = x], Sound(x), x # Idle => Progressed(x),
           UNCHANGED <<db, cache, writes>>
    PROVE  IInv'
<1>1. Typed'
  BY DEF IInv, Typed
<1>2. \A y : Sound(y)' <=> Sound(y)
  BY DEF Sound
<1>3. \A v \in Servers : req'[v] = IF v = s THEN x ELSE req[v]
  BY DEF IInv, Typed
<1>4. FiguresTrue'
  BY <1>2, <1>3 DEF IInv, FiguresTrue
<1>5. \A v \in Servers : Busy(v)' => Progressed(req[v])'
  BY <1>3 DEF IInv, Busy, Progressed
<1> QED  BY <1>1, <1>4, <1>5 DEF IInv, Filled

\* A request that is busy, typed, sound and on its way.
LEMMA OnItsWay ==
    ASSUME IInv, NEW s \in Servers, Busy(s)
    PROVE  /\ req[s] \in Requests /\ req[s].path \in Paths /\ Sound(req[s])
           /\ Progressed(req[s]) /\ Wellformed(req[s].path)
           /\ Earlier(req[s].base, db)
           /\ req[s].at \in Nat /\ req[s].got \in [Figures -> Int]
           /\ ~ Answered(req[s]) => req[s].at \in 1..Len(Program[req[s].path])
<1>1. req[s] \in Requests /\ Sound(req[s]) /\ Progressed(req[s])
  BY DEF IInv, Typed, Busy, FiguresTrue
<1>2. req[s].path \in Paths /\ req[s].at \in Nat /\ req[s].got \in [Figures -> Int]
  BY <1>1 DEF Requests
<1>3. Wellformed(req[s].path)
  BY <1>2, ProgramsWellformed
<1>4. Earlier(req[s].base, db)
  BY <1>1 DEF Sound, Requests, Earlier
<1>5. ~ Answered(req[s]) => req[s].at \in 1..Len(Program[req[s].path])
  BY <1>1, <1>2, <1>3 DEF Answered, Progressed, Wellformed
<1> QED  BY <1>1, <1>2, <1>3, <1>4, <1>5

\* A record that is a request is not Idle.
LEMMA NotIdle == \A r \in Requests : r # Idle
  BY DEF Requests, Paths, Idle

\* A request starts with nothing.
LEMMA StartInv == ASSUME IInv, NEW s \in Servers, Start(s) PROVE IInv'
<1>1. PICK path \in Serves[s] :
          req' = [req EXCEPT ![s] = [path |-> path, at |-> 1, got |-> Blank, base |-> Now]]
  BY DEF Start
<1> DEFINE x == [path |-> path, at |-> 1, got |-> Blank, base |-> Now]
<1>2. path \in Paths
  BY DashboardsAssumption
<1>3. x \in Requests
  BY <1>2 DEF Requests, Blank, Unasked, Now, Moments, IInv, Typed, Tables
<1>4. Sound(x)
  BY DEF Sound, Blank, Now
<1>5. Progressed(x)
  BY <1>2, ProgramsWellformed DEF Progressed, Wellformed
<1> QED  BY <1>1, <1>3, <1>4, <1>5, RequestInv DEF Start

\* A miss goes on to the computation.
LEMMA MissInv == ASSUME IInv, NEW s \in Servers, Miss(s) PROVE IInv'
<1> DEFINE r == req[s]
           x == [r EXCEPT !.at = @ + 1]
<1>1. Busy(s) /\ ~ Answered(r) /\ Program[r.path][r.at].do = "look"
  BY DEF Miss, Doing
<1>2. x \in Requests /\ x.path = r.path /\ x.at = r.at + 1 /\ x.got = r.got /\ x.base = r.base
  BY <1>1, OnItsWay DEF Requests
<1>3. Sound(x)
  BY <1>1, <1>2, OnItsWay DEF Sound
<1>4. Progressed(x)
  <2>1. Program[r.path][r.at].figures = {}
    BY <1>1, OnItsWay DEF Wellformed
  <2>2. x.at \in 2..(Len(Program[r.path]) + 1)
    BY <1>1, <1>2, OnItsWay DEF Wellformed
  <2> QED  BY <1>1, <1>2, <2>1, <2>2, OnItsWay DEF Progressed
<1>5. req' = [req EXCEPT ![s] = x]
  BY DEF Miss
<1> QED  BY <1>2, <1>3, <1>4, <1>5, RequestInv DEF Miss

\* A query adds what it counts.
LEMMA QueryInv == ASSUME IInv, NEW s \in Servers, Query(s) PROVE IInv'
<1> DEFINE r == req[s]
           figures == Program[r.path][r.at].figures
           x == [path |-> r.path, at |-> r.at + 1, base |-> r.base,
                 got |-> [q \in Figures |-> IF q \in figures THEN Answer(q, r)
                                                             ELSE r.got[q]]]
<1>1. Busy(s) /\ ~ Answered(r)
  BY DEF Query, Doing
<1>2. \A q \in Figures : Answer(q, r) \in Nat /\ TrueSince(q, Answer(q, r), r.base, db)
  <2> SUFFICES ASSUME NEW q \in Figures
               PROVE  Answer(q, r) \in Nat /\ TrueSince(q, Answer(q, r), r.base, db)
    OBVIOUS
  <2>1. db \in Tables /\ Earlier(r.base, db)
    BY <1>1, OnItsWay DEF IInv, Typed
  <2>2. Measure(q, db) \in Nat /\ TrueSince(q, Measure(q, db), r.base, db)
    BY <2>1, CountsTrue, PoolFinite
  <2>3. q = "completed" => TrueSince(q, 0, r.base, db)
    BY <2>1, PoolFinite DEF TrueSince, Measure
  <2> QED  BY <2>2, <2>3 DEF Answer
<1>3. x \in Requests
  BY <1>1, <1>2, OnItsWay DEF Requests
<1>4. Sound(x)
  BY <1>1, <1>2, OnItsWay DEF Sound
<1>5. Progressed(x)
  <2>1. x.at \in 2..(Len(Program[r.path]) + 1)
    BY <1>1, OnItsWay DEF Wellformed
  <2>2. \A q \in Figures : q \in figures => x.got[q] # Unasked
    BY <1>2 DEF Unasked
  <2>3. figures \subseteq Figures
    BY <1>1, OnItsWay DEF Wellformed
  <2>4. \A q \in Figures : r.got[q] # Unasked => x.got[q] # Unasked
    BY <2>2
  <2>5. \A i \in 1..Len(Program[r.path]) : Program[r.path][i].figures \subseteq Figures
    BY <1>1, OnItsWay DEF Wellformed
  <2>6. ASSUME NEW i \in 1..Len(Program[r.path]), i < r.at + 1,
               NEW q \in Program[r.path][i].figures
        PROVE  x.got[q] # Unasked
    <3>1. CASE i = r.at
      BY <3>1, <2>2, <2>3, <2>6
    <3>2. CASE i # r.at
      <4>1. i < r.at
        BY <3>2, <2>6, <1>1, OnItsWay DEF Wellformed
      <4>2. r.got[q] # Unasked
        BY <4>1, <2>6, <1>1, OnItsWay DEF Progressed
      <4> QED  BY <4>2, <2>4, <2>5, <2>6
    <3> QED  BY <3>1, <3>2
  <2> QED  BY <2>1, <2>6 DEF Progressed
<1>6. req' = [req EXCEPT ![s] = x]
  BY DEF Query, Step
<1> QED  BY <1>3, <1>4, <1>5, <1>6, RequestInv DEF Query

\* A hit takes the entry's figures over, and with them its moment.
LEMMA HitInv == ASSUME IInv, NEW s \in Servers, Hit(s) PROVE IInv'
<1> DEFINE r == req[s]
           p == Program[r.path]
           k == p[r.at].key
           got == [q \in Figures |-> IF q \in Holds(k) THEN cache[k].got[q] ELSE r.got[q]]
           base == IF k = "popular" THEN r.base ELSE cache[k].base
           To(i) == [path |-> r.path, at |-> i + 1, got |-> got, base |-> base]
<1>1. /\ Busy(s) /\ ~ Answered(r) /\ p[r.at].do = "look" /\ cache[k] # Absent
      /\ req' = [req EXCEPT ![s] = To(CHOOSE i \in 1..Len(p) : p[i] = Keep(k))]
  BY DEF Hit, Doing, Step
<1>2. /\ r \in Requests /\ r.path \in Paths /\ Sound(r) /\ Progressed(r)
      /\ Wellformed(r.path) /\ r.at \in 1..Len(p) /\ r.got \in [Figures -> Int]
      /\ Earlier(r.base, db) /\ Len(p) \in Nat
  BY <1>1, OnItsWay DEF Wellformed
<1>3. PICK j \in 1..Len(p) : Kept(r.path, r.at, j)
  BY <1>1, <1>2 DEF Wellformed
<1> DEFINE x == [path |-> r.path, at |-> j + 1, got |-> got, base |-> base]
<1>4. req' = [req EXCEPT ![s] = x]
  <2>1. (CHOOSE i \in 1..Len(p) : p[i] = Keep(k)) = j
    BY <1>3 DEF Kept
  <2> QED  BY <1>1, <2>1
<1>5. /\ k \in Keys /\ cache[k] \in Entries /\ Sound(cache[k]) /\ Filled(k)
      /\ k # "popular" => r.got = Blank
  <2>1. k \in Keys /\ (k # "popular" => r.at = 1)
    BY <1>1, <1>2 DEF Wellformed
  <2>2. r.at = 1 => r.got = Blank
    BY <1>2 DEF Progressed
  <2> HIDE DEF k, r
  <2>3. cache[k] \in Entries /\ Sound(cache[k]) /\ Filled(k)
    BY <2>1, <1>1 DEF IInv, Typed, FiguresTrue
  <2> QED  BY <2>1, <2>2, <2>3
<1>6. got \in [Figures -> Int] /\ base \in Moments
  <2>1. cache[k].got \in [Figures -> Int] /\ cache[k].base \in Moments /\ r.base \in Moments
    BY <1>2, <1>5 DEF Requests, Entries
  <2> QED  BY <2>1, <1>2
<1>7. Sound(x)
  <2>1. CASE k # "popular"
    <3>1. base = cache[k].base
      BY <2>1
    <3>2. \A q \in Figures : got[q] = cache[k].got[q]
      BY <2>1, <1>5 DEF Filled, Blank
    <3> HIDE DEF base, got
    <3> QED  BY <3>1, <3>2, <1>5 DEF Sound
  <2>2. CASE k = "popular"
    <3>1. base = r.base
      BY <2>2
    <3>2. \A q \in Figures : q # "rank" => got[q] = r.got[q]
      BY <2>2 DEF Holds
    <3>3. "rank" \in Figures /\ got["rank"] = cache[k].got["rank"] /\ got["rank"] # Unasked
      BY <2>2, <1>5 DEF Filled, Holds, Figures
    <3>4. got["rank"] \in Nat /\ TrueSince("rank", got["rank"], cache[k].base, db)
      BY <3>3, <1>5 DEF Sound
    <3>5. TrueSince("rank", got["rank"], base, db)
      BY <3>4 DEF TrueSince
    <3> HIDE DEF base, got
    <3> QED  BY <3>1, <3>2, <3>4, <3>5, <1>2 DEF Sound
  <2> QED  BY <2>1, <2>2
<1>8. Progressed(x)
  <2>1. j + 1 \in 2..(Len(p) + 1)
    BY <1>2, <1>3
  <2>2. \A q \in Figures : q \in Holds(k) \/ r.got[q] # Unasked => got[q] # Unasked
    BY <1>5 DEF Filled
  <2>3. ASSUME NEW i \in 1..Len(p), i < j + 1, NEW q \in p[i].figures
        PROVE  got[q] # Unasked
    <3>1. q \in Figures
      BY <2>3, <1>2 DEF Wellformed
    <3>2. CASE i < r.at
      <4>1. r.got[q] # Unasked
        BY <2>3, <3>2, <1>2 DEF Progressed
      <4> QED  BY <4>1, <2>2, <3>1
    <3>3. CASE r.at <= i
      <4>1. q \in Holds(k)
        BY <2>3, <3>3, <1>3 DEF Kept
      <4> QED  BY <4>1, <3>1, <2>2
    <3>4. i \in Int /\ r.at \in Int
      BY <1>2, <2>3
    <3> HIDE DEF r, got
    <3> QED  BY <3>2, <3>3, <3>4
  <2> HIDE DEF got
  <2> QED  BY <2>1, <2>3 DEF Progressed
<1>9. x \in Requests
  BY <1>2, <1>3, <1>6 DEF Requests
<1> HIDE DEF x
<1> QED  BY <1>4, <1>7, <1>8, <1>9, RequestInv DEF Hit

\* A result that is stored has the figures of its key.
LEMMA StoreInv == ASSUME IInv, NEW s \in Servers, Store(s) PROVE IInv'
<1> DEFINE r == req[s]
           k == Program[r.path][r.at].key
           e == [got |-> [q \in Figures |-> IF q \in Holds(k) THEN r.got[q] ELSE Unasked],
                 base |-> IF k = "popular" THEN Never ELSE r.base]
           x == [r EXCEPT !.at = @ + 1]
<1>1. /\ Busy(s) /\ ~ Answered(r) /\ Program[r.path][r.at].do = "keep"
      /\ cache' = [cache EXCEPT ![k] = e] /\ req' = [req EXCEPT ![s] = x]
      /\ UNCHANGED <<db, writes>>
  BY DEF Store, Doing, Step
<1>2. /\ k \in Keys /\ r \in Requests /\ Sound(r) /\ Progressed(r) /\ Wellformed(r.path)
      /\ r.at \in 1..Len(Program[r.path]) /\ Earlier(r.base, db)
      /\ Program[r.path][r.at].figures = {}
  BY <1>1, OnItsWay DEF Wellformed
<1>3. e \in Entries
  BY <1>2 DEF Requests, Entries, Never, Moments, Unasked
<1>4. x \in Requests /\ x.path = r.path /\ x.at = r.at + 1 /\ x.got = r.got /\ x.base = r.base
  BY <1>2 DEF Requests
<1>5. \A q \in Holds(k) : r.got[q] # Unasked
  <2> SUFFICES ASSUME NEW q \in Holds(k) PROVE r.got[q] # Unasked
    OBVIOUS
  <2>1. PICK j \in 1..(r.at - 1) : q \in Program[r.path][j].figures
    BY <1>1, <1>2 DEF Wellformed
  <2>2. j \in 1..Len(Program[r.path]) /\ j < r.at
    BY <1>2 DEF Wellformed
  <2> QED  BY <1>2, <2>1, <2>2 DEF Progressed
<1>6. Sound(e)
  <2>1. CASE k # "popular"
    <3>1. e.base = r.base
      BY <2>1
    <3>2. \A q \in Figures : e.got[q] # Unasked => e.got[q] = r.got[q]
      OBVIOUS
    <3> QED  BY <1>2, <3>1, <3>2 DEF Sound
  <2>2. CASE k = "popular"
    <3>1. e.base = Never
      BY <2>2
    <3>2. \A q \in Figures : e.got[q] # Unasked => q = "rank" /\ e.got[q] = r.got[q]
      BY <2>2 DEF Holds
    <3> QED  BY <1>2, <3>1, <3>2 DEF Sound, TrueSince, Never
  <2> QED  BY <2>1, <2>2
<1>7. Sound(x)
  BY <1>2, <1>4 DEF Sound
<1>8. Progressed(x)
  BY <1>2, <1>4 DEF Progressed, Wellformed
<1>9. \A y : Sound(y)' <=> Sound(y)
  BY <1>1 DEF Sound
<1>10. \A v \in Servers : req'[v] = IF v = s THEN x ELSE req[v]
  BY <1>1 DEF IInv, Typed
<1>11. \A l \in Keys : cache'[l] = IF l = k THEN e ELSE cache[l]
  BY <1>1 DEF IInv, Typed
<1>12. Typed'
  BY <1>1, <1>3, <1>4 DEF IInv, Typed
<1>13. FiguresTrue'
  BY <1>6, <1>7, <1>9, <1>10, <1>11 DEF IInv, FiguresTrue
<1>14. \A v \in Servers : Busy(v)' => Progressed(req[v])'
  BY <1>8, <1>10 DEF IInv, Busy, Progressed
<1>15. \A l \in Keys : (cache[l] # Absent)' => Filled(l)'
  <2> SUFFICES ASSUME NEW l \in Keys, cache'[l] # Absent PROVE Filled(l)'
    OBVIOUS
  <2>1. CASE l = k
    <3>1. \A q \in Figures : q \in Holds(k) <=> e.got[q] # Unasked
      BY <1>5
    <3>2. cache'[l] = e
      BY <2>1, <1>11
    <3> HIDE DEF e, k
    <3> QED  BY <2>1, <3>1, <3>2 DEF Filled
  <2>2. CASE l # k
    BY <2>2, <1>11 DEF IInv, Filled
  <2> QED  BY <2>1, <2>2
<1> QED  BY <1>12, <1>13, <1>14, <1>15 DEF IInv

\* An answer goes out.
LEMMA FinishInv == ASSUME IInv, NEW s \in Servers, Finish(s) PROVE IInv'
<1>1. Sound(Idle)
  BY DEF Sound, Idle, Blank, Never
<1> QED  BY <1>1, RequestInv DEF Finish

\* An entry expires.
LEMMA ExpireInv == ASSUME IInv, NEW k \in Keys, Expire(k) PROVE IInv'
<1>1. \A l \in Keys : cache'[l] = IF l = k THEN Absent ELSE cache[l]
  BY DEF Expire, IInv, Typed
<1>2. \A y : Sound(y)' <=> Sound(y)
  BY DEF Expire, Sound
<1>3. Sound(Absent) /\ Absent \in Entries
  BY DEF Sound, Absent, Blank, Never, Entries, Unasked, Moments
<1>4. Typed' /\ FiguresTrue'
  BY <1>1, <1>2, <1>3 DEF Expire, IInv, Typed, FiguresTrue
<1> QED  BY <1>1, <1>4 DEF Expire, IInv, Busy, Progressed, Filled

\* Every figure of a request or a cached result was true at some moment since the request
\* began, and a request has the figures of all the steps behind it.
THEOREM Invariance == Spec => []IInv
<1>1. IInv /\ [Next]_vars => IInv'
  <2> SUFFICES ASSUME IInv, [Next]_vars PROVE IInv'
    OBVIOUS
  <2>1. CASE Write
    BY <2>1, WriteInv
  <2>2. ASSUME NEW k \in Keys, Expire(k) PROVE IInv'
    BY <2>2, ExpireInv
  <2>3. ASSUME NEW s \in Servers, Start(s) PROVE IInv'
    BY <2>3, StartInv
  <2>4. ASSUME NEW s \in Servers, Serve(s) PROVE IInv'
    BY <2>4, HitInv, MissInv, QueryInv, StoreInv, FinishInv DEF Serve
  <2>5. CASE UNCHANGED vars
    BY <2>5 DEF vars, IInv, Typed, FiguresTrue, Sound, Busy, Progressed, Filled
  <2> QED  BY <2>1, <2>2, <2>3, <2>4, <2>5 DEF Next
<1> QED  BY <1>1, IInvInit, PTL DEF Spec

-----------------------------------------------------------------------------
\* An answered request has everything that its path asks for, and it is sound.
LEMMA AnswersComplete ==
    ASSUME IInv, NEW s \in Servers, Busy(s), Answered(req[s])
    PROVE  /\ req[s].path \in Paths /\ Sound(req[s]) /\ Earlier(req[s].base, db)
           /\ \A q \in Asked(req[s].path) :
                 /\ q \in Figures /\ req[s].got[q] \in Nat
                 /\ TrueSince(q, req[s].got[q], req[s].base, db)
<1> DEFINE r == req[s]
<1>1. /\ r.path \in Paths /\ Sound(r) /\ Progressed(r) /\ Wellformed(r.path)
      /\ Earlier(r.base, db) /\ r.at \in Nat
  BY OnItsWay
<1>2. ASSUME NEW q \in Asked(r.path) PROVE q \in Figures /\ r.got[q] # Unasked
  <2>1. PICK j \in 1..Len(Program[r.path]) : q \in Program[r.path][j].figures
    BY <1>1, <1>2 DEF Wellformed
  <2>2. j < r.at
    BY <1>1 DEF Answered, Wellformed
  <2> QED  BY <1>1, <2>1, <2>2 DEF Progressed, Wellformed
<1> QED  BY <1>1, <1>2 DEF Sound

\* The state is well typed, and an answer lacks no figure.
THEOREM DashTypes == Spec => []DashTypeOK
<1>1. IInv => DashTypeOK
  BY AnswersComplete DEF IInv, Typed, DashTypeOK, Reports
<1> QED  BY <1>1, Invariance, PTL

\* A rate above 1, or an average below one course per student, is explained by what was
\* written while the answer was computed.
THEOREM Ratios == Spec => []RatiosExplained
<1>1. IInv => RatiosExplained
  <2> SUFFICES ASSUME IInv, NEW s \in Servers, Busy(s), Answered(req[s]),
                      req[s].path \in {"overview", "courses"}
               PROVE  /\ req[s].got["completed"] - req[s].got["total"] <=
                             Cardinality(db.completed \ req[s].base.enrolled)
                      /\ req[s].got["unique"] - req[s].got["enrolled"] <=
                             Cardinality({StudentOf[e] : e \in db.enrolled \ req[s].base.enrolled})
    BY DEF RatiosExplained, Reports
  <2> DEFINE b == req[s].base
             g == req[s].got
             new == db.enrolled \ b.enrolled
             Students(S) == {StudentOf[e] : e \in S}
  <2>1. {"completed", "total", "unique", "enrolled"} \subseteq Asked(req[s].path)
    BY DEF Asked, Figures
  <2>2. /\ Earlier(b, db) /\ db \in Tables
        /\ g["completed"] \in Nat /\ g["total"] \in Nat
        /\ g["unique"] \in Nat /\ g["enrolled"] \in Nat
        /\ TrueSince("completed", g["completed"], b, db) /\ TrueSince("total", g["total"], b, db)
        /\ TrueSince("unique", g["unique"], b, db) /\ TrueSince("enrolled", g["enrolled"], b, db)
    BY <2>1, AnswersComplete DEF IInv, Typed
  <2>3. /\ g["completed"] <= Cardinality(db.completed)
        /\ Cardinality(b.enrolled) <= g["total"]
        /\ g["unique"] <= Cardinality(Students(db.enrolled))
        /\ Cardinality(b.enrolled) <= g["enrolled"]
    BY <2>2 DEF TrueSince, Pool
  <2>4. IsFiniteSet(db.completed) /\ IsFiniteSet(b.enrolled) /\ IsFiniteSet(new)
    BY <2>2, DashboardsAssumption, FS_Subset DEF Tables, Earlier
  <2>5. /\ Cardinality(db.completed) <=
              Cardinality(b.enrolled) + Cardinality(db.completed \ b.enrolled)
        /\ Cardinality(db.completed) \in Nat /\ Cardinality(b.enrolled) \in Nat
        /\ Cardinality(db.completed \ b.enrolled) \in Nat
    <3>1. IsFiniteSet(db.completed \ b.enrolled)
      BY <2>4, FS_Subset
    <3> QED  BY <2>4, <3>1, Covered, FS_CardinalityType
  <2>6. /\ IsFiniteSet(Students(b.enrolled)) /\ IsFiniteSet(Students(new))
        /\ Cardinality(Students(b.enrolled)) <= Cardinality(b.enrolled)
    BY <2>4, Values
  <2>7. Students(db.enrolled) \subseteq Students(b.enrolled) \cup Students(new)
    OBVIOUS
  <2> HIDE DEF Students
  <2>8. /\ Cardinality(Students(db.enrolled)) <=
              Cardinality(Students(b.enrolled)) + Cardinality(Students(new))
        /\ Cardinality(Students(db.enrolled)) \in Nat
        /\ Cardinality(Students(b.enrolled)) \in Nat /\ Cardinality(Students(new)) \in Nat
    BY <2>6, <2>7, Covered
  <2>9. g["completed"] - g["total"] <= Cardinality(db.completed \ b.enrolled)
    BY <2>2, <2>3, <2>5
  <2>10. g["unique"] - g["enrolled"] <= Cardinality(Students(new))
    BY <2>2, <2>3, <2>5, <2>6, <2>8
  <2> QED  BY <2>9, <2>10 DEF Students
<1> QED  BY <1>1, Invariance, PTL

\* A cached series and a fresh count differ by what was written or left the window since.
THEOREM Series == Spec => []SeriesExplained
<1>1. IInv => SeriesExplained
  <2> SUFFICES ASSUME IInv, NEW s \in Servers, Busy(s), Answered(req[s]),
                      req[s].path = "enrollments"
               PROVE  LET moved == (db.enrolled \ req[s].base.enrolled)
                                      \cup (db.aged \ req[s].base.aged)
                      IN  /\ req[s].got["points"] - req[s].got["new"] <= Cardinality(moved)
                          /\ req[s].got["new"] - req[s].got["points"] <= Cardinality(moved)
    BY DEF SeriesExplained, Reports
  <2> DEFINE b == req[s].base
             g == req[s].got
             moved == (db.enrolled \ b.enrolled) \cup (db.aged \ b.aged)
             low == b.enrolled \ db.aged
             high == db.enrolled \ b.aged
  <2>1. {"points", "new"} \subseteq Asked(req[s].path)
    BY DEF Asked
  <2>2. /\ Earlier(b, db) /\ db \in Tables /\ g["points"] \in Nat /\ g["new"] \in Nat
        /\ TrueSince("points", g["points"], b, db) /\ TrueSince("new", g["new"], b, db)
    BY <2>1, AnswersComplete DEF IInv, Typed
  <2>3. /\ Cardinality(low) <= g["points"] /\ g["points"] <= Cardinality(high)
        /\ Cardinality(low) <= g["new"] /\ g["new"] <= Cardinality(high)
    BY <2>2 DEF TrueSince
  <2>4. IsFiniteSet(low) /\ IsFiniteSet(moved)
    BY <2>2, DashboardsAssumption, FS_Subset DEF Tables, Earlier
  <2>5. high \subseteq low \cup moved
    OBVIOUS
  <2>6. /\ Cardinality(high) <= Cardinality(low) + Cardinality(moved)
        /\ Cardinality(high) \in Nat /\ Cardinality(low) \in Nat /\ Cardinality(moved) \in Nat
    BY <2>4, <2>5, Covered
  <2> QED  BY <2>2, <2>3, <2>6
<1> QED  BY <1>1, Invariance, PTL

\* Nobody has enrolled or left the window since the computation of x began.
Unmoved(x) == x.base = Now

\* An answer or a cached result that nothing has moved since counts the enrollments as the
\* tables do now.
Counting == {"new", "points", "total", "enrolled"}
CountsCurrent(x) ==
    Unmoved(x) => \A q \in Counting : x.got[q] # Unasked => x.got[q] = Measure(q, db)
UnmovedIsCurrent ==
    /\ \A s \in Servers : CountsCurrent(req[s])
    /\ \A k \in Keys : CountsCurrent(cache[k])

\* What is safe in CachesConverge: whatever was shared and overwritten on the way, a result
\* whose computation began after the last enrollment counts them right, in the cache and in
\* every answer.  Fairness adds that the other results expire.
THEOREM CountsConverge == Spec => []UnmovedIsCurrent
<1>1. ASSUME IInv, NEW x, Sound(x), Unmoved(x), NEW q \in Counting, x.got[q] # Unasked
      PROVE  x.got[q] = Measure(q, db)
  <2>1. db \in Tables /\ q \in Figures
    BY <1>1 DEF IInv, Typed, Counting, Figures
  <2>2. x.base.enrolled = db.enrolled /\ x.base.aged = db.aged
    BY <1>1 DEF Unmoved, Now
  <2>3. x.got[q] \in Nat /\ TrueSince(q, x.got[q], x.base, db)
    BY <1>1, <2>1 DEF Sound
  <2>4. Measure(q, db) \in Nat
    BY <2>1, PoolFinite, FS_CardinalityType DEF Measure
  <2>5. CASE q \in {"new", "points"}
    <3>1. Measure(q, db) = Cardinality(db.enrolled \ db.aged)
      BY <2>5 DEF Measure, Pool
    <3> QED BY <2>2, <2>3, <2>4, <2>5, <3>1 DEF TrueSince
  <2>6. CASE q \in {"total", "enrolled"}
    <3>1. Pool(q, db) = db.enrolled /\ Measure(q, db) = Cardinality(db.enrolled)
      BY <2>6 DEF Measure, Pool
    <3> QED BY <2>2, <2>3, <2>4, <2>6, <3>1 DEF TrueSince
  <2> QED BY <1>1, <2>5, <2>6 DEF Counting
<1>2. IInv => UnmovedIsCurrent
  BY <1>1 DEF IInv, FiguresTrue, UnmovedIsCurrent, CountsCurrent
<1> QED BY <1>2, Invariance, PTL

=============================================================================
