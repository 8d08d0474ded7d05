-------------------------- MODULE AnalyticsProofs ---------------------------
(***************************************************************************)
(* Proofs about AnalyticsFacts: it implements DeadLetter, and the facts    *)
(* say what the delivery of the two events says.                           *)
(***************************************************************************)
EXTENDS AnalyticsFacts, DeadLetterProofs

-----------------------------------------------------------------------------
(* Refinement *)

\* Looking for a fact is a stuttering step of the delivery, inserting or completing one
\* its Handle, and losing the race for the UNIQUE column its HandleRaises.
LEMMA FactsStepRefines == [FactsNext]_factVars => [Next]_vars
<1> SUFFICES ASSUME [FactsNext]_factVars PROVE [Next]_vars
  OBVIOUS
<1>1. CASE UNCHANGED factVars
  BY <1>1 DEF factVars
<1>2. CASE \E t \in Topics, m \in Messages : Publish(t, m)
  BY <1>2 DEF Next
<1>3. ASSUME NEW w \in Workers, Delivery(w) \/ FactsCrash(w)
      PROVE  [Next]_vars
  BY <1>3 DEF Delivery, FactsCrash, Next, Work
<1>4. ASSUME NEW w \in Creators,
             CreateLookUp(w) \/ CreateInsert(w) \/ CreateConflicts(w) \/ FactRaises(w)
      PROVE  [Next]_vars
  <2>1. w \in Workers
    BY DEF Creators
  <2>2. Work(w) \/ UNCHANGED vars
    BY <1>4 DEF CreateLookUp, CreateInsert, CreateConflicts, FactRaises, Work
  <2> QED BY <2>1, <2>2 DEF Next
<1>5. ASSUME NEW w \in Completers, Complete(w) \/ FactRaises(w)
      PROVE  [Next]_vars
  <2>1. w \in Workers
    BY DEF Completers
  <2>2. Work(w)
    BY <1>5 DEF Complete, FactRaises, Work
  <2> QED BY <2>1, <2>2 DEF Next
<1> QED BY <1>1, <1>2, <1>3, <1>4, <1>5 DEF FactsNext

\* The analytics service is an instance of the delivery skeleton.
THEOREM AnalyticsImplementsDelivery == FactsSpec => Spec
<1>1. FactsInit => Init
  BY DEF FactsInit
<1> QED BY <1>1, FactsStepRefines, PTL DEF FactsSpec, Spec

-----------------------------------------------------------------------------
(* Letters carry what was published *)

LettersPublished ==
    \A t \in Topics : \A i \in 1 .. Len(dlq[t]) : IsPublished(t, dlq[t][i].msg)

\* What a busy worker handles was published on its topic.
LEMMA InHandPublished ==
    ASSUME IInv, LettersPublished, NEW w \in Workers, phase[w] \notin {"idle", "down"}
    PROVE  IsPublished(Topic(w), InHand(w))
<1>1. committed[w] + 1 \in 1 .. Backlog(w) /\ Topic(w) \in Topics
  BY InHandExists, WorkersOf DEF IInv
<1> QED BY <1>1 DEF LettersPublished, IsPublished, InHand, Backlog

\* A published message stays published: the logs only grow.
LEMMA PublishedStable ==
    ASSUME TypeOK, TypeOK', Grows, NEW t \in Topics, NEW m, IsPublished(t, m)
    PROVE  \E j \in 1 .. Len(log'[t]) : log'[t][j] = m
<1>1. PICK i \in 1 .. Len(log[t]) : log[t][i] = m
  BY DEF IsPublished
<1>2. Len(log[t]) \in Nat /\ Len(log'[t]) \in Nat /\ Len(log[t]) <= Len(log'[t])
  BY DEF Grows, TypeOK
<1>3. i \in 1 .. Len(log'[t]) /\ log'[t][i] = m
  BY <1>1, <1>2 DEF Grows
<1> QED BY <1>3

\* Every dead letter carries a message of its event topic: main consumers and
\* reprocessors only copy what they read.
LEMMA LettersStep == IInv /\ LettersPublished /\ [Next]_vars => LettersPublished'
<1> SUFFICES ASSUME IInv, LettersPublished, [Next]_vars PROVE LettersPublished'
  OBVIOUS
<1>1. TypeOK /\ OffsetsValid /\ Grows /\ TypeOK'
  BY StepGrows, TypeStep DEF IInv
<1>2. CASE dlq' = dlq
  BY <1>1, <1>2, PublishedStable DEF LettersPublished, IsPublished
<1>3. ASSUME NEW w \in Workers, SendToDlq(w) \/ Requeue(w)
      PROVE  LettersPublished'
  <2>1. PICK n \in Nat : dlq' = [dlq EXCEPT ![Topic(w)] =
                                    Append(@, [msg |-> InHand(w), retries |-> n])]
    BY <1>1, <1>3, InHandExists, DeadLetterAssumption DEF SendToDlq, Requeue
  <2>2. /\ Topic(w) \in Topics /\ InHand(w) \in Messages
        /\ IsPublished(Topic(w), InHand(w))
    BY <1>1, <1>3, InHandPublished, InHandExists, WorkersOf DEF SendToDlq, Requeue
  <2> SUFFICES ASSUME NEW t \in Topics, NEW i \in 1 .. Len(dlq'[t])
               PROVE  \E j \in 1 .. Len(log'[t]) : log'[t][j] = dlq'[t][i].msg
    BY DEF LettersPublished, IsPublished
  <2>3. [msg |-> InHand(w), retries |-> n] \in Letters /\ dlq[t] \in Seq(Letters)
    BY <1>1, <2>2 DEF Letters, TypeOK
  <2>4. CASE t # Topic(w)
    BY <1>1, <2>1, <2>4, PublishedStable DEF LettersPublished, TypeOK
  <2>5. CASE t = Topic(w)
    <3>1. dlq'[t] = Append(dlq[t], [msg |-> InHand(w), retries |-> n])
      BY <1>1, <2>1, <2>5 DEF TypeOK
    <3>2. CASE i \in 1 .. Len(dlq[t])
      <4>1. dlq'[t][i] = dlq[t][i]
        BY <2>3, <3>1, <3>2, AppendKeeps
      <4> QED BY <1>1, <3>2, <4>1, PublishedStable DEF LettersPublished
    <3>3. CASE i = Len(dlq[t]) + 1
      <4>1. dlq'[t][i].msg = InHand(w)
        BY <2>3, <3>1, <3>3, AppendKeeps
      <4> QED BY <1>1, <2>2, <2>5, <4>1, PublishedStable
    <3> QED BY <2>3, <3>1, <3>2, <3>3, AppendKeeps
  <2> QED BY <2>4, <2>5
<1>4. ASSUME NEW w \in Workers,
             Work(w) \/ CommitRaises(w) \/ DropSend(w) \/ Crash(w) \/ Restart(w)
      PROVE  dlq' = dlq \/ SendToDlq(w) \/ Requeue(w)
  BY <1>4 DEF Work, Receive, Handle, HandleRaises, Commit, Park, Settle, CommitRaises,
              DropSend, Crash, Restart
<1>5. ASSUME NEW t \in Topics, NEW m \in Messages, Publish(t, m)
      PROVE  dlq' = dlq
  BY <1>5 DEF Publish
<1>6. CASE UNCHANGED vars
  BY <1>2, <1>6 DEF vars
<1> QED BY <1>2, <1>3, <1>4, <1>5, <1>6 DEF Next

-----------------------------------------------------------------------------
(* The facts *)

\* A creation counts as handled only with its fact, a completion only with its fact
\* completed, or when it came too early.
HandledFacts ==
    /\ \A m \in handled[Created] : facts[m] # "none"
    /\ \A m \in handled[Completed] : facts[m] = "completed" \/ m \in early

FactsInv == FactsTypeOK /\ LettersPublished /\ FactsJustified /\ HandledFacts

\* How far a step may change the facts: a fact goes from none to active for a creation
\* that is published, and from there to completed for a completion that is.
FactMove ==
    /\ facts' \in [Messages -> {"none", "active", "completed"}] /\ early \subseteq early'
    /\ early' \in SUBSET Messages
    /\ \A m \in Messages :
          \/ facts'[m] = facts[m]
          \/ facts[m] = "none" /\ facts'[m] = "active" /\ IsPublished(TopicOf[Created], m)
          \/ /\ facts[m] # "none" /\ facts'[m] = "completed"
             /\ IsPublished(TopicOf[Completed], m)
    /\ \A m \in handled'[Created] \ handled[Created] : facts'[m] # "none"
    /\ \A m \in handled'[Completed] \ handled[Completed] :
          facts'[m] = "completed" \/ m \in early'

\* The two consumer groups are different, and their workers are workers of the system.
LEMMA Groups ==
    /\ Created \in Services /\ Completed \in Services /\ Created # Completed
    /\ TopicOf[Created] \in Topics /\ TopicOf[Completed] \in Topics
    /\ \A w \in Creators : /\ w \in Workers /\ Svc(w) = Created
                           /\ Topic(w) = TopicOf[Created]
    /\ \A w \in Completers : /\ w \in Workers /\ Svc(w) = Completed
                             /\ Topic(w) = TopicOf[Completed]
BY FactsAssumption, DeadLetterAssumption, WorkersOf DEF Creators, Completers

\* A worker's handling of the record in hand touches its own service's messages.
LEMMA HandlingEffect ==
    ASSUME TypeOK, OffsetsValid, NEW w \in Workers, Handle(w) \/ HandleRaises(w)
    PROVE  /\ phase[w] = "handle" /\ InHand(w) \in Messages
           /\ handled'[Svc(w)] \subseteq handled[Svc(w)] \cup {InHand(w)}
           /\ \A s \in Services : s # Svc(w) => handled'[s] = handled[s]
           /\ \A v \in Workers : v # w => phase'[v] = phase[v]
<1>1. phase[w] = "handle" /\ InHand(w) \in Messages /\ Svc(w) \in Services
  BY InHandExists, WorkersOf DEF Handle, HandleRaises
<1>2. /\ handled'[Svc(w)] \subseteq handled[Svc(w)] \cup {InHand(w)}
      /\ \A s \in Services : s # Svc(w) => handled'[s] = handled[s]
  BY <1>1 DEF Handle, HandleRaises, TypeOK
<1>3. \A v \in Workers : v # w => phase'[v] = phase[v]
  BY NextAttemptEffect DEF Handle, HandleRaises, TypeOK
<1> QED BY <1>1, <1>2, <1>3

\* What one step can do to the facts, to the ghost and to what counts as handled.
LEMMA FactsMove ==
    ASSUME IInv, FactsInv, [FactsNext]_factVars
    PROVE  FactMove
<1> USE DEF FactMove
<1>1. /\ TypeOK /\ OffsetsValid
      /\ facts \in [Messages -> {"none", "active", "completed"}]
      /\ early \in SUBSET Messages
  BY DEF IInv, FactsInv, FactsTypeOK
<1>2. CASE handled' = handled /\ UNCHANGED <<facts, early>>
  BY <1>1, <1>2
<1>3. ASSUME NEW w \in Workers, Delivery(w)
      PROVE  FactMove
  <2>1. CASE w \notin Creators \cup Completers /\ (Handle(w) \/ HandleRaises(w))
    <3>1. Svc(w) # Created /\ Svc(w) # Completed
      BY <2>1 DEF Creators, Completers
    <3>2. handled'[Created] = handled[Created] /\ handled'[Completed] = handled[Completed]
      BY <1>1, <2>1, <3>1, HandlingEffect, Groups
    <3> QED BY <1>1, <1>3, <3>2 DEF Delivery
  <2>2. CASE \/ Receive(w) \/ Commit(w) \/ SendToDlq(w) \/ Park(w) \/ Requeue(w)
             \/ Settle(w) \/ CommitRaises(w) \/ DropSend(w) \/ Restart(w)
    BY <1>2, <1>3, <2>2 DEF Delivery, Receive, Commit, SendToDlq, Park, Requeue, Settle,
                            CommitRaises, DropSend, Restart
  <2> QED BY <1>3, <2>1, <2>2 DEF Delivery
<1>4. ASSUME NEW w \in Creators, CreateLookUp(w)
      PROVE  FactMove
  <2>1. CASE UNCHANGED vars
    BY <1>2, <1>4, <2>1 DEF CreateLookUp, vars
  <2>2. CASE facts[InHand(w)] # "none" /\ Handle(w)
    BY <1>1, <1>4, <2>2, HandlingEffect, Groups DEF CreateLookUp
  <2> QED BY <1>4, <2>1, <2>2 DEF CreateLookUp
<1>5. ASSUME NEW w \in Creators, CreateInsert(w)
      PROVE  FactMove
  <2>1. Handle(w) \/ HandleRaises(w)
    BY <1>5 DEF CreateInsert
  <2>2. IsPublished(TopicOf[Created], InHand(w))
    BY <1>1, <2>1, InHandPublished, HandlingEffect, Groups DEF FactsInv
  <2> QED BY <1>1, <1>5, <2>1, <2>2, HandlingEffect, Groups DEF CreateInsert, SetFact
<1>6. ASSUME NEW w \in Creators \cup Completers, CreateConflicts(w) \/ FactRaises(w)
      PROVE  FactMove
  BY <1>2, <1>6 DEF CreateConflicts, FactRaises
<1>7. ASSUME NEW w \in Completers, Complete(w)
      PROVE  FactMove
  <2>1. Handle(w)
    BY <1>7 DEF Complete
  <2>2. IsPublished(TopicOf[Completed], InHand(w))
    BY <1>1, <2>1, InHandPublished, HandlingEffect, Groups DEF FactsInv
  <2> QED BY <1>1, <1>7, <2>1, <2>2, HandlingEffect, Groups DEF Complete, SetFact
<1>8. ASSUME NEW w \in Workers, FactsCrash(w)
      PROVE  FactMove
  BY <1>2, <1>8 DEF FactsCrash, Crash
<1>9. ASSUME NEW t \in Topics, NEW m \in Messages, Publish(t, m),
             UNCHANGED <<facts, absent, early>>
      PROVE  FactMove
  BY <1>2, <1>9 DEF Publish
<1>10. CASE UNCHANGED factVars
  BY <1>2, <1>10 DEF factVars, vars
<1> QED BY <1>3, <1>4, <1>5, <1>6, <1>7, <1>8, <1>9, <1>10 DEF FactsNext

\* A step of the analytics service inserts one fact, completes one, or leaves them alone.
LEMMA FactsChange ==
    ASSUME IInv, FactsInv, [FactsNext]_factVars, facts' # facts
    PROVE  \E m \in Messages :
              \/ facts[m] = "none" /\ facts' = [facts EXCEPT ![m] = "active"]
              \/ facts[m] = "active" /\ facts' = [facts EXCEPT ![m] = "completed"]
<1>1. TypeOK /\ OffsetsValid /\ facts \in [Messages -> {"none", "active", "completed"}]
  BY DEF IInv, FactsInv, FactsTypeOK
<1>2. \/ \E w \in Creators : CreateInsert(w)
      \/ \E w \in Completers : Complete(w)
  BY DEF FactsNext, Delivery, FactsCrash, CreateLookUp, CreateConflicts, FactRaises, factVars
<1>3. ASSUME NEW w \in Creators, CreateInsert(w)
      PROVE  InHand(w) \in Messages /\ facts[InHand(w)] = "none"
             /\ facts' = [facts EXCEPT ![InHand(w)] = "active"]
  <2>1. Handle(w) \/ HandleRaises(w)
    BY <1>3 DEF CreateInsert
  <2> QED BY <1>1, <1>3, <2>1, HandlingEffect, Groups DEF CreateInsert, SetFact
<1>4. ASSUME NEW w \in Completers, Complete(w)
      PROVE  InHand(w) \in Messages /\ facts[InHand(w)] # "none"
             /\ facts' = [facts EXCEPT ![InHand(w)] = "completed"]
  <2>1. Handle(w)
    BY <1>4 DEF Complete
  <2> QED BY <1>1, <1>4, <2>1, HandlingEffect, Groups DEF Complete, SetFact
<1>5. \A m \in Messages : facts[m] \in {"none", "active"} \/ facts[m] = "completed"
  BY <1>1
<1>6. \A m \in Messages : facts[m] = "completed" => [facts EXCEPT ![m] = "completed"] = facts
  BY <1>1
<1> QED BY <1>2, <1>3, <1>4, <1>5, <1>6

\* A lookup is under way only in a creator's handler.
LEMMA AbsentStep ==
    ASSUME IInv, FactsInv, [FactsNext]_factVars
    PROVE  /\ absent' \in [Workers -> BOOLEAN]
           /\ \A v \in Workers : absent'[v] => phase'[v] = "handle" /\ v \in Creators
<1>1. /\ TypeOK /\ OffsetsValid /\ absent \in [Workers -> BOOLEAN]
      /\ \A v \in Workers : absent[v] => phase[v] = "handle" /\ v \in Creators
  BY DEF IInv, FactsInv, FactsTypeOK
<1>2. CASE absent' = absent /\ phase' = phase
  BY <1>1, <1>2
<1>3. CASE absent' = absent /\ \A v \in Workers : phase[v] = "handle" => phase'[v] = "handle"
  BY <1>1, <1>3
<1>4. ASSUME NEW w \in Workers, Delivery(w)
      PROVE  absent' = absent /\ \A v \in Workers : absent[v] => phase'[v] = "handle"
  <2>1. CASE w \notin Creators \cup Completers /\ (Handle(w) \/ HandleRaises(w))
    BY <1>1, <1>4, <2>1, HandlingEffect DEF Delivery
  <2>2. CASE Receive(w) \/ Commit(w) \/ SendToDlq(w) \/ Park(w) \/ Requeue(w) \/ Settle(w)
    BY <1>1, <1>4, <2>2
       DEF Delivery, Receive, Commit, SendToDlq, Park, Requeue, Settle, TypeOK
  <2>3. CASE CommitRaises(w) \/ DropSend(w) \/ Restart(w)
    BY <1>1, <1>4, <2>3, NextAttemptEffect
       DEF Delivery, CommitRaises, DropSend, Restart, TypeOK
  <2> QED BY <1>4, <2>1, <2>2, <2>3 DEF Delivery
<1>5. ASSUME NEW w \in Creators, CreateLookUp(w)
      PROVE  /\ absent' \in [Workers -> BOOLEAN]
             /\ \A v \in Workers : absent'[v] => phase'[v] = "handle" /\ v \in Creators
  <2>1. CASE absent' = [absent EXCEPT ![w] = TRUE] /\ UNCHANGED vars
    BY <1>1, <1>5, <2>1, Groups DEF CreateLookUp, vars
  <2>2. CASE Handle(w) /\ UNCHANGED absent
    BY <1>1, <1>5, <2>2, HandlingEffect, Groups DEF CreateLookUp
  <2> QED BY <1>5, <2>1, <2>2 DEF CreateLookUp
<1>6. ASSUME NEW w \in Workers, Forget(w), \A v \in Workers : v # w => phase'[v] = phase[v]
      PROVE  /\ absent' \in [Workers -> BOOLEAN]
             /\ \A v \in Workers : absent'[v] => phase'[v] = "handle" /\ v \in Creators
  BY <1>1, <1>6 DEF Forget
<1>7. ASSUME NEW w \in Creators \cup Completers,
             CreateInsert(w) \/ CreateConflicts(w) \/ FactRaises(w)
      PROVE  Forget(w) /\ w \in Workers /\ \A v \in Workers : v # w => phase'[v] = phase[v]
  BY <1>1, <1>7, HandlingEffect, Groups DEF CreateInsert, CreateConflicts, FactRaises
<1>8. ASSUME NEW w \in Completers, Complete(w)
      PROVE  absent' = absent /\ \A v \in Workers : absent[v] => phase'[v] = "handle"
  BY <1>1, <1>8, HandlingEffect, Groups DEF Complete, Handle, Creators, Completers
<1>9. ASSUME NEW w \in Workers, FactsCrash(w)
      PROVE  Forget(w) /\ \A v \in Workers : v # w => phase'[v] = phase[v]
  BY <1>1, <1>9 DEF FactsCrash, Crash, TypeOK
<1>10. CASE UNCHANGED factVars \/ \E t \in Topics, m \in Messages :
                Publish(t, m) /\ UNCHANGED <<facts, absent, early>>
  BY <1>2, <1>10 DEF factVars, vars, Publish
<1> QED BY <1>1, <1>4, <1>5, <1>6, <1>7, <1>8, <1>9, <1>10 DEF FactsNext

\* The invariant of the facts holds before anything is consumed.
LEMMA FactsInvInit == FactsInit => FactsInv
BY DeadLetterAssumption, FactsAssumption
   DEF FactsInit, Init, FactsInv, FactsTypeOK, LettersPublished, FactsJustified, HandledFacts

\* Every step of the analytics service, delivery included, keeps the invariant.
LEMMA FactsInvStep == IInv /\ FactsInv /\ [FactsNext]_factVars => FactsInv'
<1> SUFFICES ASSUME IInv, FactsInv, [FactsNext]_factVars PROVE FactsInv'
  OBVIOUS
<1>1. FactMove /\ LettersPublished'
  BY FactsMove, FactsStepRefines, LettersStep DEF FactsInv
<1>2. FactsTypeOK'
  BY <1>1, AbsentStep DEF FactsTypeOK, FactMove, Creators, Svc, Workers
<1>3. TypeOK /\ TypeOK' /\ Grows
  BY FactsStepRefines, StepGrows, TypeStep DEF IInv
<1>4. \A s \in {Created, Completed}, m \in Messages :
         IsPublished(TopicOf[s], m) => \E j \in 1 .. Len(log'[TopicOf[s]]) :
                                          log'[TopicOf[s]][j] = m
  BY <1>3, PublishedStable, Groups
<1>5. FactsJustified'
  BY <1>1, <1>4 DEF FactsInv, FactsJustified, FactMove, IsPublished
<1>6. HandledFacts'
  <2>1. handled \in [Services -> SUBSET Messages] /\ handled' \in [Services -> SUBSET Messages]
    BY <1>3 DEF TypeOK
  <2> QED BY <1>1, <2>1, Groups DEF FactsInv, HandledFacts, FactMove
<1> QED BY <1>1, <1>2, <1>5, <1>6 DEF FactsInv

\* The inductive invariants of the delivery and of the facts hold throughout.
THEOREM FactsInvariance == FactsSpec => [](IInv /\ FactsInv)
<1>1. FactsSpec => []IInv
  BY AnalyticsImplementsDelivery, Invariance, PTL
<1> QED BY <1>1, FactsInvInit, FactsInvStep, PTL DEF FactsSpec

\* Facts are none, active or completed, and only a worker of the creations that is handling
\* one remembers that it found no fact.
THEOREM FactsTypes == FactsSpec => []FactsTypeOK
<1>1. FactsInv => FactsTypeOK
  BY DEF FactsInv
<1> QED BY <1>1, FactsInvariance, PTL

\* The analytics count nothing that was not published: however events are redelivered,
\* a fact stands on a creation, and a completed one on a completion as well.
THEOREM Justified == FactsSpec => []FactsJustified
<1>1. FactsInv => FactsJustified
  BY DEF FactsInv
<1> QED BY <1>1, FactsInvariance, PTL

\* Past the committed offsets of the two consumers the events are in the facts, or wait, are
\* parked or were dropped, but for the completions that came before their fact.
THEOREM Counted == FactsSpec => []EventsCounted
<1>1. IInv /\ FactsInv => EventsCounted
  <2> SUFFICES ASSUME IInv, FactsInv PROVE EventsCounted
    OBVIOUS
  <2>1. \A s \in {Created, Completed} : \A i \in 1 .. committed[<<s, "main">>] :
           LET m == log[TopicOf[s]][i] IN m \in handled[s] \/ Deferred(s, m)
    BY Groups DEF IInv, NothingVanishes, Accounted, AccountedBeyond, Pending, Deferred
  <2> QED BY <2>1 DEF FactsInv, HandledFacts, EventsCounted, CreatedAreCounted,
                      CompletionsCounted
<1> QED BY <1>1, FactsInvariance, PTL

\* A completed fact stays completed.
THEOREM FactStays == FactsSpec => CompletedFactStays
<1>1. IInv /\ FactsInv /\ [FactsNext]_factVars =>
         \A m \in Messages : facts[m] = "completed" => facts'[m] = "completed"
  BY FactsMove DEF FactMove
<1> QED BY <1>1, FactsInvariance, PTL DEF FactsSpec, CompletedFactStays

\* Both consumers have read to the end, nothing is parked, no send was dropped, and no
\* completion was handled before its enrollment had a fact.
Undisturbed ==
    /\ CaughtUp(Created) /\ CaughtUp(Completed) /\ early = {}
    /\ \A s \in {Created, Completed} : failed[TopicOf[s]] = {} /\ lost[s] = {}

\* The table is what the two topics say: a fact for each enrollment that was created, and
\* completed if the enrollment was.
TableIsTheStream ==
    Undisturbed =>
        \A m \in Messages :
            /\ facts[m] # "none" <=> IsPublished(TopicOf[Created], m)
            /\ facts[m] = "completed" <=> IsPublished(TopicOf[Completed], m)

\* Duplicates, redeliveries, dead letters and the order of the two topics leave no trace:
\* with everything read and nothing parked, dropped or early, table and topics agree.
THEOREM Converged == FactsSpec => []TableIsTheStream
<1>1. IInv /\ FactsInv => TableIsTheStream
  <2> SUFFICES ASSUME IInv, FactsInv, Undisturbed, NEW m \in Messages
               PROVE  /\ IsPublished(TopicOf[Created], m) => facts[m] # "none"
                      /\ IsPublished(TopicOf[Completed], m) => facts[m] = "completed"
    BY DEF FactsInv, FactsJustified, TableIsTheStream
  <2>1. ASSUME NEW s \in {Created, Completed}, IsPublished(TopicOf[s], m)
        PROVE  m \in handled[s]
    BY <2>1, CaughtUpDecides, FactsAssumption
       DEF AllDecided, Decided, Undisturbed, IsPublished
  <2> QED BY <2>1 DEF FactsInv, HandledFacts, Undisturbed
<1> QED BY <1>1, FactsInvariance, PTL

-----------------------------------------------------------------------------
(* What the reports read *)

\* One more element.
LEMMA OneMore ==
    ASSUME IsFiniteSet(Messages), NEW S \in SUBSET Messages, NEW m \in Messages \ S
    PROVE  /\ Cardinality(S) \in Nat /\ Cardinality(Messages) \in Nat
           /\ Cardinality(S \cup {m}) = Cardinality(S) + 1
           /\ Cardinality(S) < Cardinality(Messages)
<1>1. IsFiniteSet(S) /\ IsFiniteSet(S \cup {m})
  BY FS_Subset
<1>2. Cardinality(S \cup {m}) = Cardinality(S) + 1
  BY <1>1, FS_AddElement
<1>3. Cardinality(S \cup {m}) <= Cardinality(Messages)
  BY FS_Subset
<1>4. Cardinality(S) \in Nat /\ Cardinality(Messages) \in Nat
  BY <1>1, FS_CardinalityType
<1> QED BY <1>2, <1>3, <1>4

\* Whatever is redelivered, requeued or raced for, the four threads write the table as the
\* reports suppose: what is proved of their figures holds of the facts that this service has.
THEOREM FactsAreWrittenAsReported ==
    ASSUME IsFiniteSet(Messages)
    PROVE  FactsSpec => WritesAsReported
<1>1. ASSUME IInv, FactsInv, [FactsNext]_factVars, facts' # facts
      PROVE  Reports!EnrollmentCreated \/ Reports!EnrollmentCompleted
  <2>1. facts \in [Messages -> {"none", "active", "completed"}]
    BY <1>1 DEF FactsInv, FactsTypeOK
  <2>2. PICK m \in Messages :
            \/ facts[m] = "none" /\ facts' = [facts EXCEPT ![m] = "active"]
            \/ facts[m] = "active" /\ facts' = [facts EXCEPT ![m] = "completed"]
    BY <1>1, FactsChange
  <2>3. WithFact \in SUBSET Messages /\ WithCompleted \in SUBSET Messages
    BY DEF WithFact, WithCompleted
  <2>4. /\ Cardinality(WithFact) \in Nat /\ Cardinality(WithCompleted) \in Nat
        /\ Cardinality(Messages) \in Nat
        /\ Cardinality(WithFact) <= Cardinality(Messages)
        /\ Cardinality(WithCompleted) <= Cardinality(Messages)
    BY <2>3, FS_Subset, FS_CardinalityType
  <2>5. CASE facts[m] = "none" /\ facts' = [facts EXCEPT ![m] = "active"]
    <3>1. m \in Messages \ WithFact /\ WithFact' = WithFact \cup {m}
          /\ WithCompleted' = WithCompleted
      BY <2>1, <2>5 DEF WithFact, WithCompleted
    <3>2. FactTable' = [FactTable EXCEPT !.enrolled = @ \cup {m}]
      BY <3>1 DEF FactTable
    <3>3. /\ Cardinality(WithFact \cup {m}) = Cardinality(WithFact) + 1
          /\ Cardinality(WithFact) < Cardinality(Messages)
      BY <2>3, <3>1, OneMore
    <3>4. Commits' = Commits + 1 /\ Commits < 2 * Cardinality(Messages)
      BY <2>4, <3>1, <3>3 DEF Commits
    <3>5. Reports!Put([FactTable EXCEPT !.enrolled = @ \cup {m}])
      BY <3>2, <3>4 DEF Reports!Put
    <3>6. m \in Messages \ FactTable.enrolled
      BY <3>1 DEF FactTable
    <3> QED BY <3>5, <3>6 DEF Reports!EnrollmentCreated
  <2>6. CASE facts[m] = "active" /\ facts' = [facts EXCEPT ![m] = "completed"]
    <3>1. m \in WithFact \ WithCompleted /\ WithCompleted' = WithCompleted \cup {m}
          /\ WithFact' = WithFact
      BY <2>1, <2>6 DEF WithFact, WithCompleted
    <3>2. FactTable' = [FactTable EXCEPT !.completed = @ \cup {m}]
      BY <3>1 DEF FactTable
    <3>3. /\ Cardinality(WithCompleted \cup {m}) = Cardinality(WithCompleted) + 1
          /\ Cardinality(WithCompleted) < Cardinality(Messages)
      BY <2>3, <3>1, OneMore
    <3>4. Commits' = Commits + 1 /\ Commits < 2 * Cardinality(Messages)
      BY <2>4, <3>1, <3>3 DEF Commits
    <3>5. Reports!Put([FactTable EXCEPT !.completed = @ \cup {m}])
      BY <3>2, <3>4 DEF Reports!Put
    <3>6. m \in FactTable.enrolled \ FactTable.completed
      BY <3>1 DEF FactTable
    <3> QED BY <3>5, <3>6 DEF Reports!EnrollmentCompleted
  <2> QED BY <2>2, <2>5, <2>6
<1>2. IInv /\ FactsInv /\ [FactsNext]_factVars =>
          [Reports!EnrollmentCreated \/ Reports!EnrollmentCompleted]_facts
  BY <1>1
<1> QED BY <1>2, FactsInvariance, PTL DEF FactsSpec, WritesAsReported

=============================================================================
