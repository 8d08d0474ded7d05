-------------------------- MODULE DeadLetterProofs --------------------------
(***************************************************************************)
(* Proofs about DeadLetter, for any services, topics, messages, retry      *)
(* counts and number of faults:                                            *)
(*   - the state stays well typed and no offset passes the end of its log; *)
(*   - no message vanishes past a committed offset;                        *)
(*   - a requeued letter always has attempts left, and with the counts the *)
(*     services ship with nothing is ever requeued;                        *)
(*   - a record and a fault have finitely many dead letters each, however  *)
(*     many services share the topic.                                      *)
(***************************************************************************)
EXTENDS DeadLetter, FiniteSetTheorems, TLAPS

\* What a committed or settled worker relies on: its record is handled when it is
\* about to commit, and accounted for beyond the record itself when it is about to
\* settle a rejection.
CommitReady ==
    \A w \in Workers : phase[w] = "commit" => InHand(w) \in handled[Svc(w)]

SettleReady ==
    \A s \in Services :
        /\ phase[<<s, "main">>] = "settle" =>
              Accounted(s, InHand(<<s, "main">>))
        /\ phase[<<s, "dlq">>] = "settle" =>
              AccountedBeyond(s, InHand(<<s, "dlq">>), committed[<<s, "dlq">>] + 1)

\* Logs only get longer, and effects, parked records and dropped sends only accumulate.
Grows ==
    /\ \A t \in Topics :
          /\ Len(log[t]) <= Len(log'[t])
          /\ \A i \in 1 .. Len(log[t]) : log'[t][i] = log[t][i]
          /\ Len(dlq[t]) <= Len(dlq'[t])
          /\ \A i \in 1 .. Len(dlq[t]) : dlq'[t][i] = dlq[t][i]
          /\ failed[t] \subseteq failed'[t]
    /\ \A s \in Services :
          handled[s] \subseteq handled'[s] /\ lost[s] \subseteq lost'[s]

\* The rejected record of worker v is dropped, parked or the last dead letter.
Recorded(v) ==
    \/ InHand(v) \in lost'[Svc(v)]
    \/ \E p \in failed'[Topic(v)] : p.msg = InHand(v) /\ p.by = Svc(v)
    \/ /\ Len(dlq'[Topic(v)]) = Len(dlq[Topic(v)]) + 1
       /\ dlq'[Topic(v)][Len(dlq[Topic(v)]) + 1].msg = InHand(v)

\* How one step moves one worker.
Move(v) ==
    \/ committed'[v] = committed[v] /\ phase'[v] = phase[v]
    \/ committed'[v] = committed[v] /\ phase'[v] \in {"idle", "down"}
    \/ /\ committed'[v] = committed[v] /\ committed[v] < Backlog(v)
       /\ phase'[v] = "handle"
    \/ /\ committed'[v] = committed[v]
       /\ phase[v] \in {"handle", "commit"} /\ phase'[v] \in {"handle", "reject"}
    \/ /\ committed'[v] = committed[v]
       /\ phase[v] = "handle" /\ phase'[v] = "commit"
       /\ InHand(v) \in handled'[Svc(v)]
    \/ /\ committed'[v] = committed[v]
       /\ phase[v] = "reject" /\ phase'[v] = "settle"
       /\ Recorded(v)
    \/ /\ committed'[v] = committed[v] + 1
       /\ phase[v] \in {"commit", "settle"} /\ phase'[v] = "idle"

IInv == TypeOK /\ OffsetsValid /\ CommitReady /\ SettleReady /\ NothingVanishes

-----------------------------------------------------------------------------
\* Appending keeps what a sequence holds.
LEMMA AppendKeeps ==
    ASSUME NEW S, NEW q \in Seq(S), NEW e \in S
    PROVE  /\ Append(q, e) \in Seq(S)
           /\ Len(Append(q, e)) = Len(q) + 1
           /\ \A i \in 1 .. Len(q) : Append(q, e)[i] = q[i]
           /\ Append(q, e)[Len(q) + 1] = e
OBVIOUS

\* The workers of a service, and the service, role and topic of a worker.
LEMMA WorkersOf ==
    /\ \A s \in Services : /\ <<s, "main">> \in Workers /\ <<s, "dlq">> \in Workers
                           /\ Svc(<<s, "main">>) = s /\ Svc(<<s, "dlq">>) = s
                           /\ Topic(<<s, "main">>) = TopicOf[s]
                           /\ Topic(<<s, "dlq">>) = TopicOf[s]
    /\ \A w \in Workers : /\ Svc(w) \in Services /\ Topic(w) \in Topics
                          /\ Topic(w) = TopicOf[Svc(w)]
                          /\ w = <<Svc(w), "main">> \/ w = <<Svc(w), "dlq">>
BY DeadLetterAssumption DEF Workers, Roles, Svc, Topic

\* A worker that is busy holds a record that exists.
LEMMA InHandExists ==
    ASSUME TypeOK, OffsetsValid, NEW w \in Workers, phase[w] \notin {"idle", "down"}
    PROVE  /\ committed[w] + 1 \in 1 .. Backlog(w)
           /\ InHand(w) \in Messages
           /\ w[2] = "dlq" => AttemptNumber(w) \in Nat
<1>1. committed[w] + 1 \in 1 .. Backlog(w)
  BY DEF TypeOK, OffsetsValid, Backlog
<1>2. Topic(w) \in Topics
  BY WorkersOf
<1>3. CASE w[2] = "main"
  <2>1. Backlog(w) = Len(log[Topic(w)]) /\ InHand(w) = log[Topic(w)][committed[w] + 1]
    BY <1>3 DEF Backlog, InHand
  <2> QED BY <1>1, <1>2, <1>3, <2>1 DEF TypeOK
<1>4. CASE w[2] # "main"
  <2>1. /\ Backlog(w) = Len(dlq[Topic(w)])
        /\ InHand(w) = dlq[Topic(w)][committed[w] + 1].msg
    BY <1>4 DEF Backlog, InHand
  <2>2. dlq[Topic(w)][committed[w] + 1] \in Letters
    BY <1>1, <1>2, <2>1 DEF TypeOK
  <2> QED BY <1>1, <2>1, <2>2 DEF Letters, AttemptNumber
<1> QED BY <1>3, <1>4

-----------------------------------------------------------------------------
(* Types *)

\* The initial state is well typed.
LEMMA TypeInit == Init => TypeOK
BY DeadLetterAssumption DEF Init, TypeOK, Phases

\* The except branch moves its own worker only, to the next attempt or to rejection.
LEMMA NextAttemptEffect ==
    ASSUME TypeOK, NEW w \in Workers, NextAttempt(w)
    PROVE  /\ attempt' \in [Workers -> Nat]
           /\ \E p \in {"handle", "reject"} : phase' = [phase EXCEPT ![w] = p]
<1>1. CASE attempt[w] + 1 < Attempts(w)
  <2>1. /\ phase' = [phase EXCEPT ![w] = "handle"]
        /\ attempt' = [attempt EXCEPT ![w] = @ + 1]
    BY <1>1 DEF NextAttempt
  <2> QED BY <2>1 DEF TypeOK
<1>2. CASE ~ (attempt[w] + 1 < Attempts(w))
  BY <1>2 DEF NextAttempt, TypeOK
<1> QED BY <1>1, <1>2

\* Every step keeps the types.
LEMMA TypeStep ==
    ASSUME TypeOK, OffsetsValid, [Next]_vars
    PROVE  TypeOK'
<1> USE DEF TypeOK
<1>1. CASE UNCHANGED vars
  BY <1>1 DEF vars
<1>2. ASSUME NEW t \in Topics, NEW m \in Messages, Publish(t, m)
      PROVE  TypeOK'
  BY <1>2 DEF Publish
<1>3. ASSUME NEW w \in Workers,
             Work(w) \/ CommitRaises(w) \/ DropSend(w) \/ Crash(w) \/ Restart(w)
      PROVE  TypeOK'
  <2>1. /\ Svc(w) \in Services /\ Topic(w) \in Topics
    BY WorkersOf
  <2>2. ASSUME phase[w] \notin {"idle", "down"}
        PROVE  InHand(w) \in Messages /\ (w[2] = "dlq" => AttemptNumber(w) \in Nat)
    BY <2>2, InHandExists
  <2>3. CASE Receive(w)
    BY <2>3 DEF Receive, Phases
  <2>4. CASE Handle(w)
    BY <2>1, <2>2, <2>4 DEF Handle, Phases
  <2>5. CASE HandleRaises(w)
    <3>1. handled' \in [Services -> SUBSET Messages]
      BY <2>1, <2>2, <2>5 DEF HandleRaises
    <3>2. attempt' \in [Workers -> Nat] /\ phase' \in [Workers -> Phases]
      BY <2>5, NextAttemptEffect DEF HandleRaises, Phases
    <3> QED BY <2>5, <3>1, <3>2 DEF HandleRaises
  <2>6. CASE Commit(w)
    BY <2>6 DEF Commit, Phases
  <2>7. CASE Settle(w)
    BY <2>7 DEF Settle, Phases
  <2>8. CASE CommitRaises(w)
    <3>1. attempt' \in [Workers -> Nat] /\ phase' \in [Workers -> Phases]
      BY <2>8, NextAttemptEffect DEF CommitRaises, Phases
    <3> QED BY <2>8, <3>1, DeadLetterAssumption DEF CommitRaises, Fault
  <2>9. CASE SendToDlq(w)
    <3>1. [msg |-> InHand(w), retries |-> MaxRetries] \in Letters
      BY <2>2, <2>9, DeadLetterAssumption DEF SendToDlq, Letters
    <3> QED BY <2>1, <2>9, <3>1, AppendKeeps DEF SendToDlq, Phases
  <2>10. CASE Park(w)
    <3>1. [msg |-> InHand(w), by |-> Svc(w), retries |-> AttemptNumber(w)] \in Parked
      BY <2>1, <2>2, <2>10 DEF Park, Parked
    <3> QED BY <2>1, <2>10, <3>1 DEF Park, Phases
  <2>11. CASE Requeue(w)
    <3>1. [msg |-> InHand(w), retries |-> AttemptNumber(w)] \in Letters
      BY <2>2, <2>11 DEF Requeue, Letters
    <3> QED BY <2>1, <2>11, <3>1, AppendKeeps DEF Requeue, Phases
  <2>12. CASE DropSend(w)
    <3>1. lost' \in [Services -> SUBSET Messages]
      BY <2>1, <2>2, <2>12 DEF DropSend
    <3> QED BY <2>12, <3>1, DeadLetterAssumption DEF DropSend, Fault, Phases
  <2>13. CASE Crash(w)
    BY <2>13, DeadLetterAssumption DEF Crash, Fault, Phases
  <2>14. CASE Restart(w)
    BY <2>14 DEF Restart, Phases
  <2> QED BY <1>3, <2>3, <2>4, <2>5, <2>6, <2>7, <2>8, <2>9, <2>10, <2>11, <2>12,
             <2>13, <2>14 DEF Work
<1> QED BY <1>1, <1>2, <1>3 DEF Next

-----------------------------------------------------------------------------
(* What a step does to the logs and to each worker *)

\* Logs, dead letters, parked letters and effects are only ever added to.
LEMMA StepGrows ==
    ASSUME TypeOK, OffsetsValid, [Next]_vars
    PROVE  Grows
<1> USE DEF TypeOK, Grows
<1>1. CASE UNCHANGED vars
  BY <1>1 DEF vars
<1>2. ASSUME NEW t \in Topics, NEW m \in Messages, Publish(t, m)
      PROVE  Grows
  <2>1. \A u \in Topics : /\ Len(log[u]) <= Len(log'[u])
                          /\ \A i \in 1 .. Len(log[u]) : log'[u][i] = log[u][i]
    BY <1>2, AppendKeeps DEF Publish
  <2> QED BY <1>2, <2>1 DEF Publish
<1>3. ASSUME NEW w \in Workers,
             Work(w) \/ CommitRaises(w) \/ DropSend(w) \/ Crash(w) \/ Restart(w)
      PROVE  Grows
  <2>1. /\ Svc(w) \in Services /\ Topic(w) \in Topics
    BY WorkersOf
  <2>2. ASSUME phase[w] \notin {"idle", "down"}
        PROVE  InHand(w) \in Messages /\ (w[2] = "dlq" => AttemptNumber(w) \in Nat)
    BY <2>2, InHandExists
  <2>3. ASSUME NEW e \in Letters, dlq' = [dlq EXCEPT ![Topic(w)] = Append(@, e)]
        PROVE  \A u \in Topics : /\ Len(dlq[u]) <= Len(dlq'[u])
                                 /\ \A i \in 1 .. Len(dlq[u]) : dlq'[u][i] = dlq[u][i]
    BY <2>1, <2>3, AppendKeeps
  <2>4. CASE Receive(w)
    BY <2>4 DEF Receive
  <2>5. CASE Handle(w)
    BY <2>1, <2>5 DEF Handle
  <2>6. CASE HandleRaises(w)
    <3>1. \A s \in Services : handled[s] \subseteq handled'[s]
      BY <2>1, <2>6 DEF HandleRaises
    <3> QED BY <2>6, <3>1 DEF HandleRaises
  <2>7. CASE Commit(w) \/ CommitRaises(w) \/ Settle(w) \/ Crash(w) \/ Restart(w)
    BY <2>7 DEF Commit, CommitRaises, Settle, Crash, Restart
  <2>8. CASE SendToDlq(w)
    <3>1. [msg |-> InHand(w), retries |-> MaxRetries] \in Letters
      BY <2>2, <2>8, DeadLetterAssumption DEF SendToDlq, Letters
    <3> QED BY <2>3, <2>8, <3>1 DEF SendToDlq
  <2>9. CASE Requeue(w)
    <3>1. [msg |-> InHand(w), retries |-> AttemptNumber(w)] \in Letters
      BY <2>2, <2>9 DEF Requeue, Letters
    <3> QED BY <2>3, <2>9, <3>1 DEF Requeue
  <2>10. CASE Park(w)
    BY <2>1, <2>10 DEF Park
  <2>11. CASE DropSend(w)
    BY <2>1, <2>11 DEF DropSend
  <2> QED BY <1>3, <2>4, <2>5, <2>6, <2>7, <2>8, <2>9, <2>10, <2>11 DEF Work
<1> QED BY <1>1, <1>2, <1>3 DEF Next

\* A step moves a worker's offset by one, past a record it has dealt with, or not at all.
LEMMA StepMoves ==
    ASSUME TypeOK, OffsetsValid, [Next]_vars, NEW v \in Workers
    PROVE  Move(v)
<1> USE DEF Move
<1>1. CASE UNCHANGED vars
  BY <1>1 DEF vars
<1>2. ASSUME NEW t \in Topics, NEW m \in Messages, Publish(t, m)
      PROVE  Move(v)
  BY <1>2 DEF Publish
<1>3. ASSUME NEW w \in Workers,
             Work(w) \/ CommitRaises(w) \/ DropSend(w) \/ Crash(w) \/ Restart(w)
      PROVE  Move(v)
  <2>1. /\ Svc(w) \in Services /\ Topic(w) \in Topics
    BY WorkersOf
  <2>2. ASSUME phase[w] \notin {"idle", "down"}
        PROVE  InHand(w) \in Messages /\ (w[2] = "dlq" => AttemptNumber(w) \in Nat)
    BY <2>2, InHandExists
  <2>3. CASE Receive(w)
    BY <2>3 DEF Receive, TypeOK
  <2>4. CASE Handle(w)
    BY <2>1, <2>4 DEF Handle, TypeOK
  <2>5. CASE HandleRaises(w)
    BY <2>5, NextAttemptEffect DEF HandleRaises, TypeOK
  <2>6. CASE Commit(w)
    BY <2>6 DEF Commit, TypeOK
  <2>7. CASE CommitRaises(w)
    BY <2>7, NextAttemptEffect DEF CommitRaises, TypeOK
  <2>8. ASSUME NEW e \in Letters, dlq' = [dlq EXCEPT ![Topic(w)] = Append(@, e)],
               e.msg = InHand(w)
        PROVE  Recorded(w)
    BY <2>1, <2>8, AppendKeeps DEF Recorded, TypeOK
  <2>9. CASE SendToDlq(w)
    <3>1. [msg |-> InHand(w), retries |-> MaxRetries] \in Letters
      BY <2>2, <2>9, DeadLetterAssumption DEF SendToDlq, Letters
    <3>2. Recorded(w)
      BY <2>8, <2>9, <3>1 DEF SendToDlq
    <3> QED BY <2>9, <3>2 DEF SendToDlq, TypeOK
  <2>10. CASE Requeue(w)
    <3>1. [msg |-> InHand(w), retries |-> AttemptNumber(w)] \in Letters
      BY <2>2, <2>10 DEF Requeue, Letters
    <3>2. Recorded(w)
      BY <2>8, <2>10, <3>1 DEF Requeue
    <3> QED BY <2>10, <3>2 DEF Requeue, TypeOK
  <2>11. CASE Park(w)
    <3>1. Recorded(w)
      <4> DEFINE q == [msg |-> InHand(w), by |-> Svc(w), retries |-> AttemptNumber(w)]
      <4>1. q \in failed'[Topic(w)]
        BY <2>1, <2>11 DEF Park, TypeOK
      <4>2. q.msg = InHand(w) /\ q.by = Svc(w)
        OBVIOUS
      <4> QED BY <4>1, <4>2 DEF Recorded
    <3> QED BY <2>11, <3>1 DEF Park, TypeOK
  <2>12. CASE DropSend(w)
    <3>1. Recorded(w)
      BY <2>1, <2>12 DEF DropSend, Recorded, TypeOK
    <3> QED BY <2>12, <3>1 DEF DropSend, TypeOK
  <2>13. CASE Settle(w)
    BY <2>13 DEF Settle, TypeOK
  <2>14. CASE Crash(w)
    BY <2>14 DEF Crash, TypeOK
  <2>15. CASE Restart(w)
    BY <2>15 DEF Restart, TypeOK
  <2> QED BY <1>3, <2>3, <2>4, <2>5, <2>6, <2>7, <2>9, <2>10, <2>11, <2>12, <2>13,
             <2>14, <2>15 DEF Work
<1> QED BY <1>1, <1>2, <1>3 DEF Next

-----------------------------------------------------------------------------
(* Being accounted for is stable *)

\* What is accounted for beyond an offset stays so, whatever step is taken.
LEMMA BeyondStable ==
    ASSUME TypeOK, TypeOK', Grows, NEW s \in Services, NEW m, NEW o \in Nat,
           AccountedBeyond(s, m, o)
    PROVE  AccountedBeyond(s, m, o)'
<1>1. TopicOf[s] \in Topics
  BY DeadLetterAssumption
<1>2. CASE m \in handled[s] \/ m \in lost[s]
  BY <1>2 DEF Grows, AccountedBeyond
<1>3. CASE \E p \in failed[TopicOf[s]] : p.msg = m /\ p.by = s
  BY <1>1, <1>3 DEF Grows, AccountedBeyond
<1>4. CASE LetterBeyond(s, m, o)
  <2>1. PICK i \in 1 .. Len(dlq[TopicOf[s]]) : i > o /\ dlq[TopicOf[s]][i].msg = m
    BY <1>4 DEF LetterBeyond
  <2>2. i \in 1 .. Len(dlq'[TopicOf[s]]) /\ dlq'[TopicOf[s]][i].msg = m
    BY <1>1, <2>1 DEF Grows, TypeOK
  <2> QED BY <2>1, <2>2 DEF AccountedBeyond, LetterBeyond
<1> QED BY <1>2, <1>3, <1>4 DEF AccountedBeyond

\* The record in hand does not change while its offset stands.
LEMMA InHandStable ==
    ASSUME TypeOK, OffsetsValid, Grows, NEW w \in Workers,
           phase[w] \notin {"idle", "down"}, committed'[w] = committed[w]
    PROVE  InHand(w)' = InHand(w)
<1>1. committed[w] + 1 \in 1 .. Backlog(w) /\ Topic(w) \in Topics
  BY InHandExists, WorkersOf
<1> QED BY <1>1 DEF Backlog, InHand, Grows, Topic, TypeOK

\* A rejected record is accounted for after the step that records its rejection: a
\* requeued letter lies beyond the letter in hand.
LEMMA RecordedAccounts ==
    ASSUME TypeOK, TypeOK', OffsetsValid, NEW w \in Workers, Recorded(w),
           NEW m, m = InHand(w), NEW o \in Nat, o <= Len(dlq[Topic(w)])
    PROVE  AccountedBeyond(Svc(w), m, o)'
<1>1. Svc(w) \in Services /\ Topic(w) = TopicOf[Svc(w)] /\ Topic(w) \in Topics
  BY WorkersOf
<1>2. CASE m \in lost'[Svc(w)]
  BY <1>2 DEF AccountedBeyond
<1>3. CASE \E p \in failed'[Topic(w)] : p.msg = m /\ p.by = Svc(w)
  BY <1>1, <1>3 DEF AccountedBeyond
<1>4. CASE /\ Len(dlq'[Topic(w)]) = Len(dlq[Topic(w)]) + 1
           /\ dlq'[Topic(w)][Len(dlq[Topic(w)]) + 1].msg = m
  <2>1. Len(dlq[Topic(w)]) \in Nat
    BY <1>1 DEF TypeOK
  <2>2. PICK i \in Nat : i = Len(dlq[Topic(w)]) + 1
    BY <2>1
  <2>3. i \in 1 .. Len(dlq'[Topic(w)]) /\ i > o /\ dlq'[Topic(w)][i].msg = m
    BY <1>4, <2>1, <2>2
  <2> QED BY <1>1, <2>3 DEF AccountedBeyond, LetterBeyond
<1> QED BY <1>2, <1>3, <1>4 DEF Recorded

\* Committing a dead letter does not lose its message: the letter was handled, or
\* settled, and settling found the message accounted for beyond the letter.
LEMMA AccountedStable ==
    ASSUME IInv, TypeOK', Grows, NEW s \in Services, NEW m,
           Move(<<s, "dlq">>), Accounted(s, m)
    PROVE  Accounted(s, m)'
<1> DEFINE w == <<s, "dlq">>
<1>1. w \in Workers /\ Svc(w) = s /\ Topic(w) = TopicOf[s] /\ TopicOf[s] \in Topics
  BY WorkersOf
<1>2. TypeOK /\ TypeOK' /\ committed[w] \in Nat
  BY <1>1 DEF IInv, TypeOK
<1>3. CASE committed'[w] = committed[w]
  <2>1. PICK o \in Nat : o = committed[w]
    BY <1>2
  <2>2. AccountedBeyond(s, m, o)'
    BY <1>2, <2>1, BeyondStable DEF Accounted
  <2> QED BY <1>3, <2>1, <2>2 DEF Accounted
<1>4. CASE /\ committed'[w] = committed[w] + 1
           /\ phase[w] \in {"commit", "settle"}
  <2>1. PICK o \in Nat : o = committed[w] + 1
    BY <1>2
  <2>2. AccountedBeyond(s, m, o)
    <3>1. CASE LetterBeyond(s, m, committed[w])
      <4>1. PICK i \in 1 .. Len(dlq[TopicOf[s]]) :
                i > committed[w] /\ dlq[TopicOf[s]][i].msg = m
        BY <3>1 DEF LetterBeyond
      <4>2. CASE i > o
        BY <4>1, <4>2 DEF AccountedBeyond, LetterBeyond
      <4>3. CASE ~ (i > o)
        <5>1. i = committed[w] + 1
          BY <1>2, <2>1, <4>1, <4>3
        <5>2. m = InHand(w)
          BY <1>1, <4>1, <5>1 DEF InHand
        <5>3. CASE phase[w] = "commit"
          BY <1>1, <5>2, <5>3 DEF IInv, CommitReady, AccountedBeyond
        <5>4. CASE phase[w] = "settle"
          BY <2>1, <5>2, <5>4 DEF IInv, SettleReady
        <5> QED BY <1>4, <5>3, <5>4
      <4> QED BY <4>2, <4>3
    <3> QED BY <3>1 DEF Accounted, AccountedBeyond
  <2>3. AccountedBeyond(s, m, o)'
    BY <1>2, <2>2, BeyondStable
  <2> QED BY <1>4, <2>1, <2>3 DEF Accounted
<1> QED BY <1>3, <1>4 DEF Move

-----------------------------------------------------------------------------
(* The inductive invariant *)

\* The invariant holds while nothing is committed.
LEMMA InductiveInit == Init => IInv
<1> SUFFICES ASSUME Init PROVE IInv
  OBVIOUS
<1>1. TypeOK
  BY TypeInit
<1>2. OffsetsValid
  BY <1>1 DEF Init, OffsetsValid, Backlog, TypeOK
<1>3. \A w \in Workers : phase[w] = "idle" /\ committed[w] = 0
  BY DEF Init
<1>4. CommitReady /\ SettleReady
  BY <1>3, WorkersOf DEF CommitReady, SettleReady
<1>5. NothingVanishes
  <2>1. \A s \in Services : committed[<<s, "main">>] = 0
    BY <1>3, WorkersOf
  <2>2. 1 .. 0 = {}
    OBVIOUS
  <2> QED BY <2>1, <2>2 DEF NothingVanishes
<1> QED BY <1>1, <1>2, <1>4, <1>5 DEF IInv

\* Every step of the delivery keeps the invariant.
LEMMA InductiveStep == IInv /\ [Next]_vars => IInv'
<1> SUFFICES ASSUME IInv, [Next]_vars PROVE IInv'
  OBVIOUS
<1>1. TypeOK /\ OffsetsValid
  BY DEF IInv
<1>2. TypeOK'
  BY <1>1, TypeStep
<1>3. Grows
  BY <1>1, StepGrows
<1>4. \A v \in Workers : Move(v)
  BY <1>1, StepMoves
<1>5. \A v \in Workers : phase[v] \notin {"idle", "down"} /\ committed'[v] = committed[v]
          => InHand(v)' = InHand(v)
  BY <1>1, <1>3, InHandStable
<1>6. OffsetsValid'
  <2> SUFFICES ASSUME NEW v \in Workers
               PROVE  /\ committed'[v] <= Backlog(v)'
                      /\ phase'[v] \notin {"idle", "down"} => committed'[v] < Backlog(v)'
    BY DEF OffsetsValid
  <2>1. Backlog(v) \in Nat /\ Backlog(v)' \in Nat /\ Backlog(v) <= Backlog(v)'
    BY <1>1, <1>2, <1>3, WorkersOf DEF Backlog, Grows, TypeOK, Topic
  <2>2. committed[v] \in Nat /\ committed[v] <= Backlog(v)
    BY <1>1 DEF TypeOK, OffsetsValid
  <2>3. phase[v] \notin {"idle", "down"} => committed[v] < Backlog(v)
    BY <1>1 DEF OffsetsValid
  <2> QED BY <1>4, <2>1, <2>2, <2>3 DEF Move
<1>7. CommitReady'
  <2> SUFFICES ASSUME NEW v \in Workers, phase'[v] = "commit"
               PROVE  InHand(v)' \in handled'[Svc(v)]
    BY DEF CommitReady, Svc
  <2>1. CASE committed'[v] = committed[v] /\ phase[v] = "commit"
    BY <1>3, <1>5, <2>1, WorkersOf DEF IInv, CommitReady, Grows
  <2>2. CASE /\ committed'[v] = committed[v] /\ phase[v] = "handle"
             /\ InHand(v) \in handled'[Svc(v)]
    BY <1>5, <2>2
  <2> QED BY <1>4, <2>1, <2>2 DEF Move
<1>8. \A s \in Services : \A m : Accounted(s, m) => Accounted(s, m)'
  BY <1>2, <1>3, <1>4, AccountedStable, WorkersOf
<1>9. SettleReady'
  <2> SUFFICES ASSUME NEW s \in Services
               PROVE  /\ phase'[<<s, "main">>] = "settle" =>
                            Accounted(s, InHand(<<s, "main">>))'
                      /\ phase'[<<s, "dlq">>] = "settle" =>
                            AccountedBeyond(s, InHand(<<s, "dlq">>),
                                            committed[<<s, "dlq">>] + 1)'
    BY DEF SettleReady
  <2>1. ASSUME phase'[<<s, "main">>] = "settle"
        PROVE  Accounted(s, InHand(<<s, "main">>))'
    <3> DEFINE v == <<s, "main">>
    <3>1. v \in Workers /\ Svc(v) = s /\ Topic(v) = TopicOf[s]
      BY WorkersOf
    <3>2. PICK m : m = InHand(v)
      OBVIOUS
    <3>3. /\ committed'[v] = committed[v]
          /\ phase[v] = "settle" \/ (phase[v] = "reject" /\ Recorded(v))
      BY <1>4, <2>1, <3>1 DEF Move
    <3>4. InHand(v)' = m
      BY <1>5, <3>1, <3>2, <3>3
    <3>5. CASE phase[v] = "settle"
      <4>1. Accounted(s, m)
        BY <3>2, <3>5 DEF IInv, SettleReady
      <4> QED BY <1>8, <3>4, <4>1
    <3>6. CASE phase[v] = "reject" /\ Recorded(v)
      <4> DEFINE d == <<s, "dlq">>
      <4>1. d \in Workers /\ Topic(d) = Topic(v)
        BY <3>1, WorkersOf
      <4>2. CASE committed'[d] = committed[d]
        <5>1. PICK o \in Nat : o = committed[d]
          BY <1>1, <4>1 DEF TypeOK
        <5>2. o <= Len(dlq[Topic(v)])
          BY <1>1, <4>1, <5>1 DEF OffsetsValid, Backlog
        <5>3. AccountedBeyond(s, m, o)'
          BY <1>1, <1>2, <3>1, <3>2, <3>6, <5>2, RecordedAccounts
        <5> QED BY <3>4, <4>2, <5>1, <5>3 DEF Accounted
      <4>3. CASE committed'[d] = committed[d] + 1 /\ phase[d] \in {"commit", "settle"}
        <5>1. PICK o \in Nat : o = committed[d] + 1
          BY <1>1, <4>1 DEF TypeOK
        <5>2. o <= Len(dlq[Topic(v)])
          BY <1>1, <4>1, <4>3, <5>1, InHandExists DEF Backlog
        <5>3. AccountedBeyond(s, m, o)'
          BY <1>1, <1>2, <3>1, <3>2, <3>6, <5>2, RecordedAccounts
        <5> QED BY <3>4, <4>3, <5>1, <5>3 DEF Accounted
      <4> QED BY <1>4, <4>1, <4>2, <4>3 DEF Move
    <3> QED BY <3>3, <3>5, <3>6
  <2>2. ASSUME phase'[<<s, "dlq">>] = "settle"
        PROVE  AccountedBeyond(s, InHand(<<s, "dlq">>), committed[<<s, "dlq">>] + 1)'
    <3> DEFINE v == <<s, "dlq">>
    <3>1. v \in Workers /\ Svc(v) = s /\ Topic(v) = TopicOf[s]
      BY WorkersOf
    <3>2. PICK m : m = InHand(v)
      OBVIOUS
    <3>3. /\ committed'[v] = committed[v]
          /\ phase[v] = "settle" \/ (phase[v] = "reject" /\ Recorded(v))
      BY <1>4, <2>2, <3>1 DEF Move
    <3>4. InHand(v)' = m
      BY <1>5, <3>1, <3>2, <3>3
    <3>5. PICK o \in Nat : o = committed[v] + 1
      BY <1>1, <3>1 DEF TypeOK
    <3>6. AccountedBeyond(s, m, o)'
      <4>1. CASE phase[v] = "settle"
        <5>1. AccountedBeyond(s, m, o)
          BY <3>2, <3>5, <4>1 DEF IInv, SettleReady
        <5> QED BY <1>1, <1>2, <1>3, <5>1, BeyondStable
      <4>2. CASE phase[v] = "reject" /\ Recorded(v)
        <5>1. o <= Len(dlq[Topic(v)])
          BY <1>1, <3>1, <3>5, <4>2, InHandExists DEF Backlog
        <5> QED BY <1>1, <1>2, <3>1, <3>2, <4>2, <5>1, RecordedAccounts
      <4> QED BY <3>3, <4>1, <4>2
    <3> QED BY <3>3, <3>4, <3>5, <3>6
  <2> QED BY <2>1, <2>2
<1>10. NothingVanishes'
  <2> SUFFICES ASSUME NEW s \in Services, NEW i \in 1 .. committed'[<<s, "main">>]
               PROVE  Accounted(s, log[TopicOf[s]][i])'
    BY DEF NothingVanishes
  <2> DEFINE v == <<s, "main">>
  <2>1. /\ v \in Workers /\ Svc(v) = s /\ Topic(v) = TopicOf[s] /\ TopicOf[s] \in Topics
        /\ Backlog(v) = Len(log[TopicOf[s]]) /\ committed[v] \in Nat
    BY <1>1, WorkersOf DEF Backlog, TypeOK
  <2>2. PICK m : m = log[TopicOf[s]][i]
    OBVIOUS
  <2>3. CASE i \in 1 .. committed[v]
    <3>1. Accounted(s, m)
      BY <2>2, <2>3 DEF IInv, NothingVanishes
    <3>2. i \in 1 .. Len(log[TopicOf[s]])
      BY <1>1, <2>1, <2>3 DEF OffsetsValid, TypeOK
    <3>3. log'[TopicOf[s]][i] = m
      BY <1>3, <2>1, <2>2, <3>2 DEF Grows
    <3> QED BY <1>8, <3>1, <3>3
  <2>4. CASE i \notin 1 .. committed[v]
    <3>1. /\ committed'[v] = committed[v] + 1 /\ i = committed[v] + 1
          /\ phase[v] \in {"commit", "settle"}
      BY <1>4, <2>1, <2>4 DEF Move
    <3>2. m = InHand(v)
      BY <2>1, <2>2, <3>1 DEF InHand
    <3>3. Accounted(s, m)
      BY <2>1, <3>1, <3>2 DEF IInv, CommitReady, SettleReady, Accounted, AccountedBeyond
    <3>4. i \in 1 .. Len(log[TopicOf[s]])
      BY <1>1, <2>1, <3>1, InHandExists
    <3>5. log'[TopicOf[s]][i] = m
      BY <1>3, <2>1, <2>2, <3>4 DEF Grows
    <3> QED BY <1>8, <3>3, <3>5
  <2> QED BY <2>3, <2>4
<1> QED BY <1>2, <1>6, <1>7, <1>9, <1>10 DEF IInv

\* The inductive invariant holds in every reachable state.
THEOREM Invariance == Spec => []IInv
BY InductiveInit, InductiveStep, PTL DEF Spec

\* The state stays well typed and every offset points into its log.
THEOREM TypeCorrect == Spec => [](TypeOK /\ OffsetsValid)
<1>1. IInv => TypeOK /\ OffsetsValid
  BY DEF IInv
<1> QED BY <1>1, Invariance, PTL

\* No message vanishes past a committed offset, whatever the retry counts, the number
\* of services on a topic, the crashes and the redeliveries.
THEOREM NoMessageVanishes == Spec => []NothingVanishes
<1>1. IInv => NothingVanishes
  BY DEF IInv
<1> QED BY <1>1, Invariance, PTL

-----------------------------------------------------------------------------
(* Read to the end *)

\* The consumer and the reprocessor of service s have read all there is.
CaughtUp(s) == \A r \in Roles : committed[<<s, r>>] = Backlog(<<s, r>>)

\* What has become of message m at service s, when nothing waits: it is handled, an operator
\* has it, or a send of it was dropped.
Decided(s, m) ==
    \/ m \in handled[s]
    \/ \E p \in failed[TopicOf[s]] : p.msg = m /\ p.by = s
    \/ m \in lost[s]

\* A service that has read to the end has decided about every record of its topic.
AllDecided ==
    \A s \in Services : CaughtUp(s) =>
        \A i \in 1 .. Len(log[TopicOf[s]]) : Decided(s, log[TopicOf[s]][i])

\* NothingVanishes with no letter left to wait for.
LEMMA CaughtUpDecides == IInv => AllDecided
<1> SUFFICES ASSUME IInv, NEW s \in Services, CaughtUp(s),
                    NEW i \in 1 .. Len(log[TopicOf[s]])
             PROVE  Decided(s, log[TopicOf[s]][i])
  BY DEF AllDecided
<1> DEFINE m == log[TopicOf[s]][i]
<1>1. /\ committed[<<s, "main">>] = Len(log[TopicOf[s]])
      /\ committed[<<s, "dlq">>] = Len(dlq[TopicOf[s]])
  BY DEF CaughtUp, Roles, Backlog, Topic
<1>2. Len(dlq[TopicOf[s]]) \in Nat
  BY DeadLetterAssumption DEF IInv, TypeOK
<1>3. Accounted(s, m)
  BY <1>1 DEF IInv, NothingVanishes
<1>4. ~ LetterBeyond(s, m, Len(dlq[TopicOf[s]]))
  BY <1>2 DEF LetterBeyond
<1> QED BY <1>1, <1>3, <1>4 DEF Accounted, AccountedBeyond, Decided

\* Whatever was retried, requeued and shared among services on the way: a service that has
\* read its topic and its dead letters to the end has no message that it neither handled nor
\* parked, unless a send was dropped.
THEOREM ReadToTheEnd == Spec => []AllDecided
BY Invariance, CaughtUpDecides, PTL

-----------------------------------------------------------------------------
(* Retry counts *)

\* A requeued letter has one more attempt behind it than the letter it replaces, and
\* is requeued only while that is below MaxDlqAttempts.
LEMMA RetryCountStep == IInv /\ RetryCountBounded /\ [Next]_vars => RetryCountBounded'
<1> SUFFICES ASSUME IInv, RetryCountBounded, [Next]_vars PROVE RetryCountBounded'
  OBVIOUS
<1>1. TypeOK /\ OffsetsValid
  BY DEF IInv
<1>2. ASSUME NEW w \in Workers, NEW e \in Letters,
             dlq' = [dlq EXCEPT ![Topic(w)] = Append(@, e)],
             e.retries = MaxRetries \/ e.retries \in MaxRetries + 1 .. MaxDlqAttempts - 1
      PROVE  RetryCountBounded'
  <2> SUFFICES ASSUME NEW t \in Topics, NEW i \in 1 .. Len(dlq'[t])
               PROVE  \/ dlq'[t][i].retries = MaxRetries
                      \/ dlq'[t][i].retries \in MaxRetries + 1 .. MaxDlqAttempts - 1
    BY DEF RetryCountBounded
  <2>1. dlq[t] \in Seq(Letters) /\ Topic(w) \in Topics
    BY <1>1, WorkersOf DEF TypeOK
  <2>2. CASE t # Topic(w) \/ i \in 1 .. Len(dlq[t])
    <3>1. i \in 1 .. Len(dlq[t]) /\ dlq'[t][i] = dlq[t][i]
      BY <1>1, <1>2, <2>1, <2>2, AppendKeeps DEF TypeOK
    <3> QED BY <3>1 DEF RetryCountBounded
  <2>3. CASE t = Topic(w) /\ i \notin 1 .. Len(dlq[t])
    <3>1. dlq'[t][i] = e
      BY <1>1, <1>2, <2>1, <2>3, AppendKeeps DEF TypeOK
    <3> QED BY <1>2, <3>1
  <2> QED BY <2>2, <2>3
<1>3. CASE UNCHANGED dlq
  BY <1>3 DEF RetryCountBounded
<1>4. ASSUME NEW w \in Workers, SendToDlq(w)
      PROVE  RetryCountBounded'
  <2>1. [msg |-> InHand(w), retries |-> MaxRetries] \in Letters
    BY <1>1, <1>4, InHandExists, DeadLetterAssumption DEF SendToDlq, Letters
  <2> QED BY <1>2, <1>4, <2>1 DEF SendToDlq
<1>5. ASSUME NEW w \in Workers, Requeue(w)
      PROVE  RetryCountBounded'
  <2>1. /\ committed[w] + 1 \in 1 .. Backlog(w) /\ InHand(w) \in Messages
        /\ AttemptNumber(w) \in Nat /\ Topic(w) \in Topics
    BY <1>1, <1>5, InHandExists, WorkersOf DEF Requeue
  <2>2. committed[w] + 1 \in 1 .. Len(dlq[Topic(w)])
    BY <1>5, <2>1 DEF Requeue, Backlog
  <2>3. AttemptNumber(w) \in MaxRetries + 1 .. MaxDlqAttempts - 1
    <3> DEFINE r == dlq[Topic(w)][committed[w] + 1].retries
    <3>1. r = MaxRetries \/ r \in MaxRetries + 1 .. MaxDlqAttempts - 1
      BY <2>1, <2>2 DEF RetryCountBounded
    <3>2. AttemptNumber(w) = r + 1
      BY DEF AttemptNumber
    <3>3. AttemptNumber(w) < MaxDlqAttempts
      BY <1>5 DEF Requeue
    <3> HIDE DEF r
    <3> QED BY <3>1, <3>2, <3>3, DeadLetterAssumption
  <2>4. [msg |-> InHand(w), retries |-> AttemptNumber(w)] \in Letters
    BY <2>1 DEF Letters
  <2> QED BY <1>2, <1>5, <2>3, <2>4 DEF Requeue
<1>6. CASE UNCHANGED vars
  BY <1>3, <1>6 DEF vars
<1>7. ASSUME NEW t \in Topics, NEW m \in Messages, Publish(t, m)
      PROVE  RetryCountBounded'
  BY <1>3, <1>7 DEF Publish
<1>8. ASSUME NEW w \in Workers,
             \/ Receive(w) \/ Handle(w) \/ HandleRaises(w) \/ Commit(w) \/ Park(w)
             \/ Settle(w) \/ CommitRaises(w) \/ DropSend(w) \/ Crash(w) \/ Restart(w)
      PROVE  RetryCountBounded'
  <2>1. UNCHANGED dlq
    BY <1>8 DEF Receive, Handle, HandleRaises, Commit, Park, Settle, CommitRaises,
                DropSend, Crash, Restart
  <2> QED BY <1>3, <2>1
<1> QED BY <1>4, <1>5, <1>6, <1>7, <1>8 DEF Next, Work

\* Every dead letter carries the first count, or one that has attempts left.
THEOREM RetryCounts == Spec => []RetryCountBounded
<1>1. Init => RetryCountBounded
  BY DEF Init, RetryCountBounded
<1> QED BY <1>1, RetryCountStep, Invariance, PTL DEF Spec

\* With the counts the services ship with (three tries, then DLQ_MAX_ATTEMPTS = 3), and
\* with any where MaxDlqAttempts <= MaxRetries + 1, no reprocessor ever requeues: every
\* letter on a dead-letter topic comes from a main consumer.
THEOREM ShippedCountsNeverRequeue ==
    ASSUME MaxDlqAttempts <= MaxRetries + 1
    PROVE  Spec => [](\A t \in Topics : \A i \in 1 .. Len(dlq[t]) :
                          dlq[t][i].retries = MaxRetries)
<1>1. RetryCountBounded => \A t \in Topics : \A i \in 1 .. Len(dlq[t]) :
                              dlq[t][i].retries = MaxRetries
  BY DeadLetterAssumption DEF RetryCountBounded
<1> QED BY <1>1, RetryCounts, PTL

-----------------------------------------------------------------------------
(* How many letters there are *)

\* Natural numbers by induction, for a set: whatever contains 0 and, with a number, the
\* next one, contains them all.
LEMMA NatInduct ==
    ASSUME NEW S, 0 \in S, \A n \in Nat : n \in S => n + 1 \in S
    PROVE  Nat \subseteq S
<1> DEFINE T == Nat \ S
<1> SUFFICES ASSUME T # {} PROVE FALSE
  OBVIOUS
<1>1. PICK x \in T : \A y \in T : ~ (<<y, x>> \in OpToRel(<, Nat))
  <2>1. T \subseteq Nat
    OBVIOUS
  <2> HIDE DEF T
  <2> QED BY <2>1, NatLessThanWellFounded, WFMin, Zenon
<1>2. x \in Nat /\ x # 0
  OBVIOUS
<1>3. x - 1 \in T
  BY <1>2
<1>4. <<x - 1, x>> \in OpToRel(<, Nat)
  BY <1>2, <1>3 DEF OpToRel
<1> QED BY <1>1, <1>3, <1>4

\* A chain of one service is that service.
LEMMA ShortestChains ==
    ASSUME NEW S, IsFiniteSet(S)
    PROVE  IsFiniteSet([0 .. 0 -> S]) /\ Cardinality([0 .. 0 -> S]) = Cardinality(S)
<1> DEFINE f == [x \in S |-> [i \in 0 .. 0 |-> x]]
<1>1. f \in Bijection(S, [0 .. 0 -> S])
  <2>1. f \in [S -> [0 .. 0 -> S]]
    OBVIOUS
  <2>2. \A x, y \in S : f[x] = f[y] => x = y
    <3> SUFFICES ASSUME NEW x \in S, NEW y \in S, f[x] = f[y] PROVE x = y
      OBVIOUS
    <3>1. f[x][0] = x /\ f[y][0] = y
      OBVIOUS
    <3> HIDE DEF f
    <3> QED BY <3>1
  <2>3. \A g \in [0 .. 0 -> S] : \E x \in S : f[x] = g
    <3> SUFFICES ASSUME NEW g \in [0 .. 0 -> S] PROVE f[g[0]] = g /\ g[0] \in S
      BY Zenon
    <3> QED OBVIOUS
  <2> HIDE DEF f
  <2> QED BY <2>1, <2>2, <2>3 DEF Bijection, Injection, IsInjective, Surjection
<1>2. ExistsBijection(S, [0 .. 0 -> S])
  BY <1>1 DEF ExistsBijection
<1> QED BY <1>2, FS_Bijection

\* A longer chain is one service and a chain.
LEMMA LongerChains ==
    ASSUME NEW S, IsFiniteSet(S), NEW n \in Nat, IsFiniteSet([0 .. n -> S])
    PROVE  /\ IsFiniteSet([0 .. n + 1 -> S])
           /\ Cardinality([0 .. n + 1 -> S]) = Cardinality(S) * Cardinality([0 .. n -> S])
<1> DEFINE P == S \X [0 .. n -> S]
           f == [x \in P |-> [i \in 0 .. n + 1 |-> IF i = n + 1 THEN x[1] ELSE x[2][i]]]
<1>1. f \in Bijection(P, [0 .. n + 1 -> S])
  <2>1. f \in [P -> [0 .. n + 1 -> S]]
    OBVIOUS
  <2>2. \A x, y \in P : f[x] = f[y] => x = y
    <3> SUFFICES ASSUME NEW x \in P, NEW y \in P, f[x] = f[y] PROVE x = y
      OBVIOUS
    <3>1. f[x][n + 1] = x[1] /\ f[y][n + 1] = y[1]
      OBVIOUS
    <3>2. \A i \in 0 .. n : f[x][i] = x[2][i] /\ f[y][i] = y[2][i]
      OBVIOUS
    <3>3. \A i \in 0 .. n : x[2][i] = y[2][i]
      <4> HIDE DEF f
      <4> QED BY <3>2
    <3>4. x[1] = y[1]
      <4> HIDE DEF f
      <4> QED BY <3>1
    <3>5. x[2] = y[2]
      BY <3>3
    <3> QED BY <3>4, <3>5
  <2>3. \A g \in [0 .. n + 1 -> S] : \E x \in P : f[x] = g
    <3> SUFFICES ASSUME NEW g \in [0 .. n + 1 -> S] PROVE \E x \in P : f[x] = g
      OBVIOUS
    <3> DEFINE h == <<g[n + 1], [i \in 0 .. n |-> g[i]]>>
    <3>1. h \in P
      OBVIOUS
    <3>2. \A i \in 0 .. n + 1 : f[h][i] = g[i]
      BY <3>1
    <3>3. f[h] = g
      BY <2>1, <3>1, <3>2
    <3> QED BY <3>1, <3>3
  <2> HIDE DEF f, P
  <2> QED BY <2>1, <2>2, <2>3 DEF Bijection, Injection, IsInjective, Surjection
<1>2. ExistsBijection(P, [0 .. n + 1 -> S])
  BY <1>1 DEF ExistsBijection
<1>3. IsFiniteSet(P) /\ Cardinality(P) = Cardinality(S) * Cardinality([0 .. n -> S])
  BY FS_Product
<1> QED BY <1>2, <1>3, FS_Bijection

\* There are k times as many chains of n + 2 services as of n + 1, k being their number.
LEMMA ChainsCount ==
    ASSUME IsFiniteSet(Services), NEW t \in Topics
    PROVE  /\ IsFiniteSet(Sharers(t)) /\ Cardinality(Sharers(t)) \in Nat
           /\ Cardinality(Chains(t, 0)) = Cardinality(Sharers(t))
           /\ \A n \in Nat : /\ Cardinality(Chains(t, n)) \in Nat
                             /\ Cardinality(Chains(t, n + 1)) =
                                    Cardinality(Sharers(t)) * Cardinality(Chains(t, n))
<1> DEFINE S == Sharers(t)
<1>1. IsFiniteSet(S)
  BY FS_Subset DEF Sharers
<1> HIDE DEF S
<1> DEFINE F == {n \in Nat : IsFiniteSet([0 .. n -> S])}
<1>2. Nat \subseteq F
  <2>1. 0 \in F
    BY <1>1, ShortestChains
  <2>2. \A n \in Nat : n \in F => n + 1 \in F
    BY <1>1, LongerChains
  <2> HIDE DEF F
  <2> QED BY <2>1, <2>2, NatInduct
<1>3. \A n \in Nat : IsFiniteSet([0 .. n -> S])
  BY <1>2
<1> QED BY <1>1, <1>3, ShortestChains, LongerChains, FS_CardinalityType DEF S, Chains

\* What a letter of generation n is made from: a record, or a letter of the generation
\* before it; and the worker that makes it.
Role(n) == IF n = 0 THEN "main" ELSE "dlq"
Carriers(t, m, n) == IF n = 0 THEN RecordsOf(t, m) ELSE LettersOf(t, m, n - 1)

\* Worker w is done with record i but for the commit.
Spent(w, i) == i <= committed[w] \/ (i = committed[w] + 1 /\ phase[w] = "settle")

\* Each service with each carrier that it is done with.
Passed(t, m, n) == {x \in Sharers(t) \X Carriers(t, m, n) : Spent(<<x[1], Role(n)>>, x[2])}

\* The faults, added up by the generation of letters that each one repeats.  There are no
\* more letters of a generation than carriers passed, and faults of that generation.
Charges(t) == {c \in [Nat -> Nat] :
    \A n \in Nat : /\ c[n] <= c[n + 1]
                   /\ c[n] <= IF Sharers(t) = {} THEN 0 ELSE faults}

Surplus(t, m, n) == Cardinality(LettersOf(t, m, n)) - Cardinality(Passed(t, m, n))

Charged(t, m) ==
    \E c \in Charges(t) :
        /\ Surplus(t, m, 0) <= c[0]
        /\ \A n \in Nat : Surplus(t, m, n + 1) <= c[n + 1] - c[n]

\* Worker w is stopped between the send of a rejected record and its commit.
Slips(w) == phase[w] = "settle" /\ phase'[w] = "down"

\* All these sets are finite.
LEMMA CountsFinite ==
    ASSUME IsFiniteSet(Services), TypeOK, NEW t \in Topics, NEW m, NEW n \in Nat
    PROVE  /\ IsFiniteSet(RecordsOf(t, m)) /\ Cardinality(RecordsOf(t, m)) \in Nat
           /\ IsFiniteSet(LettersOf(t, m, n)) /\ Cardinality(LettersOf(t, m, n)) \in Nat
           /\ IsFiniteSet(Passed(t, m, n)) /\ Cardinality(Passed(t, m, n)) \in Nat
           /\ Cardinality(Passed(t, m, n)) <=
                  Cardinality(Sharers(t)) * Cardinality(Carriers(t, m, n))
<1>1. IsFiniteSet(RecordsOf(t, m))
  <2>1. IsFiniteSet(1 .. Len(log[t]))
    BY FS_Interval DEF TypeOK
  <2> QED BY <2>1, FS_Subset DEF RecordsOf
<1>2. \A k \in Nat : IsFiniteSet(LettersOf(t, m, k))
  <2>1. IsFiniteSet(1 .. Len(dlq[t]))
    BY FS_Interval DEF TypeOK
  <2> QED BY <2>1, FS_Subset DEF LettersOf
<1>3. IsFiniteSet(Carriers(t, m, n))
  BY <1>1, <1>2 DEF Carriers
<1> DEFINE P == Sharers(t) \X Carriers(t, m, n)
<1>4. /\ IsFiniteSet(P)
      /\ Cardinality(P) = Cardinality(Sharers(t)) * Cardinality(Carriers(t, m, n))
  BY <1>3, ChainsCount, FS_Product
<1>5. Passed(t, m, n) \in SUBSET P
  BY DEF Passed
<1> HIDE DEF P
<1>6. IsFiniteSet(Passed(t, m, n)) /\ Cardinality(Passed(t, m, n)) <= Cardinality(P)
  BY <1>4, <1>5, FS_Subset
<1> QED BY <1>1, <1>2, <1>4, <1>6, FS_CardinalityType

\* Being done with a record is stable, but for a worker that slips.
LEMMA SpentStable ==
    ASSUME TypeOK, TypeOK', NEW w \in Workers, Move(w), ~ Slips(w),
           phase[w] = "settle" =>
               phase'[w] \in {"settle", "down"} \/ committed'[w] = committed[w] + 1,
           NEW i \in Nat, Spent(w, i)
    PROVE  Spent(w, i)'
BY DEF Spent, Move, Slips, TypeOK

\* Which steps write a dead letter, and what a step does to the faults; a worker that slips
\* does so alone, by a fault, and one that settles commits.
LEMMA StepCounts ==
    ASSUME TypeOK, OffsetsValid, [Next]_vars
    PROVE  /\ faults' = faults \/ faults' = faults + 1
           /\ dlq' = dlq \/ \E w \in Workers : SendToDlq(w) \/ Requeue(w)
           /\ \A v \in Workers : phase[v] = "settle" =>
                  phase'[v] \in {"settle", "down"} \/ committed'[v] = committed[v] + 1
           /\ \A v \in Workers : Slips(v) =>
                  /\ faults' = faults + 1 /\ log' = log /\ dlq' = dlq
                  /\ committed' = committed
                  /\ phase' = [phase EXCEPT ![v] = "down"]
<1> USE DEF TypeOK, Slips
<1>1. CASE UNCHANGED vars
  BY <1>1 DEF vars
<1>2. ASSUME NEW t \in Topics, NEW m \in Messages, Publish(t, m)
      PROVE  faults' = faults /\ dlq' = dlq /\ phase' = phase
  BY <1>2 DEF Publish
<1>3. ASSUME NEW w \in Workers,
             Work(w) \/ CommitRaises(w) \/ DropSend(w) \/ Crash(w) \/ Restart(w)
      PROVE  /\ faults' = faults \/ faults' = faults + 1
             /\ dlq' = dlq \/ SendToDlq(w) \/ Requeue(w)
             /\ \A v \in Workers : phase[v] = "settle" =>
                    phase'[v] \in {"settle", "down"} \/ committed'[v] = committed[v] + 1
             /\ \A v \in Workers : Slips(v) => Crash(w) /\ v = w
  <2>1. CASE Receive(w)
    BY <2>1 DEF Receive
  <2>2. CASE Handle(w)
    BY <2>2 DEF Handle
  <2>3. CASE HandleRaises(w) \/ CommitRaises(w)
    <3>1. \E p \in {"handle", "reject"} : phase' = [phase EXCEPT ![w] = p]
      BY <2>3, NextAttemptEffect DEF HandleRaises, CommitRaises
    <3>2. phase[w] \in {"handle", "commit"}
      BY <2>3 DEF HandleRaises, CommitRaises
    <3>3. (faults' = faults \/ faults' = faults + 1) /\ dlq' = dlq
      BY <2>3 DEF HandleRaises, CommitRaises, Fault
    <3> QED BY <3>1, <3>2, <3>3
  <2>4. CASE Commit(w)
    BY <2>4 DEF Commit
  <2>5. CASE Settle(w)
    BY <2>5 DEF Settle
  <2>6. CASE SendToDlq(w)
    BY <2>6 DEF SendToDlq
  <2>7. CASE Requeue(w)
    BY <2>7 DEF Requeue
  <2>8. CASE Park(w)
    BY <2>8 DEF Park
  <2>9. CASE DropSend(w)
    BY <2>9 DEF DropSend, Fault
  <2>10. CASE Crash(w)
    BY <2>10 DEF Crash, Fault
  <2>11. CASE Restart(w)
    BY <2>11 DEF Restart
  <2> QED BY <1>3, <2>1, <2>2, <2>3, <2>4, <2>5, <2>6, <2>7, <2>8, <2>9, <2>10, <2>11
             DEF Work
<1>4. ASSUME NEW w \in Workers, Crash(w), phase[w] = "settle"
      PROVE  /\ faults' = faults + 1 /\ log' = log /\ dlq' = dlq /\ committed' = committed
             /\ phase' = [phase EXCEPT ![w] = "down"]
  BY <1>4 DEF Crash, Fault
<1>5. CASE \E t \in Topics, m \in Messages : Publish(t, m)
  BY <1>2, <1>5
<1>6. CASE \E w \in Workers :
               Work(w) \/ CommitRaises(w) \/ DropSend(w) \/ Crash(w) \/ Restart(w)
  <2> PICK w \in Workers :
               Work(w) \/ CommitRaises(w) \/ DropSend(w) \/ Crash(w) \/ Restart(w)
    BY <1>6
  <2>1. \A v \in Workers : Slips(v) => Crash(w) /\ v = w /\ phase[w] = "settle"
    BY <1>3
  <2> QED BY <1>3, <1>4, <2>1
<1> QED BY <1>1, <1>5, <1>6 DEF Next

\* A step in which worker w writes dead letter e.
Writes(w, e) == dlq' = [dlq EXCEPT ![Topic(w)] = Append(@, e)]

\* Letter e of topic t is one of message m and generation n.
Generation(e, m, n) == e = [msg |-> m, retries |-> MaxRetries + n]

\* A letter that is appended is one more of its message and generation.
LEMMA LettersAppend ==
    ASSUME TypeOK, NEW w \in Workers, NEW e \in Letters,
           Writes(w, e), NEW t \in Topics, NEW m \in Messages, NEW n \in Nat
    PROVE  /\ t = Topic(w) /\ Generation(e, m, n) =>
                  LettersOf(t, m, n)' = LettersOf(t, m, n) \cup {Len(dlq[t]) + 1}
           /\ t # Topic(w) \/ ~ Generation(e, m, n) =>
                  LettersOf(t, m, n)' = LettersOf(t, m, n)
<1>1. dlq[t] \in Seq(Letters) /\ Topic(w) \in Topics /\ Len(dlq[t]) \in Nat
  BY WorkersOf DEF TypeOK
<1>2. CASE t # Topic(w)
  <2>1. dlq'[t] = dlq[t]
    BY <1>1, <1>2 DEF TypeOK, Writes
  <2> QED BY <1>2, <2>1 DEF LettersOf
<1>3. CASE t = Topic(w)
  <2>1. dlq'[t] = Append(dlq[t], e)
    BY <1>1, <1>3 DEF TypeOK, Writes
  <2>2. /\ Len(dlq'[t]) = Len(dlq[t]) + 1
        /\ \A i \in 1 .. Len(dlq[t]) : dlq'[t][i] = dlq[t][i]
        /\ dlq'[t][Len(dlq[t]) + 1] = e
    BY <1>1, <2>1, AppendKeeps
  <2>3. 1 .. Len(dlq'[t]) = (1 .. Len(dlq[t])) \cup {Len(dlq[t]) + 1}
    BY <1>1, <2>2
  <2> QED BY <1>3, <2>2, <2>3 DEF LettersOf, Generation
<1> QED BY <1>2, <1>3

\* Whoever is done with a carrier stays so if no worker of its role gives one up.
LEMMA PassedKept ==
    ASSUME TypeOK, TypeOK', Grows, NEW t \in Topics, NEW m, NEW n \in Nat,
           \A s \in Sharers(t) : \A i \in Carriers(t, m, n) :
               Spent(<<s, Role(n)>>, i) => Spent(<<s, Role(n)>>, i)'
    PROVE  Passed(t, m, n) \subseteq Passed(t, m, n)'
<1>1. RecordsOf(t, m) \subseteq RecordsOf(t, m)'
  BY DEF RecordsOf, Grows, TypeOK
<1>2. \A k \in Nat : LettersOf(t, m, k) \subseteq LettersOf(t, m, k)'
  BY DEF LettersOf, Grows, TypeOK
<1>3. Carriers(t, m, n) \subseteq Carriers(t, m, n)'
  BY <1>1, <1>2 DEF Carriers
<1> QED BY <1>3 DEF Passed, Sharers, Role

\* They are finite after a step, too.
LEMMA StillFinite ==
    ASSUME IsFiniteSet(Services), TypeOK', NEW t \in Topics, NEW m, NEW n \in Nat
    PROVE  IsFiniteSet(Passed(t, m, n)') /\ Cardinality(Passed(t, m, n)') \in Nat
<1>1. IsFiniteSet(Carriers(t, m, n)')
  <2>1. IsFiniteSet(1 .. Len(log'[t])) /\ IsFiniteSet(1 .. Len(dlq'[t]))
    BY FS_Interval DEF TypeOK
  <2>2. \/ Carriers(t, m, n)' \subseteq 1 .. Len(log'[t])
        \/ Carriers(t, m, n)' \subseteq 1 .. Len(dlq'[t])
    BY DEF Carriers, RecordsOf, LettersOf
  <2> QED BY <2>1, <2>2, FS_Subset
<1>2. IsFiniteSet(Sharers(t) \X Carriers(t, m, n)')
  BY <1>1, ChainsCount, FS_Product
<1>3. Passed(t, m, n)' \subseteq Sharers(t) \X Carriers(t, m, n)'
  BY DEF Passed, Sharers
<1> QED BY <1>2, <1>3, FS_Subset, FS_CardinalityType

\* A surplus does not grow while the letters stay and what is passed does not shrink.
LEMMA SurplusKept ==
    ASSUME IsFiniteSet(Services), TypeOK, TypeOK', NEW t \in Topics, NEW m, NEW n \in Nat,
           LettersOf(t, m, n)' = LettersOf(t, m, n),
           Passed(t, m, n) \subseteq Passed(t, m, n)'
    PROVE  Surplus(t, m, n)' <= Surplus(t, m, n)
<1>1. Cardinality(Passed(t, m, n)) <= Cardinality(Passed(t, m, n)')
  BY StillFinite, FS_Subset
<1> QED BY <1>1, CountsFinite, StillFinite DEF Surplus

\* The worker that writes a letter is done with the letter's carrier by that step, so that
\* no surplus grows; nor does one by any other step that no worker slips in.
LEMMA SurplusStep ==
    ASSUME IsFiniteSet(Services), IInv, RetryCountBounded, [Next]_vars,
           \A v \in Workers : ~ Slips(v),
           NEW t \in Topics, NEW m \in Messages, NEW n \in Nat
    PROVE  Surplus(t, m, n)' <= Surplus(t, m, n)
<1>1. TypeOK /\ OffsetsValid /\ TypeOK' /\ Grows
  BY InductiveStep, StepGrows DEF IInv
<1>2. \A s \in Sharers(t) : /\ <<s, Role(n)>> \in Workers /\ Svc(<<s, Role(n)>>) = s
                            /\ Topic(<<s, Role(n)>>) = t
  BY WorkersOf DEF Sharers, Role
<1>3. Passed(t, m, n) \subseteq Passed(t, m, n)'
  <2>1. \A v \in Workers : \A i \in Nat : Spent(v, i) => Spent(v, i)'
    BY <1>1, SpentStable, StepMoves, StepCounts
  <2>2. Carriers(t, m, n) \subseteq Nat
    BY DEF Carriers, RecordsOf, LettersOf
  <2> QED BY <1>1, <1>2, <2>1, <2>2, PassedKept
<1>4. CASE dlq' = dlq
  <2>1. LettersOf(t, m, n)' = LettersOf(t, m, n)
    BY <1>4 DEF LettersOf
  <2> QED BY <1>1, <1>3, <2>1, SurplusKept
<1>5. ASSUME NEW w \in Workers, NEW e \in Letters,
             Writes(w, e), committed' = committed, phase[w] = "reject", phase'[w] = "settle",
             t = Topic(w) /\ Generation(e, m, n) =>
                 w[2] = Role(n) /\ committed[w] + 1 \in Carriers(t, m, n)
      PROVE  Surplus(t, m, n)' <= Surplus(t, m, n)
  <2>1. CASE t = Topic(w) /\ Generation(e, m, n)
    <3> DEFINE i == Len(dlq[t]) + 1
               x == <<Svc(w), committed[w] + 1>>
    <3>1. LettersOf(t, m, n)' = LettersOf(t, m, n) \cup {i}
      BY <1>1, <1>5, <2>1, LettersAppend
    <3>2. /\ Cardinality(LettersOf(t, m, n)') <= Cardinality(LettersOf(t, m, n)) + 1
          /\ Cardinality(LettersOf(t, m, n)') \in Nat
      <4> DEFINE L == LettersOf(t, m, n)
      <4>1. IsFiniteSet(L) /\ Cardinality(L) \in Nat
        BY <1>1, CountsFinite
      <4> HIDE DEF L, i
      <4>2. Cardinality(L \cup {i}) = Cardinality(L) \/ Cardinality(L \cup {i}) = Cardinality(L) + 1
        BY <4>1, FS_AddElement
      <4> QED BY <3>1, <4>1, <4>2 DEF L
    <3>3. Svc(w) \in Sharers(t) /\ w = <<Svc(w), Role(n)>> /\ committed[w] \in Nat
      BY <1>1, <1>5, <2>1, WorkersOf DEF Sharers, TypeOK, Svc
    <3>4. x \notin Passed(t, m, n)
      BY <1>5, <3>3 DEF Passed, Spent
    <3>5. committed[w] + 1 \in Carriers(t, m, n)'
      <4>1. RecordsOf(t, m) \subseteq RecordsOf(t, m)'
        BY <1>1 DEF RecordsOf, Grows, TypeOK
      <4>2. \A k \in Nat : LettersOf(t, m, k) \subseteq LettersOf(t, m, k)'
        BY <1>1 DEF LettersOf, Grows, TypeOK
      <4> QED BY <1>5, <2>1, <4>1, <4>2 DEF Carriers
    <3>6. x \in Passed(t, m, n)'
      BY <1>5, <3>3, <3>5 DEF Passed, Spent, Sharers, Role
    <3>7. Cardinality(Passed(t, m, n)) + 1 <= Cardinality(Passed(t, m, n)')
      <4>1. Passed(t, m, n) \cup {x} \subseteq Passed(t, m, n)'
        BY <1>3, <3>6
      <4>2. Cardinality(Passed(t, m, n) \cup {x}) = Cardinality(Passed(t, m, n)) + 1
        BY <1>1, <3>4, CountsFinite, FS_AddElement
      <4> QED BY <1>1, <4>1, <4>2, StillFinite, FS_Subset
    <3> QED BY <1>1, <3>2, <3>7, CountsFinite, StillFinite DEF Surplus
  <2>2. CASE t # Topic(w) \/ ~ Generation(e, m, n)
    <3>1. LettersOf(t, m, n)' = LettersOf(t, m, n)
      BY <1>1, <1>5, <2>2, LettersAppend
    <3> QED BY <1>1, <1>3, <3>1, SurplusKept
  <2> QED BY <2>1, <2>2
<1>6. ASSUME NEW w \in Workers, SendToDlq(w)
      PROVE  Surplus(t, m, n)' <= Surplus(t, m, n)
  <2> DEFINE e == [msg |-> InHand(w), retries |-> MaxRetries]
  <2>1. InHand(w) \in Messages /\ committed[w] + 1 \in 1 .. Backlog(w)
    BY <1>1, <1>6, InHandExists DEF SendToDlq
  <2>2. e \in Letters
    BY <2>1, DeadLetterAssumption DEF Letters
  <2>3. ASSUME t = Topic(w), Generation(e, m, n)
        PROVE  w[2] = Role(n) /\ committed[w] + 1 \in Carriers(t, m, n)
    <3>1. InHand(w) = m /\ MaxRetries = MaxRetries + n
      BY <2>3 DEF Generation
    <3>2. n = 0
      BY <3>1, DeadLetterAssumption
    <3> QED BY <1>6, <2>1, <2>3, <3>1, <3>2
            DEF SendToDlq, Role, Carriers, RecordsOf, InHand, Backlog
  <2>4. phase'[w] = "settle"
    BY <1>1, <1>6 DEF SendToDlq, TypeOK
  <2> HIDE DEF e
  <2> QED BY <1>5, <1>6, <2>2, <2>3, <2>4 DEF SendToDlq, Writes, e
<1>7. ASSUME NEW w \in Workers, Requeue(w)
      PROVE  Surplus(t, m, n)' <= Surplus(t, m, n)
  <2> DEFINE e == [msg |-> InHand(w), retries |-> AttemptNumber(w)]
             l == dlq[Topic(w)][committed[w] + 1]
  <2>1. /\ InHand(w) \in Messages /\ AttemptNumber(w) \in Nat
        /\ committed[w] + 1 \in 1 .. Len(dlq[Topic(w)]) /\ Topic(w) \in Topics
    BY <1>1, <1>7, InHandExists, WorkersOf DEF Requeue, Backlog
  <2>2. e \in Letters
    BY <2>1 DEF Letters
  <2>3. /\ l \in Letters /\ l.msg = InHand(w) /\ l.retries + 1 = AttemptNumber(w)
        /\ l.retries >= MaxRetries
    <3>1. l \in Letters
      BY <1>1, <2>1 DEF TypeOK
    <3>2. l.msg = InHand(w) /\ l.retries + 1 = AttemptNumber(w)
      BY <1>7 DEF Requeue, InHand, AttemptNumber
    <3>3. l.retries = MaxRetries \/ l.retries \in MaxRetries + 1 .. MaxDlqAttempts - 1
      BY <2>1 DEF RetryCountBounded
    <3> HIDE DEF l
    <3> QED BY <3>1, <3>2, <3>3, DeadLetterAssumption
  <2>4. ASSUME t = Topic(w), Generation(e, m, n)
        PROVE  w[2] = Role(n) /\ committed[w] + 1 \in Carriers(t, m, n)
    <3>1. InHand(w) = m /\ AttemptNumber(w) = MaxRetries + n
      BY <2>4 DEF Generation
    <3>2. n # 0 /\ l.retries = MaxRetries + (n - 1)
      <4> HIDE DEF l
      <4> QED BY <2>3, <3>1, DeadLetterAssumption DEF Letters
    <3>3. l = [msg |-> m, retries |-> MaxRetries + (n - 1)]
      <4> HIDE DEF l
      <4> QED BY <2>3, <3>1, <3>2 DEF Letters
    <3>4. committed[w] + 1 \in LettersOf(t, m, n - 1)
      BY <2>1, <2>4, <3>3 DEF LettersOf
    <3> QED BY <1>7, <3>2, <3>4 DEF Requeue, Role, Carriers
  <2>5. phase'[w] = "settle"
    BY <1>1, <1>7 DEF Requeue, TypeOK
  <2> HIDE DEF e, l
  <2> QED BY <1>5, <1>7, <2>2, <2>4, <2>5 DEF Requeue, Writes, e
<1> QED BY <1>1, <1>4, <1>6, <1>7, StepCounts

\* A worker that slips gives up one carrier, which one generation of one message has.
LEMMA SurplusSlip ==
    ASSUME IsFiniteSet(Services), IInv, RetryCountBounded, [Next]_vars,
           NEW w \in Workers, Slips(w), NEW t \in Topics, NEW m \in Messages
    PROVE  \E j \in Nat : \A n \in Nat :
               Surplus(t, m, n)' <= Surplus(t, m, n) + (IF n = j /\ t = Topic(w) THEN 1 ELSE 0)
<1>1. TypeOK /\ OffsetsValid /\ TypeOK' /\ Grows
  BY InductiveStep, StepGrows DEF IInv
<1>2. /\ log' = log /\ dlq' = dlq /\ committed' = committed
      /\ phase' = [phase EXCEPT ![w] = "down"]
  BY <1>1, StepCounts
<1> DEFINE i == committed[w] + 1
           x == <<Svc(w), i>>
           Given(n) == t = Topic(w) /\ w[2] = Role(n) /\ i \in Carriers(t, m, n)
<1>3. i \in Nat /\ w \in Workers /\ w = <<Svc(w), w[2]>> /\ Topic(w) = TopicOf[Svc(w)]
  BY <1>1, WorkersOf DEF TypeOK, Svc
<1>4. \A n \in Nat : LettersOf(t, m, n)' = LettersOf(t, m, n)
  BY <1>2 DEF LettersOf
<1>5. ASSUME NEW v \in Workers, NEW k \in Nat, Spent(v, k), v # w \/ k # i
      PROVE  Spent(v, k)'
  <2>1. CASE v # w
    BY <1>1, <1>2, <1>5, <2>1 DEF Spent, TypeOK
  <2>2. CASE v = w /\ k # i
    BY <1>1, <1>2, <1>5, <2>2 DEF Spent
  <2> QED BY <1>5, <2>1, <2>2
<1>6. ASSUME NEW n \in Nat
      PROVE  Carriers(t, m, n)' = Carriers(t, m, n) /\ Carriers(t, m, n) \subseteq Nat
  BY <1>2 DEF Carriers, RecordsOf, LettersOf
<1>7. ASSUME NEW n \in Nat, ~ Given(n)
      PROVE  Surplus(t, m, n)' <= Surplus(t, m, n)
  <2>1. ASSUME NEW s \in Sharers(t), NEW k \in Carriers(t, m, n), Spent(<<s, Role(n)>>, k)
        PROVE  Spent(<<s, Role(n)>>, k)'
    <3>1. <<s, Role(n)>> \in Workers /\ Topic(<<s, Role(n)>>) = t /\ k \in Nat
      BY <1>6, WorkersOf DEF Sharers, Role
    <3>2. <<s, Role(n)>> # w \/ k # i
      BY <1>7, <3>1
    <3> QED BY <1>5, <2>1, <3>1, <3>2
  <2>2. Passed(t, m, n) \subseteq Passed(t, m, n)'
    BY <1>1, <2>1, PassedKept
  <2> QED BY <1>1, <1>4, <2>2, SurplusKept
<1>8. ASSUME NEW n \in Nat
      PROVE  Surplus(t, m, n)' <= Surplus(t, m, n) + 1
  <2>1. Passed(t, m, n) \ {x} \subseteq Passed(t, m, n)'
    <3> SUFFICES ASSUME NEW y \in Passed(t, m, n), y # x PROVE y \in Passed(t, m, n)'
      OBVIOUS
    <3>1. y = <<y[1], y[2]>> /\ y[1] \in Sharers(t) /\ y[2] \in Carriers(t, m, n)
      BY DEF Passed
    <3>2. Spent(<<y[1], Role(n)>>, y[2])
      BY DEF Passed
    <3>3. <<y[1], Role(n)>> \in Workers /\ Svc(<<y[1], Role(n)>>) = y[1] /\ y[2] \in Nat
      BY <1>6, <3>1, WorkersOf DEF Sharers, Role
    <3>4. <<y[1], Role(n)>> # w \/ y[2] # i
      BY <3>1, <3>3
    <3>5. Spent(<<y[1], Role(n)>>, y[2])'
      BY <1>5, <3>2, <3>3, <3>4
    <3> QED BY <1>6, <3>1, <3>5 DEF Passed, Sharers, Role
  <2> DEFINE P == Passed(t, m, n)
  <2>2. IsFiniteSet(P) /\ Cardinality(P) \in Nat
    BY <1>1, CountsFinite
  <2>3. IsFiniteSet(P') /\ Cardinality(P') \in Nat
    BY <1>1, StillFinite
  <2>4. Cardinality(P) <= Cardinality(P') + 1
    <3> HIDE DEF P, x
    <3>1. \/ Cardinality(P \ {x}) = Cardinality(P)
          \/ Cardinality(P \ {x}) = Cardinality(P) - 1
      BY <2>2, FS_RemoveElement
    <3>2. Cardinality(P \ {x}) <= Cardinality(P')
      BY <2>1, <2>3, FS_Subset DEF P
    <3> QED BY <2>2, <2>3, <3>1, <3>2
  <2> QED BY <1>1, <1>4, <2>2, <2>3, <2>4, CountsFinite DEF Surplus
<1>9. PICK j \in Nat : \A n \in Nat : Given(n) => n = j
  <2>1. CASE w[2] = "main"
    <3>1. \A n \in Nat : Given(n) => n = 0
      BY <2>1 DEF Role
    <3> QED BY <3>1
  <2>2. CASE w[2] # "main" /\ \E n \in Nat : Given(n)
    <3>1. PICK j \in Nat : Given(j)
      BY <2>2
    <3>2. \A n \in Nat : Given(n) => n # 0 /\ i \in LettersOf(t, m, n - 1)
      BY <2>2 DEF Role, Carriers
    <3>3. ASSUME NEW n \in Nat, Given(n)
          PROVE  n = j
      <4>1. /\ n # 0 /\ j # 0
            /\ dlq[t][i] = [msg |-> m, retries |-> MaxRetries + (n - 1)]
            /\ dlq[t][i] = [msg |-> m, retries |-> MaxRetries + (j - 1)]
        BY <3>1, <3>2, <3>3 DEF LettersOf
      <4>2. MaxRetries + (n - 1) = MaxRetries + (j - 1)
        BY <4>1
      <4> QED BY <4>1, <4>2, DeadLetterAssumption
    <3> QED BY <3>3
  <2>3. CASE ~ \E n \in Nat : Given(n)
    BY <2>3
  <2> QED BY <2>1, <2>2, <2>3
<1>10. ASSUME NEW n \in Nat
       PROVE  Surplus(t, m, n)' <=
                  Surplus(t, m, n) + (IF n = j /\ t = Topic(w) THEN 1 ELSE 0)
  <2>1. CASE Given(n)
    BY <1>8, <1>9, <2>1
  <2>2. CASE ~ Given(n)
    <3>1. Surplus(t, m, n)' \in Int /\ Surplus(t, m, n) \in Int
      BY <1>1, <1>4, CountsFinite, StillFinite DEF Surplus
    <3> QED BY <1>7, <2>2, <3>1
  <2> QED BY <2>1, <2>2
<1> QED BY <1>10

\* Faults are charged to the generation they repeat, in every step.
LEMMA ChargedStep ==
    ASSUME IsFiniteSet(Services), IInv, RetryCountBounded, [Next]_vars,
           NEW t \in Topics, NEW m \in Messages, Charged(t, m)
    PROVE  Charged(t, m)'
<1>1. /\ TypeOK /\ OffsetsValid /\ faults \in Nat
      /\ faults' = faults \/ faults' = faults + 1
  BY StepCounts, DeadLetterAssumption DEF IInv, TypeOK
<1>2. PICK c \in Charges(t) : /\ Surplus(t, m, 0) <= c[0]
                              /\ \A n \in Nat : Surplus(t, m, n + 1) <= c[n + 1] - c[n]
  BY DEF Charged
<1>3. /\ c \in [Nat -> Nat]
      /\ \A n \in Nat : c[n] <= c[n + 1] /\ c[n] <= IF Sharers(t) = {} THEN 0 ELSE faults
  BY <1>2 DEF Charges
<1>4. ASSUME NEW n \in Nat
      PROVE  Surplus(t, m, n)' \in Int /\ Surplus(t, m, n) \in Int
  <2>1. TypeOK'
    BY InductiveStep DEF IInv
  <2>2. Cardinality(LettersOf(t, m, n)') \in Nat
    <3>1. IsFiniteSet(1 .. Len(dlq'[t]))
      BY <2>1, FS_Interval DEF TypeOK
    <3>2. LettersOf(t, m, n)' \subseteq 1 .. Len(dlq'[t])
      BY DEF LettersOf
    <3> QED BY <3>1, <3>2, FS_Subset, FS_CardinalityType
  <2> QED BY <1>1, <2>1, <2>2, CountsFinite, StillFinite DEF Surplus
<1>5. CASE \A v \in Workers : ~ Slips(v)
  <2>1. \A n \in Nat : Surplus(t, m, n)' <= Surplus(t, m, n)
    BY <1>5, SurplusStep
  <2>2. c \in Charges(t)'
    BY <1>1, <1>3 DEF Charges, Sharers
  <2>3. Surplus(t, m, 0)' <= c[0]
    BY <1>2, <1>3, <1>4, <2>1
  <2>4. \A n \in Nat : Surplus(t, m, n + 1)' <= c[n + 1] - c[n]
    BY <1>2, <1>3, <1>4, <2>1
  <2> QED BY <2>2, <2>3, <2>4 DEF Charged
<1>6. ASSUME NEW w \in Workers, Slips(w)
      PROVE  Charged(t, m)'
  <2>1. PICK j \in Nat : \A n \in Nat : Surplus(t, m, n)' <=
            Surplus(t, m, n) + (IF n = j /\ t = Topic(w) THEN 1 ELSE 0)
    BY <1>6, SurplusSlip
  <2>2. faults' = faults + 1
    BY <1>1, <1>6, StepCounts
  <2> DEFINE d == [n \in Nat |-> IF n >= j /\ t = Topic(w) THEN c[n] + 1 ELSE c[n]]
  <2>3. d \in Charges(t)'
    <3>1. d \in [Nat -> Nat]
      BY <1>3
    <3>2. \A n \in Nat : d[n] <= d[n + 1]
      BY <1>3
    <3>3. t = Topic(w) => Sharers(t) # {}
      BY WorkersOf DEF Sharers
    <3>4. \A n \in Nat : d[n] <= IF Sharers(t) = {} THEN 0 ELSE faults'
      BY <1>1, <1>3, <2>2, <3>3
    <3> HIDE DEF d
    <3> QED BY <3>1, <3>2, <3>4 DEF Charges, Sharers
  <2>4. Surplus(t, m, 0)' <= d[0]
    <3>1. d[0] = c[0] + (IF 0 = j /\ t = Topic(w) THEN 1 ELSE 0)
      BY <1>3
    <3> HIDE DEF d
    <3> QED BY <1>2, <1>3, <1>4, <2>1, <3>1
  <2>5. ASSUME NEW n \in Nat
        PROVE  Surplus(t, m, n + 1)' <= d[n + 1] - d[n]
    <3>1. d[n + 1] - d[n] = c[n + 1] - c[n] + (IF n + 1 = j /\ t = Topic(w) THEN 1 ELSE 0)
      BY <1>3
    <3>2. Surplus(t, m, n + 1)' <=
              Surplus(t, m, n + 1) + (IF n + 1 = j /\ t = Topic(w) THEN 1 ELSE 0)
      BY <2>1
    <3>3. Surplus(t, m, n + 1) <= c[n + 1] - c[n]
      BY <1>2
    <3>4. Surplus(t, m, n + 1)' \in Int /\ Surplus(t, m, n + 1) \in Int
      BY <1>4
    <3>5. c[n + 1] \in Nat /\ c[n] \in Nat
      BY <1>3
    <3> HIDE DEF d
    <3> QED BY <3>1, <3>2, <3>3, <3>4, <3>5
  <2> HIDE DEF d
  <2> QED BY <2>3, <2>4, <2>5 DEF Charged
<1> QED BY <1>5, <1>6

\* With no letters there is nothing to charge.
LEMMA ChargedInit ==
    ASSUME IsFiniteSet(Services), Init, NEW t \in Topics, NEW m \in Messages
    PROVE  Charged(t, m)
<1> DEFINE c == [n \in Nat |-> 0]
<1>1. TypeOK /\ faults = 0
  BY TypeInit DEF Init
<1>2. c \in Charges(t)
  BY <1>1 DEF Charges
<1>3. \A n \in Nat : LettersOf(t, m, n) = {}
  BY DEF Init, LettersOf
<1>4. \A n \in Nat : Surplus(t, m, n) <= 0
  BY <1>1, <1>3, CountsFinite, FS_EmptySet DEF Surplus
<1>5. Surplus(t, m, 0) <= c[0] /\ \A n \in Nat : Surplus(t, m, n + 1) <= c[n + 1] - c[n]
  BY <1>4
<1> HIDE DEF c
<1> QED BY <1>2, <1>5 DEF Charged

\* What the charges allow, generation by generation.
LEMMA ChargesBound ==
    ASSUME IsFiniteSet(Services), TypeOK, NEW t \in Topics, NEW m \in Messages, Charged(t, m)
    PROVE  \A n \in Nat : Cardinality(LettersOf(t, m, n)) <=
               (Cardinality(RecordsOf(t, m)) + faults) * Cardinality(Chains(t, n))
<1> DEFINE k == Cardinality(Sharers(t))
           r == Cardinality(RecordsOf(t, m))
           L(n) == Cardinality(LettersOf(t, m, n))
           C(n) == Cardinality(Chains(t, n))
<1>1. PICK c \in Charges(t) : /\ Surplus(t, m, 0) <= c[0]
                              /\ \A n \in Nat : Surplus(t, m, n + 1) <= c[n + 1] - c[n]
  BY DEF Charged
<1>2. /\ c \in [Nat -> Nat]
      /\ \A n \in Nat : c[n] <= c[n + 1] /\ c[n] <= IF Sharers(t) = {} THEN 0 ELSE faults
  BY <1>1 DEF Charges
<1>3. /\ k \in Nat /\ r \in Nat /\ C(0) = k /\ faults \in Nat
      /\ \A n \in Nat : L(n) \in Nat /\ C(n) \in Nat /\ C(n + 1) = k * C(n)
  <2>1. k \in Nat /\ C(0) = k /\ \A n \in Nat : C(n) \in Nat /\ C(n + 1) = k * C(n)
    BY ChainsCount
  <2>2. r \in Nat /\ \A n \in Nat : L(n) \in Nat
    BY CountsFinite
  <2>3. faults \in Nat
    BY DeadLetterAssumption DEF TypeOK
  <2> QED BY <2>1, <2>2, <2>3
<1>4. L(0) <= k * r + c[0]
  <2>1. Carriers(t, m, 0) = RecordsOf(t, m)
    BY DEF Carriers
  <2>2. Cardinality(Passed(t, m, 0)) <= k * r /\ Cardinality(Passed(t, m, 0)) \in Nat
    BY <2>1, CountsFinite
  <2> QED BY <1>1, <1>2, <1>3, <2>2 DEF Surplus
<1>5. ASSUME NEW n \in Nat
      PROVE  L(n + 1) <= k * L(n) + (c[n + 1] - c[n])
  <2>1. Carriers(t, m, n + 1) = LettersOf(t, m, n)
    BY DEF Carriers
  <2>2. Cardinality(Passed(t, m, n + 1)) <= k * L(n) /\ Cardinality(Passed(t, m, n + 1)) \in Nat
    BY <2>1, CountsFinite
  <2>3. L(n + 1) - Cardinality(Passed(t, m, n + 1)) <= c[n + 1] - c[n]
    BY <1>1 DEF Surplus
  <2>4. c[n + 1] \in Nat /\ c[n] \in Nat /\ L(n + 1) \in Nat /\ k * L(n) \in Nat
    BY <1>2, <1>3
  <2> HIDE DEF L, k
  <2> QED BY <2>2, <2>3, <2>4
<1> DEFINE B == {n \in Nat : L(n) <= (r + c[n]) * C(n) /\ (k > 0 => C(n) > 0)}
<1>6. k = 0 => \A n \in Nat : c[n] = 0
  <2>1. k = 0 => Sharers(t) = {}
    BY ChainsCount, FS_EmptySet
  <2> QED BY <1>2, <2>1
<1> HIDE DEF k, r, L, C
<1>7. Nat \subseteq B
  <2>1. 0 \in B
    <3>1. CASE k = 0
      BY <1>2, <1>3, <1>4, <1>6, <3>1
    <3>2. CASE k # 0
      <4>1. k \in Nat /\ k >= 1 /\ c[0] \in Nat /\ r \in Nat
        BY <1>2, <1>3, <3>2
      <4>2. c[0] <= c[0] * k
        BY <4>1
      <4>3. (r + c[0]) * k = k * r + c[0] * k
        BY <4>1
      <4> QED BY <1>3, <1>4, <4>1, <4>2, <4>3
    <3> QED BY <3>1, <3>2
  <2>2. ASSUME NEW n \in Nat, n \in B
        PROVE  n + 1 \in B
    <3> DEFINE a == c[n]
               b == c[n + 1]
               p == C(n)
    <3>1. a \in Nat /\ b \in Nat /\ a <= b /\ p \in Nat /\ C(n + 1) = k * p
      BY <1>2, <1>3
    <3>2. L(n) <= (r + a) * p /\ (k > 0 => p > 0) /\ L(n) \in Nat /\ L(n + 1) \in Nat
      <4>1. L(n) <= (r + a) * p /\ (k > 0 => p > 0)
        BY <2>2, Zenon
      <4>2. n + 1 \in Nat
        OBVIOUS
      <4> QED BY <1>3, <4>1, <4>2, Zenon
    <3>3. L(n + 1) <= k * L(n) + (b - a)
      BY <1>5
    <3> HIDE DEF a, b, p
    <3>4. k * L(n) <= k * ((r + a) * p)
      BY <1>3, <3>1, <3>2
    <3>5. k * ((r + a) * p) = (r + a) * (k * p)
      BY <1>3, <3>1
    <3>6. k > 0 => k * p > 0
      BY <1>3, <3>1, <3>2
    <3>7. b - a <= (b - a) * (k * p)
      <4>1. CASE k = 0
        BY <1>2, <1>6, <3>1, <4>1 DEF a, b
      <4>2. CASE k # 0
        <5>1. k * p \in Nat /\ k * p >= 1 /\ b - a \in Nat
          <6>1. k * p \in Nat /\ b - a \in Nat /\ k > 0
            BY <1>3, <3>1, <4>2
          <6> QED BY <3>6, <6>1
        <5> DEFINE q == k * p
                   g == b - a
        <5> HIDE DEF q, g
        <5>2. q \in Nat /\ q >= 1 /\ g \in Nat
          BY <5>1 DEF q, g
        <5>3. g <= g * q
          BY <5>2
        <5> QED BY <5>3 DEF q, g
      <4> QED BY <4>1, <4>2
    <3>8. (r + a) * (k * p) + (b - a) * (k * p) = (r + b) * (k * p)
      <4> DEFINE q == k * p
      <4>1. q \in Nat
        BY <1>3, <3>1
      <4> HIDE DEF q
      <4>2. (r + a) * q + (b - a) * q = (r + b) * q
        BY <1>3, <3>1, <4>1
      <4> QED BY <4>2 DEF q
    <3>9. L(n + 1) <= (r + b) * (k * p)
      <4> DEFINE u == k * L(n)
                 v == (r + a) * (k * p)
                 x == (b - a) * (k * p)
      <4>1. u \in Nat /\ v \in Nat /\ x \in Nat /\ L(n + 1) \in Nat /\ b - a \in Nat
        BY <1>3, <3>1, <3>2
      <4>2. L(n + 1) <= u + (b - a) /\ u <= v /\ b - a <= x
        BY <3>3, <3>4, <3>5, <3>7
      <4> HIDE DEF u, v, x
      <4>3. L(n + 1) <= v + x
        BY <3>1, <4>1, <4>2
      <4> QED BY <3>8, <4>3 DEF v, x
    <3> QED BY <3>1, <3>6, <3>9 DEF b
  <2> HIDE DEF B
  <2> QED BY <2>1, <2>2, NatInduct
<1>8. ASSUME NEW n \in Nat
      PROVE  L(n) <= (r + faults) * C(n)
  <2>1. L(n) <= (r + c[n]) * C(n) /\ c[n] \in Nat /\ c[n] <= faults
    BY <1>2, <1>3, <1>7
  <2>2. (r + c[n]) * C(n) <= (r + faults) * C(n)
    <3> DEFINE a == c[n]
               p == C(n)
    <3>1. a \in Nat /\ p \in Nat /\ a <= faults
      BY <1>3, <2>1
    <3> HIDE DEF a, p
    <3>2. (r + faults) * p = (r + a) * p + (faults - a) * p
      BY <1>3, <3>1
    <3>3. (faults - a) * p >= 0
      BY <1>3, <3>1
    <3> QED BY <1>3, <3>1, <3>2, <3>3 DEF a, p
  <2> DEFINE x == (r + c[n]) * C(n)
             y == (r + faults) * C(n)
  <2>3. L(n) \in Nat /\ x \in Nat /\ y \in Nat /\ L(n) <= x /\ x <= y
    BY <1>3, <2>1, <2>2
  <2> HIDE DEF x, y
  <2>4. L(n) <= y
    BY <2>3
  <2> QED BY <2>4 DEF y
<1> QED BY <1>8 DEF L, r, C

\* However many services share a topic, and wherever crashes and lost sends happen, a message
\* has no more dead letters than its records and the faults account for.
THEOREM LettersFinite ==
    ASSUME IsFiniteSet(Services)
    PROVE  Spec => []LettersBounded
<1> DEFINE AllCharged == \A t \in Topics, m \in Messages : Charged(t, m)
<1>1. Init => AllCharged
  BY ChargedInit
<1>2. IInv /\ RetryCountBounded /\ AllCharged /\ [Next]_vars => AllCharged'
  BY ChargedStep
<1>3. IInv /\ AllCharged => LettersBounded
  <2>1. 0 .. MaxDlqAttempts \subseteq Nat
    BY DeadLetterAssumption
  <2> QED BY <2>1, ChargesBound DEF IInv, LettersBounded
<1> HIDE DEF AllCharged
<1> QED BY <1>1, <1>2, <1>3, Invariance, RetryCounts, PTL DEF Spec

=============================================================================
