----------------------------- MODULE DeadLetter -----------------------------
(***************************************************************************)
(* The Kafka delivery skeleton that every event consumer of SmartCourse    *)
(* shares: certificate (enrollment.completed), analytics (enrollment.      *)
(* created, enrollment.completed, course.published) and course (user       *)
(* events) each run one main consumer and one dead-letter reprocessor, and *)
(* their code differs only in the handler they call.                       *)
(*                                                                         *)
(* A main consumer tries a record MaxRetries times, then republishes it on *)
(* <topic>.dlq and commits its offset.  A reprocessor tries a dead letter  *)
(* once and, when that fails, parks it on <topic>.failed or requeues it.   *)
(* Services that consume the same topic share its dead-letter topic.       *)
(*                                                                         *)
(* The handler is abstract here: it succeeds or raises.  CertificateIssuing*)
(* and other modules refine it.  A topic has one partition (the broker's   *)
(* default), and each consumer group has one member (docker-compose).      *)
(***************************************************************************)
EXTENDS Integers, Sequences, FiniteSets

CONSTANTS
    Services,        \* consumer groups, one main consumer and one reprocessor each
    Topics,          \* event topics; each has a .dlq and a .failed topic
    TopicOf,         \* [Services -> Topics], the topic a service consumes
    Messages,        \* event payloads
    Poison,          \* the messages whose decoding or handling always raises
    MaxRetries,      \* MAX_RETRIES of the main consumers
    MaxDlqAttempts,  \* settings.DLQ_MAX_ATTEMPTS
    MaxPublished,    \* bound: records published on a topic
    MaxFaults        \* bound: crashes, failed commits and lost sends together

ASSUME DeadLetterAssumption ==
    /\ TopicOf \in [Services -> Topics]
    /\ Poison \subseteq Messages
    /\ MaxRetries \in Nat \ {0}
    /\ MaxDlqAttempts \in Nat
    /\ MaxPublished \in Nat
    /\ MaxFaults \in Nat

VARIABLES
    log,        \* [Topics -> Seq(Messages)], records of each event topic
    dlq,        \* [Topics -> Seq(Letters)], records of each .dlq topic
    failed,     \* [Topics -> SUBSET Parked], records of each .failed topic
    committed,  \* [Workers -> Nat], committed offset of each consumer group
    phase,      \* [Workers -> Phases], where the worker's loop is
    attempt,    \* [Workers -> Nat], the loop variable of the retry loop
    handled,    \* [Services -> SUBSET Messages], messages whose effect is stored
    lost,       \* ghost: [Services -> SUBSET Messages], sends dropped unnoticed
    faults      \* faults so far, at most MaxFaults

vars == <<log, dlq, failed, committed, phase, attempt, handled, lost, faults>>

Roles == {"main", "dlq"}
Workers == Services \X Roles
Phases == {"idle", "handle", "commit", "reject", "settle", "down"}

\* A dead letter carries the x-retry-count header beside the payload.
Letters == [msg : Messages, retries : Nat]
Parked == [msg : Messages, by : Services, retries : Nat]

\* The service of a worker, and the topic it consumes.
Svc(w) == w[1]
Topic(w) == TopicOf[w[1]]

\* What the worker reads: the event topic, or its dead-letter topic.
Backlog(w) ==
    IF w[2] = "main" THEN Len(log[Topic(w)]) ELSE Len(dlq[Topic(w)])

\* Mutant: the reprocessor hands its handler the dead letter, not the payload in it.
InHandEnvelope(w) ==
    IF w[2] = "main" THEN log[Topic(w)][committed[w] + 1]
                     ELSE dlq[Topic(w)][committed[w] + 1]

\* The payload of the record the worker's iterator yielded last: the one after the
\* committed offset, because every record is committed before the next is taken.
InHand(w) ==
    IF w[2] = "main" THEN log[Topic(w)][committed[w] + 1]
                     ELSE dlq[Topic(w)][committed[w] + 1].msg

\* attempt_number of the reprocessor: one more than the x-retry-count header.
AttemptNumber(w) == dlq[Topic(w)][committed[w] + 1].retries + 1

\* A main consumer loops over MaxRetries attempts, a reprocessor tries once.
Attempts(w) == IF w[2] = "main" THEN MaxRetries ELSE 1

-----------------------------------------------------------------------------
Init ==
    /\ log = [t \in Topics |-> <<>>]
    /\ dlq = [t \in Topics |-> <<>>]
    /\ failed = [t \in Topics |-> {}]
    /\ committed = [w \in Workers |-> 0]
    /\ phase = [w \in Workers |-> "idle"]
    /\ attempt = [w \in Workers |-> 0]
    /\ handled = [s \in Services |-> {}]
    /\ lost = [s \in Services |-> {}]
    /\ faults = 0

\* A producing service appends an event; activities retried by Temporal may append
\* the same payload again.
Publish(t, m) ==
    /\ Len(log[t]) < MaxPublished
    /\ log' = [log EXCEPT ![t] = Append(@, m)]
    /\ UNCHANGED <<dlq, failed, committed, phase, attempt, handled, lost, faults>>

\* The iterator yields the next record, and the loop starts at attempt 0.
Receive(w) ==
    /\ phase[w] = "idle"
    /\ committed[w] < Backlog(w)
    /\ phase' = [phase EXCEPT ![w] = "handle"]
    /\ attempt' = [attempt EXCEPT ![w] = 0]
    /\ UNCHANGED <<log, dlq, failed, committed, handled, lost, faults>>

\* Spends one of the faults that the model allows.
Fault == faults < MaxFaults /\ faults' = faults + 1

\* Mutant: the exhausted record is committed without being sent to the DLQ.
NextAttemptSkipsDlq(w) ==
    /\ phase' = [phase EXCEPT ![w] = IF attempt[w] + 1 < Attempts(w) THEN "handle"
                                                                   ELSE "settle"]
    /\ attempt' = [attempt EXCEPT ![w] = IF @ + 1 < Attempts(w) THEN @ + 1 ELSE @]

\* Mutant: the record is retried for ever.
NextAttemptForever(w) ==
    phase' = [phase EXCEPT ![w] = "handle"] /\ attempt' = attempt

\* The except branch: the next attempt, or the rejection of the record.
NextAttempt(w) ==
    IF attempt[w] + 1 < Attempts(w)
    THEN /\ phase' = [phase EXCEPT ![w] = "handle"]
         /\ attempt' = [attempt EXCEPT ![w] = @ + 1]
    ELSE /\ phase' = [phase EXCEPT ![w] = "reject"]
         /\ attempt' = attempt

\* The handler returns: its effect is stored.
Handle(w) ==
    /\ phase[w] = "handle"
    /\ InHand(w) \notin Poison
    /\ handled' = [handled EXCEPT ![Svc(w)] = @ \cup {InHand(w)}]
    /\ phase' = [phase EXCEPT ![w] = "commit"]
    /\ UNCHANGED <<log, dlq, failed, committed, attempt, lost, faults>>

\* The handler raises, before its effect is stored or after it (the database
\* commits and the refresh that follows fails).
HandleRaises(w) ==
    /\ phase[w] = "handle"
    /\ \/ handled' = handled
       \/ /\ InHand(w) \notin Poison
          /\ handled' = [handled EXCEPT ![Svc(w)] = @ \cup {InHand(w)}]
    /\ NextAttempt(w)
    /\ UNCHANGED <<log, dlq, failed, committed, lost, faults>>

\* consumer.commit() after success.
Commit(w) ==
    /\ phase[w] = "commit"
    /\ committed' = [committed EXCEPT ![w] = @ + 1]
    /\ phase' = [phase EXCEPT ![w] = "idle"]
    /\ UNCHANGED <<log, dlq, failed, attempt, handled, lost, faults>>

\* That commit stands inside the try: when it raises, the attempt has failed.
CommitRaises(w) ==
    /\ phase[w] = "commit"
    /\ Fault
    /\ NextAttempt(w)
    /\ UNCHANGED <<log, dlq, failed, committed, handled, lost>>

\* DLQProducer.send: the exhausted record goes to <topic>.dlq.
SendToDlq(w) ==
    /\ phase[w] = "reject" /\ w[2] = "main"
    /\ dlq' = [dlq EXCEPT ![Topic(w)] =
                  Append(@, [msg |-> InHand(w), retries |-> MaxRetries])]
    /\ phase' = [phase EXCEPT ![w] = "settle"]
    /\ UNCHANGED <<log, failed, committed, attempt, handled, lost, faults>>

\* _park: the dead letter goes to <topic>.failed for an operator.
Park(w) ==
    /\ phase[w] = "reject" /\ w[2] = "dlq"
    /\ AttemptNumber(w) >= MaxDlqAttempts
    /\ failed' = [failed EXCEPT ![Topic(w)] = @ \cup
                     {[msg |-> InHand(w), by |-> Svc(w), retries |-> AttemptNumber(w)]}]
    /\ phase' = [phase EXCEPT ![w] = "settle"]
    /\ UNCHANGED <<log, dlq, committed, attempt, handled, lost, faults>>

\* Mutant: one attempt more than MaxDlqAttempts is requeued.
RequeueAtLimit(w) ==
    /\ phase[w] = "reject" /\ w[2] = "dlq"
    /\ AttemptNumber(w) <= MaxDlqAttempts
    /\ dlq' = [dlq EXCEPT ![Topic(w)] =
                  Append(@, [msg |-> InHand(w), retries |-> AttemptNumber(w)])]
    /\ phase' = [phase EXCEPT ![w] = "settle"]
    /\ UNCHANGED <<log, failed, committed, attempt, handled, lost, faults>>

\* Mutant: the requeued letter keeps the count it came with.
RequeueSameCount(w) ==
    /\ phase[w] = "reject" /\ w[2] = "dlq"
    /\ AttemptNumber(w) < MaxDlqAttempts
    /\ dlq' = [dlq EXCEPT ![Topic(w)] = Append(@, @[committed[w] + 1])]
    /\ phase' = [phase EXCEPT ![w] = "settle"]
    /\ UNCHANGED <<log, failed, committed, attempt, handled, lost, faults>>

\* _requeue: back on <topic>.dlq with the incremented count.
Requeue(w) ==
    /\ phase[w] = "reject" /\ w[2] = "dlq"
    /\ AttemptNumber(w) < MaxDlqAttempts
    /\ dlq' = [dlq EXCEPT ![Topic(w)] =
                  Append(@, [msg |-> InHand(w), retries |-> AttemptNumber(w)])]
    /\ phase' = [phase EXCEPT ![w] = "settle"]
    /\ UNCHANGED <<log, failed, committed, attempt, handled, lost, faults>>

\* Each of the three sends leaves its future unread, and flush() does not report a
\* failed delivery: the record may never reach the broker.
DropSend(w) ==
    /\ phase[w] = "reject"
    /\ Fault
    /\ lost' = [lost EXCEPT ![Svc(w)] = @ \cup {InHand(w)}]
    /\ phase' = [phase EXCEPT ![w] = "settle"]
    /\ UNCHANGED <<log, dlq, failed, committed, attempt, handled>>

\* consumer.commit() after the rejection, outside any try.
Settle(w) ==
    /\ phase[w] = "settle"
    /\ committed' = [committed EXCEPT ![w] = @ + 1]
    /\ phase' = [phase EXCEPT ![w] = "idle"]
    /\ UNCHANGED <<log, dlq, failed, attempt, handled, lost, faults>>

\* The worker stops: killed, or a send or commit outside the try raised through run().
Crash(w) ==
    /\ phase[w] # "down"
    /\ Fault
    /\ phase' = [phase EXCEPT ![w] = "down"]
    /\ UNCHANGED <<log, dlq, failed, committed, attempt, handled, lost>>

\* The group rejoins at its committed offset.
Restart(w) ==
    /\ phase[w] = "down"
    /\ phase' = [phase EXCEPT ![w] = "idle"]
    /\ UNCHANGED <<log, dlq, failed, committed, attempt, handled, lost, faults>>

-----------------------------------------------------------------------------
\* What a running worker does with a record.
Work(w) ==
    \/ Receive(w) \/ Handle(w) \/ HandleRaises(w) \/ Commit(w)
    \/ SendToDlq(w) \/ Park(w) \/ Requeue(w) \/ Settle(w)

Next ==
    \/ \E t \in Topics, m \in Messages : Publish(t, m)
    \/ \E w \in Workers : Work(w)
    \/ \E w \in Workers :
          CommitRaises(w) \/ DropSend(w) \/ Crash(w) \/ Restart(w)

Spec == Init /\ [][Next]_vars

-----------------------------------------------------------------------------
TypeOK ==
    /\ log \in [Topics -> Seq(Messages)]
    /\ dlq \in [Topics -> Seq(Letters)]
    /\ failed \in [Topics -> SUBSET Parked]
    /\ committed \in [Workers -> Nat]
    /\ phase \in [Workers -> Phases]
    /\ attempt \in [Workers -> Nat]
    /\ handled \in [Services -> SUBSET Messages]
    /\ lost \in [Services -> SUBSET Messages]
    /\ faults \in 0 .. MaxFaults

\* A letter of m behind offset o of the dead-letter topic of s.
LetterBeyond(s, m, o) ==
    \E i \in 1 .. Len(dlq[TopicOf[s]]) : i > o /\ dlq[TopicOf[s]][i].msg = m

\* What may have become of message m at service s once its reprocessor has passed
\* offset o: its effect is stored, a later dead letter carries it, an operator has
\* it, or a send of it was dropped.
AccountedBeyond(s, m, o) ==
    \/ m \in handled[s]
    \/ LetterBeyond(s, m, o)
    \/ \E p \in failed[TopicOf[s]] : p.msg = m /\ p.by = s
    \/ m \in lost[s]

\* The same for the reprocessor's committed offset, the letters it would still read.
Pending(s, m) == LetterBeyond(s, m, committed[<<s, "dlq">>])
Accounted(s, m) == AccountedBeyond(s, m, committed[<<s, "dlq">>])

\* No message vanishes: once a main consumer has committed past a record, through
\* whatever retries, dead letters, crashes and redeliveries, the record's effect is
\* stored, or a dead letter or a parked copy of it exists, or a send was dropped.
NothingVanishes ==
    \A s \in Services : \A i \in 1 .. committed[<<s, "main">>] :
        Accounted(s, log[TopicOf[s]][i])

\* A requeued letter has attempts left: the count of every dead letter is the one
\* the main consumer gave it, or is still below MaxDlqAttempts.
RetryCountBounded ==
    \A t \in Topics : \A i \in 1 .. Len(dlq[t]) :
        \/ dlq[t][i].retries = MaxRetries
        \/ dlq[t][i].retries \in MaxRetries + 1 .. MaxDlqAttempts - 1

\* A committed offset points at a record that exists, and a worker that is busy has
\* the record after it in hand.
OffsetsValid ==
    \A w \in Workers :
        /\ committed[w] <= Backlog(w)
        /\ phase[w] \notin {"idle", "down"} => committed[w] < Backlog(w)

\* The services that consume topic t, and the chains in which n + 1 of them may have passed
\* a record on, one after the other.
Sharers(t) == {s \in Services : TopicOf[s] = t}
Chains(t, n) == [0 .. n -> Sharers(t)]

\* The records of m on topic t, and its letters of generation n: those that a main consumer
\* sent are the generation 0, and a requeued letter is one generation above the other.
RecordsOf(t, m) == {i \in 1 .. Len(log[t]) : log[t][i] = m}
LettersOf(t, m, n) ==
    {i \in 1 .. Len(dlq[t]) : dlq[t][i] = [msg |-> m, retries |-> MaxRetries + n]}

\* Services that share a topic multiply each other's dead letters, each reprocessor
\* requeueing the letters of all of them, but the counts keep this finite: a record yields
\* at most one letter of generation n for each chain of n + 1 services, and a fault, such as
\* a crash after a send and before its commit, no more than a record does.
LettersBounded ==
    \A t \in Topics, m \in Messages, n \in 0 .. MaxDlqAttempts :
        Cardinality(LettersOf(t, m, n)) <=
            (Cardinality(RecordsOf(t, m)) + faults) * Cardinality(Chains(t, n))

=============================================================================
