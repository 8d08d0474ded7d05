--------------------------- MODULE AnalyticsFacts ---------------------------
(***************************************************************************)
(* The enrollment facts of the analytics service, on top of DeadLetter.    *)
(* Two of its consumers write them, each with a reprocessor, in four       *)
(* threads of two processes:                                               *)
(*                                                                         *)
(*   enrollment.created    create_enrollment_fact inserts an active fact,  *)
(*                         after a SELECT that found none                  *)
(*   enrollment.completed  complete_enrollment_fact makes it completed, or *)
(*                         logs a warning when there is none               *)
(*                                                                         *)
(* Nothing orders the two topics, and a dead letter overtakes nothing.  A  *)
(* message is the payload of either event, named by its enrollment_id.     *)
(***************************************************************************)
EXTENDS DeadLetter

CONSTANTS Created, Completed    \* the two consumer groups

ASSUME FactsAssumption ==
    /\ Created \in Services /\ Completed \in Services
    /\ TopicOf[Created] # TopicOf[Completed]

VARIABLES
    facts,     \* [Messages -> {"none", "active", "completed"}], the fact of an enrollment
    absent,    \* [Workers -> BOOLEAN], the SELECT under way found no fact
    early      \* ghost: enrollments whose completion was handled when they had no fact

factVars == <<vars, facts, absent, early>>

Creators == {w \in Workers : Svc(w) = Created}
Completers == {w \in Workers : Svc(w) = Completed}

FactsInit ==
    /\ Init
    /\ facts = [m \in Messages |-> "none"]
    /\ absent = [w \in Workers |-> FALSE]
    /\ early = {}

SetFact(m, value) == facts' = [facts EXCEPT ![m] = value]
Forget(w) == absent' = [absent EXCEPT ![w] = FALSE]

\* create_enrollment_fact up to its SELECT: it returns when there is a fact.
CreateLookUp(w) ==
    /\ phase[w] = "handle" /\ ~ absent[w]
    /\ InHand(w) \notin Poison
    /\ \/ facts[InHand(w)] # "none" /\ Handle(w) /\ UNCHANGED absent
       \/ /\ facts[InHand(w)] = "none"
          /\ absent' = [absent EXCEPT ![w] = TRUE] /\ UNCHANGED vars
    /\ UNCHANGED <<facts, early>>

\* Mutant: an upsert in place of the INSERT that the UNIQUE column guards.
CreateUpserts(w) ==
    /\ absent[w] /\ Forget(w)
    /\ SetFact(InHand(w), "active")
    /\ Handle(w)
    /\ UNCHANGED early

\* The INSERT commits, and the handler returns or the refresh after it raises.
CreateInsert(w) ==
    /\ absent[w] /\ Forget(w)
    /\ facts[InHand(w)] = "none"
    /\ SetFact(InHand(w), "active")
    /\ \/ Handle(w)
       \/ HandleRaises(w) /\ InHand(w) \in handled'[Created]
    /\ UNCHANGED early

\* Another worker inserted first: the UNIQUE constraint makes the INSERT raise.
CreateConflicts(w) ==
    /\ absent[w] /\ Forget(w)
    /\ facts[InHand(w)] # "none"
    /\ UNCHANGED handled /\ HandleRaises(w)
    /\ UNCHANGED <<facts, early>>

\* Mutant: a completion without a fact creates one.
CompleteCreates(w) ==
    /\ Handle(w)
    /\ SetFact(InHand(w), "completed")
    /\ UNCHANGED <<absent, early>>

\* complete_enrollment_fact: facts are never deleted, so finding the fact and writing it
\* can be one step.  Without a fact the handler returns all the same.
Complete(w) ==
    /\ Handle(w)
    /\ IF facts[InHand(w)] = "none"
       THEN early' = early \cup {InHand(w)} /\ UNCHANGED facts
       ELSE SetFact(InHand(w), "completed") /\ UNCHANGED early
    /\ UNCHANGED absent

\* Mutant: the handler logs its exception instead of raising it.
ErrorSwallowed(w) ==
    /\ phase[w] = "handle" /\ phase' = [phase EXCEPT ![w] = "commit"]
    /\ Forget(w)
    /\ UNCHANGED <<log, dlq, failed, committed, attempt, handled, lost, faults, facts, early>>

\* Decoding, the SELECT or the write raises, and nothing is stored.
FactRaises(w) ==
    /\ UNCHANGED handled /\ HandleRaises(w)
    /\ Forget(w)
    /\ UNCHANGED <<facts, early>>

\* A step of DeadLetter in which the two handlers have no part.
Delivery(w) ==
    /\ \/ w \notin Creators \cup Completers /\ (Handle(w) \/ HandleRaises(w))
       \/ Receive(w) \/ Commit(w) \/ SendToDlq(w) \/ Park(w) \/ Requeue(w) \/ Settle(w)
       \/ CommitRaises(w) \/ DropSend(w) \/ Restart(w)
    /\ UNCHANGED <<facts, absent, early>>

\* Mutant: the restarted worker resumes the lookup of the crashed one.
FactsCrashForgets(w) == Crash(w) /\ UNCHANGED <<facts, absent, early>>

\* The process dies, and with it the session that was looking.
FactsCrash(w) == Crash(w) /\ Forget(w) /\ UNCHANGED <<facts, early>>

FactsNext ==
    \/ /\ \E t \in Topics, m \in Messages : Publish(t, m)
       /\ UNCHANGED <<facts, absent, early>>
    \/ \E w \in Workers : Delivery(w) \/ FactsCrash(w)
    \/ \E w \in Creators :
          CreateLookUp(w) \/ CreateInsert(w) \/ CreateConflicts(w) \/ FactRaises(w)
    \/ \E w \in Completers : Complete(w) \/ FactRaises(w)

FactsSpec == FactsInit /\ [][FactsNext]_factVars

-----------------------------------------------------------------------------
\* The table of the facts as the queries of the reports see it, and the commits that it took.
WithFact == {m \in Messages : facts[m] # "none"}
WithCompleted == {m \in Messages : facts[m] = "completed"}

FactTable == [enrolled |-> WithFact, completed |-> WithCompleted, aged |-> {}, known |-> {}]

Commits == Cardinality(WithFact) + Cardinality(WithCompleted)

\* The reports that read this table; what they do beside that is left alone here.
Reports == INSTANCE Dashboards WITH
    Enrollments <- Messages, Courses <- {}, StudentOf <- <<>>, InstructorOf <- <<>>,
    Servers <- {}, Serves <- <<>>, Before <- {}, MaxWrites <- 2 * Cardinality(Messages),
    db <- FactTable, cache <- <<>>, req <- <<>>, writes <- Commits

-----------------------------------------------------------------------------
FactsTypeOK ==
    /\ facts \in [Messages -> {"none", "active", "completed"}]
    /\ absent \in [Workers -> BOOLEAN] /\ early \in SUBSET Messages
    /\ \A w \in Workers : absent[w] => phase[w] = "handle" /\ w \in Creators

IsPublished(t, m) == \E i \in 1 .. Len(log[t]) : log[t][i] = m

\* What may keep a message past the committed offset of s from being handled.
Deferred(s, m) ==
    \/ Pending(s, m)
    \/ \E p \in failed[TopicOf[s]] : p.msg = m /\ p.by = s
    \/ m \in lost[s]

\* No redelivered, requeued or raced-for creation makes a completed fact active again.
CompletedFactStays ==
    [][\A m \in Messages : facts[m] = "completed" => facts'[m] = "completed"]_factVars

\* The four threads change the table only by the two writes that the reports reckon with:
\* one row more, or one active row completed, each row once of either kind.
WritesAsReported ==
    [][Reports!EnrollmentCreated \/ Reports!EnrollmentCompleted]_facts

\* Past the committed offset of the consumer, every created enrollment has its fact, or
\* waits on the DLQ, or is parked, or its send was dropped.
CreatedAreCounted ==
    \A i \in 1 .. committed[<<Created, "main">>] :
        LET m == log[TopicOf[Created]][i]
        IN  facts[m] # "none" \/ Deferred(Created, m)

\* The same for completions, but for those handled before their enrollment had a fact.
CompletionsCounted ==
    \A i \in 1 .. committed[<<Completed, "main">>] :
        LET m == log[TopicOf[Completed]][i]
        IN  facts[m] = "completed" \/ m \in early \/ Deferred(Completed, m)

\* Neither consumer loses an event on its way into the facts.
EventsCounted == CreatedAreCounted /\ CompletionsCounted

\* The facts count nothing that did not happen: a fact has its creation published, and a
\* completed one its completion as well.
FactsJustified ==
    \A m \in Messages :
        /\ facts[m] # "none" => IsPublished(TopicOf[Created], m)
        /\ facts[m] = "completed" => IsPublished(TopicOf[Completed], m)

\* enrollment.completed "updates enrollment_facts row (status=completed ...)": once the
\* enrollment's creation is published, handling its completion completes the fact.
CompletionsApplied ==
    [][\A m \in Messages :
          /\ m \in handled'[Completed] \ handled[Completed]
          /\ IsPublished(TopicOf[Created], m)
          => facts'[m] = "completed"]_factVars

=============================================================================
