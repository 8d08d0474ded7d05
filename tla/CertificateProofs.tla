-------------------------- MODULE CertificateProofs -------------------------
(***************************************************************************)
(* Proofs about CertificateIssuing: it implements DeadLetter, so that what *)
(* is proved there holds of it, and the certificate table says what the    *)
(* delivery of completions says.                                           *)
(***************************************************************************)
EXTENDS CompletionPipeline, DeadLetterProofs

CertInv == CertTypeOK /\ HandledIffCertified /\ AtMostOneCertificate

-----------------------------------------------------------------------------
(* Refinement *)

\* The service starts as the delivery does.
LEMMA CertInitRefines == CertInit => Init
BY DEF CertInit

\* Looking for a certificate is a stuttering step of the delivery, inserting one is its
\* Handle, and losing the race for the UNIQUE constraint its HandleRaises.
LEMMA CertStepRefines == [CertNext]_certVars => [Next]_vars
<1> SUFFICES ASSUME [CertNext]_certVars PROVE [Next]_vars
  OBVIOUS
<1>1. CASE UNCHANGED certVars
  BY <1>1 DEF certVars
<1>2. CASE \E t \in Topics, m \in Messages : Publish(t, m)
  BY <1>2 DEF Next
<1>3. ASSUME NEW w \in Workers, CertWork(w)
      PROVE  [Next]_vars
  <2>1. Work(w) \/ UNCHANGED vars
    <3>1. CASE Elsewhere(w)
      BY <3>1 DEF Elsewhere, Work
    <3>2. CASE LookUp(w)
      BY <3>2 DEF LookUp, Work
    <3>3. CASE Insert(w)
      BY <3>3 DEF Insert, Work
    <3>4. CASE InsertConflicts(w) \/ IssueRaises(w)
      BY <3>4 DEF InsertConflicts, IssueRaises, Work
    <3> QED BY <1>3, <3>1, <3>2, <3>3, <3>4 DEF CertWork
  <2> QED BY <2>1 DEF Next
<1>4. ASSUME NEW w \in Workers,
             CertCrash(w) \/ CommitRaises(w) \/ DropSend(w) \/ Restart(w)
      PROVE  [Next]_vars
  BY <1>4 DEF CertCrash, Next
<1> QED BY <1>1, <1>2, <1>3, <1>4 DEF CertNext, CertService

\* The certificate service is an instance of the delivery skeleton.
THEOREM CertificateImplementsDelivery == CertSpec => ImplementsDelivery
BY CertInitRefines, CertStepRefines, PTL DEF CertSpec, ImplementsDelivery, Spec

-----------------------------------------------------------------------------
(* The certificate table *)

\* No certificate, nothing handled, nobody looking.
LEMMA CertInvInit == CertInit => CertInv
BY CertificateAssumption
   DEF CertInit, Init, CertInv, CertTypeOK, HandledIffCertified, AtMostOneCertificate

\* Looking up and inserting in two steps keeps table and delivery in agreement.
LEMMA CertInvStep == CertInv /\ IInv /\ [CertNext]_certVars => CertInv'
<1> SUFFICES ASSUME CertInv, IInv, [CertNext]_certVars PROVE CertInv'
  OBVIOUS
<1> USE DEF CertInv, CertTypeOK, HandledIffCertified, AtMostOneCertificate
<1>1. TypeOK /\ OffsetsValid /\ Certificate \in Services
  BY CertificateAssumption DEF IInv
<1>2. \A w \in Workers : /\ Svc(w) \in Services
                         /\ w \in Issuers <=> Svc(w) = Certificate
                         /\ phase[w] = "handle" => InHand(w) \in Messages
  BY <1>1, WorkersOf, InHandExists DEF Issuers
<1>3. CASE UNCHANGED certVars
  BY <1>3 DEF certVars, vars
<1>4. ASSUME NEW t \in Topics, NEW m \in Messages, Publish(t, m),
             UNCHANGED <<certificates, absent>>
      PROVE  CertInv'
  BY <1>4 DEF Publish
<1>5. ASSUME NEW w \in Workers, Elsewhere(w)
      PROVE  CertInv'
  <2>1. CASE w \notin Issuers /\ Handle(w)
    BY <1>1, <1>2, <1>5, <2>1 DEF Elsewhere, Handle, TypeOK
  <2>2. CASE w \notin Issuers /\ HandleRaises(w)
    <3>1. handled'[Certificate] = handled[Certificate]
      BY <1>1, <1>2, <2>2 DEF HandleRaises, TypeOK
    <3>2. \A v \in Workers : v \in Issuers => phase'[v] = phase[v]
      <4>1. \E p \in {"handle", "reject"} : phase' = [phase EXCEPT ![w] = p]
        BY <1>1, <2>2, NextAttemptEffect DEF HandleRaises
      <4> QED BY <2>2, <4>1, <1>1 DEF TypeOK
    <3> QED BY <1>5, <3>1, <3>2 DEF Elsewhere
  <2>3. CASE \/ Receive(w) \/ Commit(w) \/ SendToDlq(w) \/ Park(w) \/ Requeue(w)
             \/ Settle(w)
    <3>1. handled' = handled /\ UNCHANGED <<certificates, absent>>
      BY <1>5, <2>3 DEF Elsewhere, Receive, Commit, SendToDlq, Park, Requeue, Settle
    <3>2. \A v \in Workers : phase[v] = "handle" => phase'[v] = "handle"
      BY <1>1, <2>3 DEF Receive, Commit, SendToDlq, Park, Requeue, Settle, TypeOK
    <3> QED BY <3>1, <3>2
  <2> QED BY <1>5, <2>1, <2>2, <2>3 DEF Elsewhere
<1>6. ASSUME NEW w \in Issuers, LookUp(w)
      PROVE  CertInv'
  <2>1. w \in Workers /\ Svc(w) = Certificate
    BY DEF Issuers
  <2>2. CASE certificates[InHand(w)] > 0 /\ Handle(w)
    BY <1>1, <1>2, <1>6, <2>1, <2>2 DEF LookUp, Handle, TypeOK
  <2>3. CASE absent' = [absent EXCEPT ![w] = TRUE] /\ UNCHANGED vars
    BY <1>1, <1>6, <2>1, <2>3 DEF LookUp, vars
  <2> QED BY <1>6, <2>2, <2>3 DEF LookUp
<1>7. ASSUME NEW w \in Issuers, Insert(w)
      PROVE  CertInv'
  <2>1. w \in Workers /\ Svc(w) = Certificate /\ phase[w] = "handle" /\ InHand(w) \in Messages
    BY <1>2, <1>7 DEF Issuers, Insert
  <2>2. handled'[Certificate] = handled[Certificate] \cup {InHand(w)}
    BY <1>1, <1>7, <2>1 DEF Insert, Handle, HandleRaises, TypeOK
  <2>3. \A v \in Workers : v # w => phase'[v] = phase[v]
    BY <1>1, <1>7, <2>1, NextAttemptEffect DEF Insert, Handle, HandleRaises, TypeOK
  <2> QED BY <1>7, <2>1, <2>2, <2>3 DEF Insert
<1>8. ASSUME NEW w \in Issuers, InsertConflicts(w) \/ IssueRaises(w)
      PROVE  CertInv'
  <2>1. w \in Workers
    BY DEF Issuers
  <2>2. \A v \in Workers : v # w => phase'[v] = phase[v]
    BY <1>1, <1>8, <2>1, NextAttemptEffect
       DEF InsertConflicts, IssueRaises, HandleRaises, TypeOK
  <2> QED BY <1>8, <2>1, <2>2 DEF InsertConflicts, IssueRaises
<1>9. ASSUME NEW w \in Workers, CertCrash(w)
      PROVE  CertInv'
  BY <1>1, <1>9 DEF CertCrash, Crash, TypeOK
<1>10. ASSUME NEW w \in Workers, CommitRaises(w) \/ DropSend(w) \/ Restart(w),
              UNCHANGED <<certificates, absent>>
       PROVE  CertInv'
  <2>1. \A v \in Workers : phase[v] = "handle" => phase'[v] = "handle"
    BY <1>1, <1>10, NextAttemptEffect DEF CommitRaises, DropSend, Restart, TypeOK
  <2> QED BY <1>10, <2>1 DEF CommitRaises, DropSend, Restart
<1> QED BY <1>3, <1>4, <1>5, <1>6, <1>7, <1>8, <1>9, <1>10 DEF CertNext, CertService, CertWork

\* The inductive invariants of the delivery and of the table hold throughout.
THEOREM CertInvariance == CertSpec => [](IInv /\ CertInv)
<1>1. CertSpec => []IInv
  BY CertificateImplementsDelivery, Invariance, PTL DEF ImplementsDelivery
<1> QED BY <1>1, CertInvInit, CertInvStep, PTL DEF CertSpec

\* The table stays well typed, and only a worker that handles a completion remembers that
\* it found no certificate.
THEOREM CertTypes == CertSpec => []CertTypeOK
<1>1. CertInv => CertTypeOK
  BY DEF CertInv
<1> QED BY <1>1, CertInvariance, PTL

\* The delivery has a completion as handled exactly when its certificate is stored.
THEOREM Agree == CertSpec => []HandledIffCertified
<1>1. CertInv => HandledIffCertified
  BY DEF CertInv
<1> QED BY <1>1, CertInvariance, PTL

\* At most one certificate for an enrollment, however many completions, redeliveries and
\* racing workers there are.
THEOREM AtMostOne == CertSpec => []AtMostOneCertificate
<1>1. CertInv => AtMostOneCertificate
  BY DEF CertInv
<1> QED BY <1>1, CertInvariance, PTL

\* Past the committed offset every completion is certified, or waits, is parked or was
\* dropped: NoMessageVanishes read in the certificate table.
THEOREM Certified == CertSpec => []CompletionsCertified
<1>1. IInv /\ CertInv => CompletionsCertified
  <2> SUFFICES ASSUME IInv, CertInv, NEW i \in 1 .. committed[<<Certificate, "main">>]
               PROVE  LET m == log[TopicOf[Certificate]][i]
                      IN  \/ certificates[m] = 1
                          \/ Pending(Certificate, m)
                          \/ \E p \in failed[TopicOf[Certificate]] :
                                p.msg = m /\ p.by = Certificate
                          \/ m \in lost[Certificate]
    BY DEF CompletionsCertified
  <2> DEFINE m == log[TopicOf[Certificate]][i]
  <2>1. Accounted(Certificate, m)
    BY CertificateAssumption DEF IInv, NothingVanishes
  <2>2. m \in handled[Certificate] => certificates[m] = 1
    BY DEF CertInv, CertTypeOK, HandledIffCertified, AtMostOneCertificate
  <2> QED BY <2>1, <2>2 DEF Accounted, AccountedBeyond, Pending
<1> QED BY <1>1, CertInvariance, PTL

\* Once the service has read to the end, every completion on its topic has its certificate,
\* is parked, or was dropped.
AllCertified ==
    CaughtUp(Certificate) =>
        \A i \in 1 .. Len(log[TopicOf[Certificate]]) :
            LET m == log[TopicOf[Certificate]][i]
            IN  \/ certificates[m] = 1
                \/ \E p \in failed[TopicOf[Certificate]] : p.msg = m /\ p.by = Certificate
                \/ m \in lost[Certificate]

\* What is safe in EventuallyCertified.  Fairness adds that the end is reached.
THEOREM CertifiedInTheEnd == CertSpec => []AllCertified
<1>1. IInv /\ CertInv => AllCertified
  BY CaughtUpDecides, CertificateAssumption
     DEF AllDecided, Decided, AllCertified, CertInv, CertTypeOK, HandledIffCertified,
         AtMostOneCertificate
<1> QED BY <1>1, CertInvariance, PTL

-----------------------------------------------------------------------------
(* The pipeline *)

\* LessonProgress with what is proved about it.
PP == INSTANCE LessonProgressProofs WITH
          Workers <- Slots, MaxFaults <- MaxRequestFaults, faults <- requestFaults

\* LessonProgressProofs asks of the constants what LessonProgress does.
LEMMA ProgressAssumed == PP!ProgressAssumption
BY PipelineAssumption
   DEF P!ProgressAssumption, PP!ProgressAssumption, P!IsFiniteSet, PP!IsFiniteSet

\* The two instances name the same actions.
LEMMA SameProgress == (P!Init => PP!Init) /\ (P!Next => PP!Next)
BY Zenon DEF P!Idle, PP!Idle, P!At, PP!At, P!Held, PP!Held, P!Goto, PP!Goto,
    P!Percent, PP!Percent, P!Cardinality, PP!Cardinality, P!IsFiniteSet, PP!IsFiniteSet,
    P!UnchangedFlow, PP!UnchangedFlow, P!UnchangedRow, PP!UnchangedRow,
    P!Fresh, PP!Fresh, P!WriteRow, PP!WriteRow, P!Limit, PP!Limit,
    P!Init, PP!Init, P!AddLesson, PP!AddLesson, P!Read, PP!Read, P!Look, PP!Look,
    P!Count, PP!Count, P!Total, PP!Total, P!Commit, PP!Commit, P!Refresh, PP!Refresh,
    P!Trigger, PP!Trigger, P!Serve, PP!Serve, P!Fail, PP!Fail, P!Activities, PP!Activities,
    P!RunActivity, PP!RunActivity, P!AttemptFails, PP!AttemptFails, P!Next, PP!Next

\* The enrollment service runs in the pipeline as it does alone.
LEMMA PipeProgress == PipeSpec => PP!Spec
<1>1. PipeInit => PP!Init
  BY SameProgress DEF PipeInit
<1>2. [PipeNext]_pipeVars => [PP!Next]_(PP!vars)
  BY SameProgress DEF PipeNext, Produce, Consume, pipeVars, progressVars, PP!vars
<1> QED BY <1>1, <1>2, PTL DEF PipeSpec, PP!Spec

\* And so does the certificate service: what it consumes is published by Forward.
LEMMA PipeCertificates == PipeSpec => CertSpec
<1>1. PipeInit => CertInit
  BY DEF PipeInit
<1>2. [PipeNext]_pipeVars => [CertNext]_certVars
  <2>1. Stream \in Topics /\ Enrollment \in Messages
    BY DeadLetterAssumption, CertificateAssumption, PipelineAssumption DEF Stream
  <2>2. Forward => [CertNext]_certVars
    BY <2>1 DEF Forward, CertNext, certVars
  <2>3. Consume => CertNext
    BY DEF Consume, CertNext
  <2> QED BY <2>2, <2>3 DEF PipeNext, Produce, pipeVars, certVars
<1> QED BY <1>1, <1>2, PTL DEF PipeSpec, CertSpec

\* Joined by the topic, each of the two services does nothing but what it does alone: whatever
\* is shown of LessonProgress or of CertificateIssuing holds in the pipeline.
THEOREM PipelineImplements == PipeSpec => P!Spec /\ CertSpec
<1>1. PipeInit => P!Init
  BY DEF PipeInit
<1>2. [PipeNext]_pipeVars => [P!Next]_(P!vars)
  BY DEF PipeNext, Produce, Consume, pipeVars, progressVars, P!vars
<1> QED BY <1>1, <1>2, PipeCertificates, PTL DEF PipeSpec, P!Spec

\* What each service keeps alone, it keeps in the pipeline.
LEMMA PipeKeeps == PipeSpec => [](IInv /\ CertInv /\ PP!IInv)
<1>1. PP!Spec => []PP!IInv
  BY PP!ProgressInvariance, ProgressAssumed, PTL
<1> QED BY <1>1, PipeProgress, PipeCertificates, CertInvariance, PTL

\* Until an event is announced, the topic is silent and nobody is certified.
Quiet ==
    announced = 0 => /\ Len(log[Stream]) = 0 /\ Len(dlq[Stream]) = 0
                     /\ certificates[Enrollment] = 0

\* Events are counted up, and nothing else changes the count.
LEMMA AnnouncedGrows == PP!IInv /\ PP!Next => announced' = announced \/ announced' > announced
<1> SUFFICES ASSUME PP!IInv, PP!Next
             PROVE  announced' = announced \/ announced' = announced + 1
  BY DEF PP!IInv, PP!TypeOK
<1> QED BY DEF PP!Next, PP!AddLesson, PP!Serve, PP!Read, PP!Look, PP!Count, PP!Total,
               PP!Commit, PP!Refresh, PP!Trigger, PP!Fail, PP!RunActivity, PP!AttemptFails,
               PP!UnchangedFlow

\* On a silent topic the certificate service has nothing in hand.
LEMMA QuietConsume == IInv /\ CertInv /\ Quiet /\ Consume => Quiet'
<1> SUFFICES ASSUME IInv, CertInv, Quiet, Consume, announced = 0
             PROVE  /\ Len(log'[Stream]) = 0 /\ Len(dlq'[Stream]) = 0
                    /\ certificates'[Enrollment] = 0
  BY DEF Quiet, Consume, progressVars, Stream
<1>1. TypeOK /\ OffsetsValid /\ certificates \in [Messages -> Nat]
  BY DEF IInv, CertInv, CertTypeOK
<1>2. \A w \in Workers : Topic(w) = Stream => phase[w] \in {"idle", "down"}
  <2> SUFFICES ASSUME NEW w \in Workers, Topic(w) = Stream
               PROVE  phase[w] \in {"idle", "down"}
    OBVIOUS
  <2>1. Backlog(w) = 0
    BY DEF Quiet, Backlog
  <2>2. committed[w] \in Nat /\ (phase[w] \notin {"idle", "down"} => committed[w] < Backlog(w))
    BY <1>1 DEF OffsetsValid, TypeOK
  <2> QED BY <2>1, <2>2
<1>3. \A w \in Issuers : phase[w] \in {"idle", "down"} /\ ~ absent[w]
  BY <1>2 DEF Issuers, Svc, Topic, Stream, CertInv, CertTypeOK
<1>4. log' = log /\ dlq'[Stream] = dlq[Stream] /\ certificates' = certificates
  <2>1. ASSUME NEW w \in Workers, CertWork(w)
        PROVE  log' = log /\ dlq'[Stream] = dlq[Stream] /\ certificates' = certificates
    <3>1. certificates' = certificates
      BY <1>3, <2>1 DEF CertWork, Elsewhere, LookUp, Insert, InsertConflicts, IssueRaises
    <3>2. CASE SendToDlq(w) \/ Requeue(w)
      <4>1. Topic(w) # Stream
        BY <1>2, <3>2 DEF SendToDlq, Requeue
      <4>2. \E e : dlq' = [dlq EXCEPT ![Topic(w)] = Append(@, e)]
        BY <3>2 DEF SendToDlq, Requeue
      <4>3. dlq'[Stream] = dlq[Stream]
        BY <1>1, <4>1, <4>2, DeadLetterAssumption, CertificateAssumption DEF Stream, TypeOK
      <4> QED BY <3>1, <3>2, <4>3 DEF SendToDlq, Requeue
    <3>3. CASE w \in Issuers /\ (LookUp(w) \/ Insert(w) \/ InsertConflicts(w) \/ IssueRaises(w))
      BY <1>3, <3>3 DEF LookUp, Insert, InsertConflicts, IssueRaises, HandleRaises
    <3> QED BY <2>1, <3>1, <3>2, <3>3
            DEF CertWork, Elsewhere, Handle, HandleRaises, Receive, Commit, Park, Settle
  <2>2. ASSUME NEW w \in Workers,
               \/ CertCrash(w)
               \/ /\ CommitRaises(w) \/ DropSend(w) \/ Restart(w)
                  /\ UNCHANGED <<certificates, absent>>
        PROVE  log' = log /\ dlq' = dlq /\ certificates' = certificates
    BY <2>2 DEF CertCrash, Crash, CommitRaises, DropSend, Restart
  <2> QED BY <2>1, <2>2 DEF Consume, CertService
<1> QED BY <1>4 DEF Quiet

\* The topic is silent until the first announcement, which is what breaks the silence.
LEMMA PipeQuiet == PipeSpec => []Quiet
<1>1. PipeInit => Quiet
  BY CertificateAssumption, PipelineAssumption, DeadLetterAssumption
     DEF PipeInit, CertInit, Init, Quiet, Stream
<1>2. Quiet /\ IInv /\ CertInv /\ PP!IInv /\ [PipeNext]_pipeVars => Quiet'
  <2> SUFFICES ASSUME Quiet, IInv, CertInv, PP!IInv, [PipeNext]_pipeVars PROVE Quiet'
    OBVIOUS
  <2>1. CASE Produce
    <3>1. CASE Announce
      <4>1. announced \in Nat
        BY DEF PP!IInv, PP!TypeOK
      <4> QED BY <3>1, <4>1 DEF Announce, Quiet
    <3>2. CASE ~ Announce
      <4>1. announced' = announced
        BY <2>1, <3>2, AnnouncedGrows, SameProgress DEF Produce, Announce
      <4> QED BY <2>1, <3>2, <4>1 DEF Produce, Forward, Quiet, Stream, vars
    <3> QED BY <3>1, <3>2
  <2>2. CASE Consume
    BY <2>2, QuietConsume
  <2>3. CASE UNCHANGED pipeVars
    BY <2>3 DEF pipeVars, certVars, vars, progressVars, Quiet, Stream
  <2> QED BY <2>1, <2>2, <2>3 DEF PipeNext
<1> QED BY <1>1, <1>2, PipeKeeps, PTL DEF PipeSpec

\* However many requests see the enrollment become completed, and however often its
\* completion is announced and delivered, it gets one certificate.
THEOREM OneCertificate == PipeSpec => []AtMostOneCertificate
BY PipeCertificates, AtMostOne, PTL

\* A certificate is issued only for an enrollment that is completed, with the lessons done
\* that the course began with, but for the one in 200 that the percentage may round away.
THEOREM CertificateIsEarned == PipeSpec => []CertifiedIsCompleted
<1>1. PP!Spec => []PP!CompletedJustified
  BY PP!Justified, ProgressAssumed, PTL
<1>2. PP!NearlyDone => P!NearlyDone
  BY Zenon DEF PP!NearlyDone, P!NearlyDone, PP!Cardinality, P!Cardinality,
               PP!IsFiniteSet, P!IsFiniteSet
<1>3. /\ Quiet /\ IInv /\ CertInv /\ PP!IInv /\ PP!CompletedJustified
      => CertifiedIsCompleted
  BY <1>2, PipelineAssumption
     DEF Quiet, CertInv, CertTypeOK, PP!IInv, PP!TypeOK, PP!StartedIsCompleted,
         PP!CompletedJustified, CertifiedIsCompleted
<1> QED BY <1>1, <1>3, PipeProgress, PipeKeeps, PipeQuiet, PTL

\* What has been announced is on the topic.
Streamed == announced > 0 => \E i \in 1 .. Len(log[Stream]) : log[Stream][i] = Enrollment

\* An announcement and its record are one step, and records stay.
LEMMA PipeStreamed == PipeSpec => []Streamed
<1>1. PipeInit => Streamed
  BY DEF PipeInit, P!Init, Streamed
<1>2. Streamed /\ IInv /\ IInv' /\ PP!IInv /\ [PipeNext]_pipeVars => Streamed'
  <2> SUFFICES ASSUME Streamed, IInv, IInv', PP!IInv, [PipeNext]_pipeVars, announced' > 0
               PROVE  \E i \in 1 .. Len(log'[Stream]) : log'[Stream][i] = Enrollment
    BY DEF Streamed, Stream
  <2>1. /\ log[Stream] \in Seq(Messages) /\ log'[Stream] \in Seq(Messages)
        /\ Stream \in Topics /\ Enrollment \in Messages
    BY CertificateAssumption, DeadLetterAssumption, PipelineAssumption
       DEF IInv, TypeOK, Stream
  <2>2. CASE Produce /\ Announce
    <3>1. log'[Stream] = Append(log[Stream], Enrollment)
      BY <2>1, <2>2 DEF Produce, Forward, Publish, IInv, TypeOK
    <3> QED BY <2>1, <3>1
  <2>3. CASE Consume \/ (Produce /\ ~ Announce) \/ UNCHANGED pipeVars
    <3>1. announced' = announced
      BY <2>3, AnnouncedGrows, SameProgress
         DEF Produce, Announce, Consume, progressVars, pipeVars
    <3>2. PICK i \in 1 .. Len(log[Stream]) : log[Stream][i] = Enrollment
      BY <3>1 DEF Streamed
    <3>3. [Next]_vars
      <4>1. CASE Consume
        BY <4>1, CertStepRefines DEF Consume, CertNext
      <4>2. CASE (Produce /\ ~ Announce) \/ UNCHANGED pipeVars
        BY <4>2 DEF Produce, Forward, pipeVars, certVars
      <4> QED BY <2>3, <4>1, <4>2
    <3>4. Grows
      BY <3>3, StepGrows DEF IInv
    <3>5. i \in 1 .. Len(log'[Stream]) /\ log'[Stream][i] = Enrollment
      BY <2>1, <3>2, <3>4 DEF Grows
    <3> QED BY <3>5
  <2> QED BY <2>2, <2>3 DEF PipeNext
<1> QED BY <1>1, <1>2, PipeKeeps, PTL DEF PipeSpec

\* A completion that both workers of the certificate service have read past is certified,
\* parked or was dropped: no letter of it is left to wait for.
LEMMA ReadIsDecided ==
    ASSUME IInv, CertInv, Streamed, announced > 0,
           \A w \in Issuers : committed[w] = Backlog(w)
    PROVE  \/ certificates[Enrollment] > 0
           \/ \E p \in failed[Stream] : p.msg = Enrollment /\ p.by = Certificate
           \/ Enrollment \in lost[Certificate]
<1>1. CaughtUp(Certificate)
  BY CertificateAssumption DEF CaughtUp, Issuers, Workers, Svc
<1>2. PICK i \in 1 .. Len(log[Stream]) : log[Stream][i] = Enrollment
  BY DEF Streamed
<1>3. Decided(Certificate, Enrollment)
  BY <1>1, <1>2, CaughtUpDecides, CertificateAssumption DEF AllDecided, Stream
<1> QED BY <1>3, PipelineAssumption DEF Decided, Stream, CertInv, HandledIffCertified

\* What is safe in CompletedIsCertified: once nobody has anything left to do, a completed
\* enrollment is certified, unless its completion was lost in one of the known ways.
THEOREM SettledCertified ==
    ASSUME FetchAttempts <= EmitAttempts
    PROVE  PipeSpec => []SettledIsCertified
<1>1. PP!Spec => [](PP!MarksTrigger /\ PP!EndedIsAnnounced)
  BY PP!MarksStart, PP!EndsAnnounced, ProgressAssumed, PTL
<1>2. /\ IInv /\ CertInv /\ PP!IInv /\ Streamed /\ PP!MarksTrigger /\ PP!EndedIsAnnounced
      => SettledIsCertified
  <2> SUFFICES ASSUME IInv, CertInv, PP!IInv, Streamed, PP!MarksTrigger,
                      PP!EndedIsAnnounced, Settled, status = "completed"
               PROVE  certificates[Enrollment] > 0 \/ LostOnTheWay
    BY DEF SettledIsCertified
  <2>1. requestFaults \in Nat /\ viewed \in BOOLEAN
    BY DEF PP!IInv, PP!TypeOK
  <2>2. PP!AllIdle
    BY DEF Settled, P!AllIdle, P!At, PP!AllIdle, PP!At
  <2>3. flow \in {"none", "completed", "failed"}
    BY DEF PP!IInv, PP!TypeOK, PP!Activities, Settled, P!Activities
  <2>4. CASE flow = "none"
    BY <2>1, <2>2, <2>4 DEF PP!MarksTrigger, LostOnTheWay
  <2>5. CASE flow \in {"completed", "failed"}
    BY <2>5, ReadIsDecided DEF PP!EndedIsAnnounced, LostOnTheWay, Settled
  <2> QED BY <2>3, <2>4, <2>5
<1> QED BY <1>1, <1>2, PipeProgress, PipeKeeps, PipeStreamed, PTL

-----------------------------------------------------------------------------
(* Credit for a course *)

\* A certificate once issued is not taken back.
LEMMA CertificatesStay ==
    ASSUME CertInv, IInv, [CertNext]_certVars, NEW m \in Messages
    PROVE  certificates'[m] = certificates[m] \/ certificates'[m] = 1
<1>1. certificates \in [Messages -> Nat]
  BY DEF CertInv, CertTypeOK
<1>2. ASSUME NEW w \in Workers, CertWork(w)
      PROVE  \/ certificates' = certificates
             \/ certificates' = [certificates EXCEPT ![InHand(w)] = 1]
  BY <1>2 DEF CertWork, Elsewhere, LookUp, Insert, InsertConflicts, IssueRaises
<1>3. certificates' = certificates
      \/ \E w \in Workers : certificates' = [certificates EXCEPT ![InHand(w)] = 1]
  BY <1>2 DEF CertNext, CertService, CertCrash, certVars
<1> QED BY <1>1, <1>3

\* What the enrollment service does, in the words of CourseCredit.
LEMMA ProduceGivesCredit ==
    ASSUME PP!IInv, PP!IInv', PP!CompletedJustified', [PP!Next]_(PP!vars),
           UNCHANGED certificates
    PROVE  [Credit!Next]_(Credit!vars)
<1>1. announced \in Nat /\ status \in {"enrolled", "completed"}
  BY DEF PP!IInv, PP!TypeOK
<1>2. CASE /\ lessons' \in SUBSET Lessons /\ lessons \subseteq lessons'
           /\ UNCHANGED <<done, status, announced>>
  BY <1>2 DEF Credit!Next, Credit!Teach
<1>3. CASE /\ done' \in SUBSET lessons /\ done \subseteq done'
           /\ status' = status \/ status' = "completed"
           /\ UNCHANGED <<lessons, announced>>
  <2>1. status' = "completed" => PP!NearlyDone'
    BY DEF PP!CompletedJustified
  <2>2. PP!NearlyDone' => Credit!Enough(done')
    <3>1. lessons' = lessons
      BY <1>3
    <3> QED BY <3>1, Zenon DEF PP!NearlyDone, Credit!Enough, PP!Cardinality,
            Credit!Cardinality, PP!IsFiniteSet, Credit!IsFiniteSet
  <2> QED BY <1>3, <2>1, <2>2 DEF Credit!Next, Credit!Study
<1>4. CASE /\ announced' = announced + 1 /\ flow # "none"
           /\ UNCHANGED <<lessons, done, status>>
  <2>1. status = "completed"
    BY <1>4 DEF PP!IInv, PP!StartedIsCompleted
  <2>2. announced' > 0
    BY <1>1, <1>4
  <2> QED BY <1>4, <2>1, <2>2 DEF Credit!Next, Credit!Announce
<1> QED BY <1>2, <1>3, <1>4, PP!Moves, ProgressAssumed

\* What the certificate service does: it certifies at most, and only what was announced.
LEMMA ConsumeGivesCredit ==
    ASSUME CertInv, CertInv', IInv, Quiet', PP!IInv, Consume
    PROVE  [Credit!Next]_(Credit!vars)
<1>1. CertNext /\ UNCHANGED <<lessons, done, status, announced>> /\ Enrollment \in Messages
  BY PipelineAssumption DEF Consume, CertNext, progressVars
<1>2. certificates'[Enrollment] = certificates[Enrollment] \/ certificates'[Enrollment] = 1
  BY <1>1, CertificatesStay
<1>3. certificates[Enrollment] \in {0, 1} /\ announced \in Nat
  BY <1>1 DEF CertInv, CertTypeOK, AtMostOneCertificate, PP!IInv, PP!TypeOK
<1>4. certificates'[Enrollment] # certificates[Enrollment] => announced > 0
  BY <1>1, <1>2, <1>3 DEF Quiet
<1>5. CASE certificates'[Enrollment] = certificates[Enrollment]
  BY <1>1, <1>5 DEF Credit!vars
<1>6. CASE certificates'[Enrollment] # certificates[Enrollment]
  <2>1. announced > 0 /\ certificates[Enrollment] = 0 /\ certificates'[Enrollment] = 1
    BY <1>2, <1>3, <1>4, <1>6
  <2> QED BY <1>1, <2>1 DEF Credit!Next, Credit!Certify
<1> QED BY <1>5, <1>6

\* Two services, their races, retries and deliveries, seen as one: an enrollment is completed
\* only with its lessons done, announced only when completed, certified only when announced,
\* and once.
THEOREM PipelineGivesCredit == PipeSpec => ImplementsCredit
<1>1. PP!Spec => []PP!CompletedJustified
  BY PP!Justified, ProgressAssumed, PTL
<1>2. PipeInit => Credit!Init
  BY PipelineAssumption DEF PipeInit, P!Init, CertInit, Credit!Init
<1>3. /\ IInv /\ CertInv /\ CertInv' /\ Quiet' /\ PP!IInv /\ PP!IInv'
      /\ PP!CompletedJustified' /\ [PipeNext]_pipeVars
      => [Credit!Next]_(Credit!vars)
  <2> SUFFICES ASSUME IInv, CertInv, CertInv', Quiet', PP!IInv, PP!IInv',
                      PP!CompletedJustified', [PipeNext]_pipeVars
               PROVE  [Credit!Next]_(Credit!vars)
    OBVIOUS
  <2>1. CASE Produce
    BY <2>1, ProduceGivesCredit, SameProgress DEF Produce, Forward
  <2>2. CASE Consume
    BY <2>2, ConsumeGivesCredit
  <2>3. CASE UNCHANGED pipeVars
    BY <2>3 DEF pipeVars, certVars, progressVars, Credit!vars
  <2> QED BY <2>1, <2>2, <2>3 DEF PipeNext
<1> QED BY <1>1, <1>2, <1>3, PipeProgress, PipeKeeps, PipeQuiet, PTL
        DEF PipeSpec, ImplementsCredit, Credit!Spec

=============================================================================
