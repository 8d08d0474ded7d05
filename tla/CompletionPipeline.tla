------------------------- MODULE CompletionPipeline -------------------------
(***************************************************************************)
(* From the last lesson to the certificate: LessonProgress, the enrollment *)
(* service, publishes on enrollment.completed, and CertificateIssuing      *)
(* consumes it.  The two share nothing but the topic: each announcement of *)
(* CourseCompletionWorkflow is one record of it, and nobody else publishes *)
(* there.  Both sides keep all of their faults.                            *)
(***************************************************************************)
EXTENDS CertificateIssuing

CONSTANTS
    Enrollment,         \* the enrollment whose lessons are marked, as a message
    Lessons, Initial, Slots, Kinds, FetchAttempts, EmitAttempts,
    MaxRequests, MaxRequestFaults, MaxDrops     \* as in LessonProgress

VARIABLES lessons, done, status, progress, viewed, req, flow, tries, starts, announced,
          requests, requestFaults, drops

\* The enrollment service; Slots are the requests that it serves at a time.
P == INSTANCE LessonProgress WITH
         Workers <- Slots, MaxFaults <- MaxRequestFaults, faults <- requestFaults

\* The bound on the topic never holds the producer up.
ASSUME PipelineAssumption ==
    /\ P!ProgressAssumption
    /\ Enrollment \in Messages
    /\ MaxPublished > MaxRequestFaults

Stream == TopicOf[Certificate]

progressVars == <<lessons, done, status, progress, viewed, req, flow, tries, starts,
                  announced, requests, requestFaults, drops>>
pipeVars == <<certVars, progressVars>>

PipeInit == CertInit /\ P!Init

\* Mutant: each completed lesson is published on the same topic.
AnnounceEach == done' # done \/ announced' > announced

\* The step publishes the event, whether or not its attempt is reported to fail.
Announce == announced' > announced

Forward ==
    /\ IF Announce THEN Publish(Stream, Enrollment) ELSE UNCHANGED vars
    /\ UNCHANGED <<certificates, absent>>

\* A step of the enrollment service.
Produce == P!Next /\ Forward

\* A step of the certificate service, or of another consumer of the topic.
Consume == CertService /\ UNCHANGED progressVars

PipeNext == Produce \/ Consume

PipeSpec == PipeInit /\ [][PipeNext]_pipeVars

\* Temporal schedules the workflow, and a worker that is up runs its loop.
PipeFairSpec ==
    /\ PipeSpec
    /\ WF_pipeVars(P!RunActivity /\ Forward)
    /\ \A w \in Workers : WF_pipeVars(CertWork(w) /\ UNCHANGED progressVars)

-----------------------------------------------------------------------------
\* A certificate is issued only for an enrollment that the database of the other service
\* has as completed, with the lessons done that the course began with.
CertifiedIsCompleted ==
    certificates[Enrollment] > 0 => status = "completed" /\ P!NearlyDone

Credit == INSTANCE CourseCredit WITH
              announced <- announced > 0, certificate <- certificates[Enrollment]

\* Whatever requests, retries and deliveries lie between the lessons and the certificate,
\* the two services give credit as CourseCredit says.
ImplementsCredit == Credit!Spec

\* The completion was lost on its way, in one of the ways that the two services have.
LostOnTheWay ==
    \/ flow = "none" /\ (viewed \/ requestFaults > 0)
    \/ requestFaults >= FetchAttempts
    \/ drops > 0
    \/ \E p \in failed[Stream] : p.msg = Enrollment /\ p.by = Certificate
    \/ Enrollment \in lost[Certificate]

\* Nobody has anything left to do: no request is under way, the workflow has ended or was
\* never started, and the two workers of the certificate service have read all there is.
Settled ==
    /\ P!AllIdle /\ flow \notin P!Activities
    /\ \A w \in Issuers : committed[w] = Backlog(w)

\* By then a completed enrollment is certified, unless its completion was lost in a known
\* way: the two services together have no other way of losing one.
SettledIsCertified ==
    Settled /\ status = "completed" => certificates[Enrollment] > 0 \/ LostOnTheWay

\* A completed enrollment is certified in the end, unless its completion was lost in a
\* known way: seen only by a progress view, dropped, or parked.
CompletedIsCertified ==
    (<>[](\A w \in Issuers : phase[w] # "down")) =>
        (status = "completed" /\ P!AllIdle ~> certificates[Enrollment] > 0 \/ LostOnTheWay)

=============================================================================
