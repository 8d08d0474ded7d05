# SmartCourse: TLA+ models and proofs

SmartCourse is a set of Python services - identity, course, enrollment, certificate,
analytics, notification and a gateway - that share no database. They talk over HTTP, over
Kafka topics and through Temporal workflows. Each service is simple; what is hard to get
right lies between them: redelivered and reordered events, activities that are retried or
finish after they were given up, requests that read a row and write it several awaits
later. This directory holds TLA+ models of those parts, the TLC runs that check them, and
proofs that hold for every value of the models' constants.

## 1. Inventory

| component | state | operations | hard behaviour | what makes it correct |
|---|---|---|---|---|
| Event delivery (`services/*/events/*consumer.py`, `dlq_*.py`) | Kafka topics with `.dlq` and `.failed`, committed offsets | consume with 3 tries, dead-letter, reprocess, park, requeue, commit | crashes between two steps, commits that raise, unchecked sends, two services on one dead-letter topic | no message vanishes past a committed offset; letters stay finite; a requeued letter has attempts left |
| Certificate issuing (`certificate/`) | table `certificates` | `issue_certificate` = lookup, then insert | consumer and reprocessor race; redelivery | one certificate per enrollment; each completion certified, pending, parked or dropped |
| Enrollment saga (`enrollment/workflows/enrollment_workflow.py`) | table `enrollments`, the workflow's history, topics `enrollment.created/.cancelled` | request, six activities, compensation | retries, late effects of timed-out attempts, failed compensation, re-enrollment | one row; no row lost but to its own compensation; events tell of what exists |
| Lesson progress (`enrollment/services/enrollment_service.py`) | `lesson_completions`, `progress_percentage`, `status` | mark a lesson, view the progress, trigger the completion workflow | read-modify-write over HTTP calls, flush before commit, two handlers writing one row | completion is justified, stays, starts its workflow once and is announced |
| Course publication (`course/workflows/publish_course_workflow.py`) | `courses.status`, two workflow ids | publish, archive, PATCH, add a lesson | validation and transition are separate activities; blind writes repeated or late | only valid courses leave draft; archive is final; a published course is announced |
| Analytics facts (`analytics/events/`) | `enrollment_facts` | create and complete a fact | two topics with no order between them, four threads | creations counted, completions applied, completed facts stay |
| Analytics dashboards (`analytics/services`, `analytics/repositories`) | `course_facts`, three results cached in Redis | overview, enrollments over time, course report | an answer is several queries, some of them cached by another request; a slow request stores over a newer result | figures of one answer differ by no more than what was written meanwhile; stale results go away |
| Identity (`identity/`) | `users`, token blacklist, the producer's cached schema | register, change role, soft delete, announce | lookup-then-insert, events sent from executor threads | one registration wins; every change is announced or dropped with a warning |
| Instructor profile shadow (`course/events/profile_updater.py`) | `instructor_profiles` | upsert | events reordered by threads and dead letters, two writers | the shadow is the account once events came in order; nothing else revives a deleted account |
| Gateway, notification, certificate API and PDF, monolith shell (`app/`), template | none of their own | proxying, stubs, queries, rendering | none | left out (section 7) |

How they interact: `POST /enrollments` starts the saga, which asks the course service
whether the course is published and announces `enrollment.created`; marking lessons asks
it for the number of lessons and, at 100%, starts `CourseCompletionWorkflow`, which
announces `enrollment.completed`; the certificate and the analytics service both consume
that topic, and so share `enrollment.completed.dlq`; publishing announces
`course.published`; every change of an account announces `user.profile_updated`, from which
the course service keeps its shadow.

`PROJECT.json` lists the hazards found in this code, each at its line with the properties
that would catch it.

## 2. Modules

```
DeadLetter ----------+-- CertificateIssuing -- CompletionPipeline -- CertificateProofs
   |                 |                              | instance
   |                 |                        LessonProgress -- LessonProgressProofs
   +- DeadLetterProofs
                     +-- AnalyticsFacts ---- AnalyticsProofs
                     +-- ProfileShadow ----- ProfileProofs
CompletionPipeline --(implements)--> CourseCredit
EnrollmentSaga --(implements)--> EnrollmentSeat
   +- EnrollmentSagaProofs
CoursePublishing --(implements)--> CourseLife
   +- PublishingProofs
AnalyticsFacts --(writes as supposed by)--> Dashboards
                                              +- DashboardProofs
```

Lines are EXTENDS unless they say otherwise. `CertificateProofs`, `AnalyticsProofs` and
`ProfileProofs` extend `DeadLetterProofs` too: once a service is shown to implement the
delivery, the delivery's invariant is available in its proofs. `CertificateProofs` also
instantiates `LessonProgressProofs` for the pipeline.
`MCDeadLetter`, `MCCertificateIssuing`, `MCAnalyticsFacts`, `MCProfileShadow`,
`MCCompletionPipeline` and `MCDashboards` only give values to function constants and declare
the symmetry. The other modules are parameterised enough to be run as they are.
Definitions whose comment begins with "Mutant" are altered copies of the definition that
follows them; `PROJECT.json` names, for each checked property, one that breaks it.

**DeadLetter** - the skeleton that every consumer and reprocessor runs, the handler being
abstract. A worker is a service and a role, `"main"` or `"dlq"`. `log`, `dlq`, `failed` are
the topics, `committed` the offset of each consumer group, `phase` and `attempt` the place
in `_handle`: `handle` (inside the try), `commit` (the commit inside the try), `reject`
(after the last attempt), `settle` (the commit after it), `down`. Since each record is
committed before the next is taken, the record in hand is the one after the committed
offset (`InHand`). `NextAttempt` is the except branch and is shared by the two actions that
can raise there; `CommitRaises` exists because the commit stands inside the try. `DropSend`
is a send whose unread future failed. `Crash` covers a kill and an exception that leaves
`run()`. `handled` records which effects are stored; `lost` is a ghost of dropped sends.

**CertificateIssuing** - refines the handler to `issue_certificate`: `LookUp`, then
`Insert` or `InsertConflicts` (the UNIQUE constraint), or `IssueRaises`. `Insert` includes
the refresh after the commit, which may raise when the row is already stored. `CertService`
is a step of the service, `Publish` one of whoever writes the topic.

**CompletionPipeline** - `LessonProgress` (as the instance `P`) in front of
`CertificateIssuing`. In `CertificateIssuing` anybody may publish; here a record appears on
`enrollment.completed` exactly when `CourseCompletionWorkflow`'s activity announces
(`Forward`), also when that attempt is then reported to have failed and is repeated. The two
services share no other state, so every step is one of `Produce` and `Consume`.

**CourseCredit** - what the two services promise together of one student in one course, in
four actions: lessons are added (`Teach`), done (`Study`, which may complete the enrollment
when `Enough` are), announced (`Announce`) and certified once (`Certify`). `ImplementsCredit`
(in `CompletionPipeline`) is the refinement: `announced` is whether any event was announced,
`certificate` the rows of the enrollment in `certificates`. Requests, attempts and deliveries
stutter.

**AnalyticsFacts** - refines the handlers of `enrollment.created` and
`enrollment.completed`: `CreateLookUp`/`CreateInsert`/`CreateConflicts`, and `Complete`,
one step because facts are never deleted; without a fact it does nothing and returns.
`Reports` instantiates `Dashboards` over the table (`FactTable`), and `WritesAsReported` says
that the four threads write it only as `Dashboards` supposes: its `EnrollmentCreated` and
`EnrollmentCompleted`, each at most once for an enrollment.

**ProfileShadow** - one account, its events and its row in `instructor_profiles`. A message
is one event: `stage` says how far its request (`looked`, `committed`) or the thread that
sends it (`submitted` .. `sent`) is, `content` what it carries, taken at the refresh after
the commit. `EnsureSchema` has the window in which a thread finds the schema's id and no
parsed schema. `GetProfile` and `Upsert` are the two halves of the upsert: an update writes
`is_active` if it differs from the row as it was read (`seen`).

**EnrollmentSaga** - one student and course: other pairs share neither row nor workflow id.
`step` and `tries` are Temporal's durable history of the run, `late` holds effects of
attempts that were given up and may still land (`LateEffect`), `condemned` is a ghost of
the ids some run decided to cancel. `Create` is the insert that does nothing on a conflict
and then selects; `GiveUp` is what exhausting an activity's attempts does - an exception in
validate or create fails the run, one in the try leads to the compensation, one in the
compensation leaves the row and fails the run.

**EnrollmentSeat** - what the saga promises to whoever reads the table or the events: an id
is taken once, given up only after it was condemned, announced only if held or condemned,
announced as cancelled only when gone; a confirmed seat stays. No runs, retries or late
effects are left. `ImplementsSeat` (in `EnrollmentSaga`) is the refinement: `seat` is the id
of the row (`Held`), `issued` the ids below `nextId`, `confirmed` the id of a run that
completed, unless an earlier run had condemned it (`Confirmed`), the rest has the same name. Most steps of a run stutter.

**LessonProgress** - one enrollment and any number of requests. A request holds the row as
its session read it; `Look` decides on the insert, `Count` flushes it and waits for a
concurrent insert of the same completion, `Total` asks the course service (0 when that
fails), `Commit` writes the columns whose value differs from the row as read, `Refresh`
decides whether the enrollment is newly completed and `Trigger` starts the workflow
(`REJECT_DUPLICATE`). `Percent` is `int(round(completed / total * 100))` with Python's
rounding of halves to even, in exact arithmetic. Floating point may differ from it at some
exact halves, never across 100, which is all that the other state depends on.

**CoursePublishing** - one course and both its workflows, each started once at most
(`REJECT_DUPLICATE`, also after a failure). `Validate` and `Transition` are separate
activities; `AttemptFails` covers an attempt that did nothing, one that committed and could
not report, and one that commits later (`late`, `LandLate`). `patched` and `unsure` are
ghosts: PATCH wrote the status; a transition attempt is, or was, in doubt.

**CourseLife** - what the two workflows promise to whoever sees a course's status or its
events: from draft to published, only when it is ready, to archived, never back to draft, and
announced only once out of draft. A status written by PATCH binds nobody, and as long as the
outcome of a write is in doubt an archived course may be published again (`PublishAgain`).
No workflow, retry or late write is left. `ImplementsLife` (in `CoursePublishing`) is the
refinement: `ready` is `Ready` (a lesson, and a publish workflow started by the instructor),
`edited` and `doubtful` the two ghosts.

**Dashboards** - the fact tables (as sets that only grow, in the way that `AnalyticsFacts`
is shown to write the enrollment facts) and the requests that read them. `Program` lists what an endpoint awaits, in
order: a look into the cache, queries, a write to the cache. Queries in a row are one step
where no property relates their figures. A figure is the size of the set its query counts
(`Pool`), a rate or an average the pair it is made of, a list the enrollments it covers.
`base` is a ghost: the enrollments at the moment a request's oldest figure began to be
computed. Overview and course report share the cached popular courses, so an overview may
contain, and store for another minute, a list that is older than itself.

## 3. What the runs check

Twelve runs. Nine pass; three show a sentence of the repository that the code does not keep
(section 6).

| run | states | bounds | shows |
|---|---|---|---|
| `DeadLetter` | 866 000 | two services on one topic, one record, 1 try, 3 dead-letter attempts, 1 fault | `NothingVanishes`, `RetryCountBounded`, `LettersBounded` |
| `CertificateIssuing` | 120 000 | two enrollments, one of them undecodable, 2 records, 2 tries, 4 dead-letter attempts, 2 faults | one certificate, accounts, `EventuallyCertified`, implements `DeadLetter` |
| `EnrollmentSaga` | 942 000 | the code's attempts (3, 5, 5, 3), 3 runs, 16 faults, 2 late effects | implements `EnrollmentSeat`; rows go only by compensation; runs end; faults are absorbed |
| `LessonProgress` | 300 000 | 2 concurrent requests of 3, 2 lessons and a third added, 3 faults, 1 drop | completion justified, stable, announced; the mark that completes starts the workflow |
| `CoursePublishing` | 50 000 | 2 PATCHes, 4 faults, 1 drop, 3 attempts | implements `CourseLife`; only valid courses leave draft; a published course is announced |
| `AnalyticsFacts` | 345 000 | one enrollment, each event published twice, 1 fault | facts counted, justified, written as the dashboards suppose |
| `ProfileShadow` | 1 090 000 | three events, 2 tries, 3 dead-letter attempts, 1 fault; events symmetric | the shadow is the account; only disorder revives a deleted one |
| `CompletionPipeline` | 1 460 000 | 2 requests at a time of 3, 2 lessons, 1 request fault, 1 drop; 1 try, 2 dead-letter attempts, 1 delivery fault | implements `CourseCredit`; once nothing is left to do (`SettledIsCertified`), and in the end, completions are certified or lost in a known way |
| `Dashboards` | 970 000 | 2 enrollments of 2 students, 1 course, 2 servers (overview; the others), 2 writes | ratios and series explained by concurrent writes; caches converge |

Why the bounds are enough to be interesting. In `DeadLetter`, `MaxRetries = 1` and
`MaxDlqAttempts = 3` make a letter be requeued and then parked; one record on a shared topic
already gives four workers, and the growth that sharing causes. Retry counts of 3 would
only lengthen the loop. In `CertificateIssuing` both copies of a completion can be in the
two workers' hands at once. In `EnrollmentSaga` 16 faults exhaust an activity (3 or 5
attempts) and its compensation (5, then 3) and leave some over for the next run, and two
late effects can land in any order, also in a later run. `LessonProgress` needs two requests
at a time for every race here and a third to come after them. In `CoursePublishing` 4 faults
are one more than an activity that gives up has attempts. In `ProfileShadow` three events
make a registration, a role change and a deletion overlap, and any two of them can be
sent the wrong way round; both workers can be in the upsert at once. In
`CompletionPipeline` two requests can each miss the other's mark, a repeated announcement
puts the completion on the topic twice, and one fault on each side reaches every branch that
the composition adds: the single runs of the two parts have the longer retries. In
`Dashboards` the two servers can each store popular courses while the other is between its
look and its write, and two writes make both an enrollment and its completion fall between
the two queries of a rate, which then exceeds 1; an enrollment may also leave the window.

Bounds are constants named `Max...` that appear in guards only (`MaxPublished`, `MaxFaults`,
`MaxRequestFaults`, `MaxRuns`, `MaxLate`, `MaxRequests`, `MaxDrops`, `MaxEdits`, `MaxWrites`). `CHECK_DEADLOCK FALSE` stands
in every cfg: with its bounds spent, or when a course's or enrollment's life is over, a
model may stop.

## 4. Fairness

- `CertFairSpec`: weak fairness of each worker's loop. A worker that is up keeps running,
  but nothing restarts one (the compose files have no restart policy), so `Restart` is not
  fair and `EventuallyCertified` assumes the two workers up for good from some point on.
- `FairSpec` of `EnrollmentSaga`, `LessonProgress`, `CoursePublishing`: weak fairness of
  the running activity, since Temporal schedules the activities of a running workflow as
  long as a worker polls. In the saga that includes failing attempts, so that a run ends
  even if every attempt fails; faults are bounded, as a retry policy without limit needs.
  Requests, edits, faults and late effects are never fair.
- `PipeFairSpec`: both of the above, for the completion workflow and for the workers of the
  certificate service; as there, a crashed worker need not come back, and
  `CompletedIsCertified` assumes that none stays down.
- `FairSpec` of `Dashboards`: weak fairness of each key's expiry (`SETEX` with 60 seconds) and
  of each request that is being served, which may also fail. Writes and new requests are
  not fair.
- `DeadLetter`, `AnalyticsFacts` and `ProfileShadow` check safety only.

## 5. Proofs

TLAPS proves the following for every value of the constants, from the named assumptions of
the modules (`DeadLetterAssumption`, `SagaAssumption`, ...), which say that limits are
natural numbers and attempts positive; `LessonProgress` also assumes that a course has
finitely many lessons and starts with one. Three theorems ask for more, which the code
gives them: `LettersFinite` finitely many services, `FactsAreWrittenAsReported` finitely many
enrollments, and `EndsAnnounced` with `SettledCertified` that an event has no fewer attempts
than a fetch (`FetchAttempts <= EmitAttempts`; they are 3 and 5).

- **Delivery** (`DeadLetterProofs`). `NothingVanishes` is not inductive: whether a commit is
  safe depends on what the worker did before. `IInv` adds `CommitReady` (about to commit
  after success: the effect is stored) and `SettleReady` (about to commit after a rejection:
  the record is accounted for *beyond* the letter that is about to be passed). The argument
  goes through two lemmas on a step: `StepGrows` (nothing is taken from any topic or effect)
  and `StepMoves` (how a worker's offset and phase may move). Theorems `NoMessageVanishes`,
  `TypeCorrect`, `RetryCounts`, and `ShippedCountsNeverRequeue`: with
  `MaxDlqAttempts <= MaxRetries + 1` no letter is ever requeued. `ReadToTheEnd` adds what
  `NothingVanishes` means when nothing waits: a service that has read topic and dead letters
  to the end has handled or parked every message, unless a send was dropped.
- **Dead letters stay finite** (`LettersFinite`). Services on one topic requeue each other's
  letters, so their number is not bounded by the records alone. Letters are counted by
  generation, the number of requeues behind them, which `Requeue` raises by one. A letter of
  generation n + 1 is made by one service from one letter of generation n (of generation 0,
  from a record), so the pairs of service and carrier that are done with, but for a commit
  still to come (`Passed`), should be no fewer than the letters. They are fewer by the letters
  that are sent again after a worker stopped between send and commit (`Slips`), each a fault:
  the invariant `Charged` shares the faults out among the generations and bounds the `Surplus`
  of each by its share. `ChargesBound` then goes from generation to generation (`NatInduct`),
  multiplying by the number of services that share the topic; `Chains(t, n)` is that product
  without a power (`ChainsCount`).
- **Certificate** (`CertificateProofs`). Every step of the service is a step of `DeadLetter`
  or leaves its variables alone (`CertificateImplementsDelivery`); looking up stutters. With the
  delivery's invariant, `HandledIffCertified` ties the table to `handled` (`Agree`), and
  `AtMostOne` and `Certified` follow, and from `ReadToTheEnd` `CertifiedInTheEnd`.
- **Pipeline** (`CertificateProofs`). A step of the pipeline is a step of each of its parts or
  leaves it alone (`PipelineImplements`), so that the invariants of both hold, and one
  certificate is issued at most (`OneCertificate`). Two invariants join them. `Quiet`: as long
  as nothing was announced, the topic carries no record of the enrollment and no certificate
  is there. With `LessonProgressProofs` instantiated for the producer this gives
  `CertificateIsEarned`: a certificate implies a completed row with the initial lessons done,
  but for at most one in 200, and with `Moves` (what a step can do to what others see of an
  enrollment) the refinement of `CourseCredit` (`PipelineGivesCredit`). `Streamed`: what was announced is on the topic. With `MarksStart`
  and `EndsAnnounced` on the producer's side and `ReadToTheEnd` on the consumer's it gives
  `SettledCertified`: when nobody has anything left to do, a completed enrollment is certified
  or was lost in one of the five ways that `LostOnTheWay` lists, and there is no sixth.
- **Analytics** (`AnalyticsProofs`). The same refinement; then `FactMove` bounds what a step
  can do to the facts, `LettersPublished` says that dead letters carry only published
  messages, and `Justified`, `Counted`, `FactsTypes`, `FactStays` follow. So does `Converged`:
  with both topics read to the end and nothing parked, dropped or early, the table is what
  the topics say, whatever duplicates and orders led there. `FactsAreWrittenAsReported` counts
  the commits, and so links this module to `Dashboards`, whose theorems hold of this table.
- **Profile** (`ProfileProofs`). The same refinement; `EventsSound` says that what is on the
  topic was so and that a change not told yet is under way or dropped, `Tracks` that, until
  something is dead-lettered, the shadow is the profile of the last record committed or of
  the one in hand. `ShadowFollows` and `Revived` follow: a stale shadow needs two events
  sent the wrong way round, a dead letter or a dropped event.
- **Saga** (`EnrollmentSagaProofs`). The invariant needs `Fresh` (ids in use are below
  `nextId`, so a late insert never reuses one), `LateSound` (a late delete hits only a
  condemned id, a late announcement only an id that exists or was condemned, a late
  tombstone only a row that is gone) and `RunSound`. Theorems `OneRow`, `Kept`, `Announced`,
  `ForGood`, and `SagaImplementsSeat`: every step of the saga maps to a step of
  `EnrollmentSeat` or to a stutter. The same invariant carries it: it is what keeps a late
  delete from the abstract `Leave` of an id that was never condemned. A second invariant,
  `Spent`, counts attempts against faults: no row is condemned (`Absorbed`), and no run of a
  course that stays published fails (`FailsForCause`), with fewer faults than the email or the
  event has attempts.
- **Progress** (`LessonProgressProofs`). `Sound` says what a request under way knows: what
  it counted is committed or its own, its total is not above the course's, and if it counted
  as many as it was told there are, it counted the initial lessons. Theorems `Stays`,
  `CompletionStarts`, `MarksStart` (with `Triggering`: until the workflow of a completed
  enrollment is started, some request that read the row as not completed is still to start
  it). `PercentComplete` settles the rounding once and for all: the percentage of c out of t
  lessons reaches 100 exactly when `200 * (t - c) <= t`. `Justified` needs more than `Sound`,
  because count and total are taken at different times and lessons are added between them:
  `CountsCover` says that the initial lessons a request missed are no more than its count
  falls short of its total. It follows, for a course of any size, that a completed enrollment
  misses at most one initial lesson in 200 (`Justified`) and, below 200 lessons, none
  (`JustifiedFully`); `PercentRoundsUp` shows that the bound is sharp. `FlowAccounted` counts
  attempts against faults, and gives `EndsAnnounced`.
- **Publication** (`PublishingProofs`). `PassedWasValid` (a passed validation still vouches
  for owner and lessons, since lessons are never removed), `MovedByPublish` and
  `NothingInDoubt` give `OnlyValidPublished`, `OnlyPublishedArchived` and `Archived`. The same invariant carries
  the refinement of `CourseLife` (`PublishingImplementsLife`): each write of the status, at its
  time or late, is one of the abstract moves or changes nothing. `Attempted` (a workflow that
  failed with few faults was refused, and wrote nothing) gives `PublishEnds`.
- **Dashboards** (`DashboardProofs`). The invariant is `FiguresTrue` (every figure was true
  at some moment since `base`) with `Progressed` (where a request is in its program tells
  which figures it has) and `Filled` (a cached entry has the figures of its key). The ratios
  and the series then are facts about cardinalities of growing sets (`Ratios`, `Series`).
  `CountsConverge`: what was computed since the last enrollment counts enrollments right.

Only model-checked: liveness, which needs ENABLED and so is out of the prover's reach. For each
liveness property a theorem states the part of it that is safe, what must be so when the
system has come to rest, and TLC checks that it comes to rest:

| liveness, checked by TLC | its safe part, proved |
|---|---|
| `EventuallyCertified` | `CertifiedInTheEnd` |
| `CompletedIsCertified` | `SettledCertified` |
| `StartedIsAnnounced` | `EndsAnnounced` |
| `PublishedIsAnnounced` | `PublishEnds` |
| `FaultsAbsorbed` | `FailsForCause` |
| `CachesConverge` | `CountsConverge`, for the figures that count enrollments |
| `EveryRunEnds` | none: that a run ends is all it says |

## 6. Where the code and its documents disagree

Each is the counterexample of a run:

- `LessonProgress_viewed` - two marks that each store 50%, then a progress view: the
  enrollment is completed, and its workflow never starts.
- `CoursePublishing_late` - a publish transition that is repeated after the course was
  archived publishes it again.
- `AnalyticsFacts_order` - a completion consumed before its creation is dropped.

Three more observations are statements of the models rather than runs of their own. With the
shipped limits a message is parked at its first dead-letter attempt, since the letter arrives
with the main consumer's count 3 and the limit is 3 (`ShippedCountsNeverRequeue`). Two
concurrent marks may leave a percentage that counts one of them only, so that the enrollment
is not completed although every lesson is done; a later mark or view completes it, and a view
does so without the workflow, which is why `CompletionPipeline` has `viewed` among the ways
a completion is lost. And the completion rate
that `analytics/schemas/analytics.py` describes as a number from 0 to 1 may exceed 1 for an
answer, by no more than `RatiosExplained` allows.

## 7. What the models leave out

- Payload contents, Avro and the schema registry, tracing, logging, HTTP status codes,
  authentication: no property is about them. A message that does not decode is `Poison`.
- A Kafka topic has one partition and each group one member, as the compose files have it;
  rebalancing is not modelled.
- An `IssueRaises` or `FactRaises` stores nothing. A database commit that succeeds while its
  acknowledgement is lost is modelled where it matters, by the insert whose refresh raises
  and by the attempts of activities that fail after their effect; completing a fact twice is
  idempotent and has no such step.
- Identity's passwords, tokens and blacklist: no other service's state depends on them. A
  second producer, made by two first threads at once, only makes the schema race rarer.
- A compensation that fails five times leaves its row (`GiveUp`); the saga's properties say
  what still holds of such a row, none says that it does not exist.
- The dashboards' window and lengths are the defaults, with which a cache key has one content.
  The number of failed workflows, which Temporal answers, is left out. Facts of archived
  courses stay `published`: the service consumes no event that says otherwise.
- A course whose first publish request failed validation cannot be published through the
  workflow again (`REJECT_DUPLICATE`). The model has it; nothing in the repository promises
  otherwise, so no property is about it.
- A transition activity reads the row and writes it in one step.
- Gateway (a stateless prefix router), notification (stubs that log), certificate API and
  PDF (read only), `app/` (what is left of the monolith: health checks) and `_template/`.

## 8. Plan

Done, in this order: the delivery, certificates on it, the saga, the progress, the
publication, the facts, the profile shadow, the dashboards, the abstract seat and the
pipeline from the last lesson to the certificate; each checked and then proved about. Then
the finiteness of dead letters, the percentage for courses of any size, the abstract life of a
course and the credit for it, the link from the facts to the dashboards, and the safe part of each liveness
property.

Next:

1. An abstract specification of one service's delivery (a set of messages, each handled,
   waiting, parked or dropped) that `DeadLetter` implements, shared by its three clients.
2. Liveness of the facts, under the fairness of `CertFairSpec`.
3. The composition of the saga's events and the facts, as `CompletionPipeline` does it for
   completions.
4. `CountsConverge` for the figures that count students and courses, which needs `base` to
   remember those tables too.
5. Identity's sessions: tokens, the blacklist and their expiry against a role change.
