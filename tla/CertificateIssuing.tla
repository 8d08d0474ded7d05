------------------------- MODULE CertificateIssuing -------------------------
(***************************************************************************)
(* The certificate service on top of DeadLetter: the handler of its main   *)
(* consumer and of its reprocessor is issue_certificate, which looks for a *)
(* certificate of the enrollment and inserts one when there is none, in    *)
(* two steps.  The two workers are separate processes, so both may be in   *)
(* the middle of it for the same enrollment; the UNIQUE constraint on      *)
(* enrollment_id makes the second insert raise.  Other services on the     *)
(* topic run their handlers as DeadLetter says.                            *)
(*                                                                         *)
(* A message is the payload of enrollment.completed, named by its          *)
(* enrollment_id; a poison message is one that does not decode, or lacks a *)
(* field that the handler reads.                                           *)
(***************************************************************************)
EXTENDS DeadLetter

CONSTANT Certificate    \* the certificate service

ASSUME CertificateAssumption == Certificate \in Services

VARIABLES
    certificates,   \* [Messages -> Nat], certificate rows of each enrollment
    absent          \* [Workers -> BOOLEAN], the SELECT under way found no row

certVars == <<vars, certificates, absent>>

Issuers == {w \in Workers : Svc(w) = Certificate}

CertInit ==
    /\ Init
    /\ certificates = [m \in Messages |-> 0]
    /\ absent = [w \in Workers |-> FALSE]

\* Mutant: an existing certificate returns from the loop before the commit.
LookUpSkipsCommit(w) ==
    /\ phase[w] = "handle" /\ ~ absent[w]
    /\ InHand(w) \notin Poison
    /\ IF certificates[InHand(w)] > 0
       THEN /\ phase' = [phase EXCEPT ![w] = "idle"]
            /\ UNCHANGED <<log, dlq, failed, committed, attempt, handled, lost, faults, absent>>
       ELSE absent' = [absent EXCEPT ![w] = TRUE] /\ UNCHANGED vars
    /\ UNCHANGED certificates

\* issue_certificate up to its SELECT: it returns when the enrollment has a certificate.
LookUp(w) ==
    /\ phase[w] = "handle" /\ ~ absent[w]
    /\ InHand(w) \notin Poison
    /\ \/ /\ certificates[InHand(w)] > 0
          /\ Handle(w)
          /\ UNCHANGED absent
       \/ /\ certificates[InHand(w)] = 0
          /\ absent' = [absent EXCEPT ![w] = TRUE]
          /\ UNCHANGED vars
    /\ UNCHANGED certificates

\* Mutant: the table has no UNIQUE constraint on enrollment_id.
InsertUnchecked(w) ==
    /\ absent[w]
    /\ certificates' = [certificates EXCEPT ![InHand(w)] = @ + 1]
    /\ absent' = [absent EXCEPT ![w] = FALSE]
    /\ Handle(w)

\* Mutant: create() flushes and never commits, so closing the session rolls back.
InsertUncommitted(w) ==
    /\ absent[w]
    /\ certificates[InHand(w)] = 0
    /\ absent' = [absent EXCEPT ![w] = FALSE]
    /\ Handle(w)
    /\ UNCHANGED certificates

\* The INSERT commits, and issue_certificate returns or the refresh after it raises.
Insert(w) ==
    /\ absent[w]
    /\ certificates[InHand(w)] = 0
    /\ certificates' = [certificates EXCEPT ![InHand(w)] = 1]
    /\ absent' = [absent EXCEPT ![w] = FALSE]
    /\ \/ Handle(w)
       \/ HandleRaises(w) /\ InHand(w) \in handled'[Certificate]

\* The other worker inserted first: the UNIQUE constraint makes the INSERT raise.
InsertConflicts(w) ==
    /\ absent[w]
    /\ certificates[InHand(w)] > 0
    /\ absent' = [absent EXCEPT ![w] = FALSE]
    /\ UNCHANGED handled /\ HandleRaises(w)
    /\ UNCHANGED certificates

\* Mutant: the handler logs its exception instead of raising it.
IssueErrorSwallowed(w) ==
    /\ phase[w] = "handle"
    /\ phase' = [phase EXCEPT ![w] = "commit"]
    /\ absent' = [absent EXCEPT ![w] = FALSE]
    /\ UNCHANGED <<log, dlq, failed, committed, attempt, handled, lost, faults, certificates>>

\* Decoding, the SELECT or the INSERT raises: nothing is stored.
IssueRaises(w) ==
    /\ absent' = [absent EXCEPT ![w] = FALSE]
    /\ UNCHANGED handled /\ HandleRaises(w)
    /\ UNCHANGED certificates

\* A step of DeadLetter in which issue_certificate has no part; a crash ends the
\* session that was looking.
Elsewhere(w) ==
    /\ \/ w \notin Issuers /\ (Handle(w) \/ HandleRaises(w))
       \/ Receive(w) \/ Commit(w) \/ SendToDlq(w) \/ Park(w) \/ Requeue(w) \/ Settle(w)
    /\ UNCHANGED <<certificates, absent>>

CertWork(w) ==
    \/ Elsewhere(w)
    \/ /\ w \in Issuers
       /\ (LookUp(w) \/ Insert(w) \/ InsertConflicts(w) \/ IssueRaises(w))

\* Mutant: the restarted worker resumes the lookup of the crashed one.
CertCrashForgets(w) ==
    Crash(w) /\ UNCHANGED <<certificates, absent>>

CertCrash(w) ==
    /\ Crash(w)
    /\ absent' = [absent EXCEPT ![w] = FALSE]
    /\ UNCHANGED certificates

\* What the service does with what is published.
CertService ==
    \/ \E w \in Workers : CertWork(w) \/ CertCrash(w)
    \/ /\ \E w \in Workers : CommitRaises(w) \/ DropSend(w) \/ Restart(w)
       /\ UNCHANGED <<certificates, absent>>

CertNext ==
    \/ CertService
    \/ /\ \E t \in Topics, m \in Messages : Publish(t, m)
       /\ UNCHANGED <<certificates, absent>>

CertSpec == CertInit /\ [][CertNext]_certVars

\* A worker that is up keeps running its loop.  Restart is not fair: docker-compose
\* has no restart policy for these services.
CertFairSpec == CertSpec /\ \A w \in Workers : WF_certVars(CertWork(w))

-----------------------------------------------------------------------------
CertTypeOK ==
    /\ certificates \in [Messages -> Nat]
    /\ absent \in [Workers -> BOOLEAN]
    /\ \A w \in Workers : absent[w] => phase[w] = "handle" /\ w \in Issuers

\* However often completions are published, redelivered, requeued and raced for by the
\* two workers, an enrollment has at most one certificate.
AtMostOneCertificate == \A m \in Messages : certificates[m] <= 1

\* Delivery counts a completion as handled exactly when its certificate is stored.
HandledIffCertified == handled[Certificate] = {m \in Messages : certificates[m] > 0}

\* Past the committed offset of the consumer, every completion has its certificate, or
\* waits on the DLQ, or is parked for an operator, or its send was dropped.
CompletionsCertified ==
    \A i \in 1 .. committed[<<Certificate, "main">>] :
        LET m == log[TopicOf[Certificate]][i]
        IN  \/ certificates[m] = 1
            \/ Pending(Certificate, m)
            \/ \E p \in failed[TopicOf[Certificate]] : p.msg = m /\ p.by = Certificate
            \/ m \in lost[Certificate]

\* The certificate service is an instance of the delivery skeleton.
ImplementsDelivery == Spec

\* If its workers are eventually up for good, each completion is certified, parked, or
\* was dropped.
EventuallyCertified ==
    (<>[](\A w \in Issuers : phase[w] # "down")) =>
        \A m \in Messages :
            [](m \in {log[TopicOf[Certificate]][i] : i \in 1 .. Len(log[TopicOf[Certificate]])}
                => <>(\/ certificates[m] = 1
                      \/ \E p \in failed[TopicOf[Certificate]] : p.msg = m /\ p.by = Certificate
                      \/ m \in lost[Certificate]))

=============================================================================
