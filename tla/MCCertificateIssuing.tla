------------------------ MODULE MCCertificateIssuing ------------------------
(* Instances of CertificateIssuing for TLC. *)
EXTENDS CertificateIssuing

CONSTANTS certificate, e1, e2

CertificateTopic == [s \in {certificate} |-> "enrollment.completed"]

=============================================================================
