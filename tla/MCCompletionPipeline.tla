------------------------ MODULE MCCompletionPipeline ------------------------
(* Instances of CompletionPipeline for TLC. *)
EXTENDS CompletionPipeline

CONSTANTS certificate, e1

CertificateTopic == [s \in {certificate} |-> "enrollment.completed"]

=============================================================================
