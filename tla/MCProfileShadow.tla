--------------------------- MODULE MCProfileShadow --------------------------
(* Instances of ProfileShadow for TLC. *)
EXTENDS ProfileShadow, TLC

CONSTANTS course, e1, e2, e3

OneTopic == [s \in {course} |-> "user.profile_updated"]

\* An event is known by its stage and content only.
EventSymmetry == Permutations({e1, e2, e3})

=============================================================================
