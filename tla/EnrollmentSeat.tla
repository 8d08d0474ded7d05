--------------------------- MODULE EnrollmentSeat ---------------------------
(***************************************************************************)
(* What the enrollment service promises of one student's seat in a course, *)
(* to whoever reads its table or its events: an enrollment id is taken     *)
(* once, is given up only if it was condemned before, is announced only if *)
(* it is held or was condemned, and is announced as cancelled only when it *)
(* is gone; and a seat that is confirmed is neither condemned nor given up *)
(* any more.  EnrollmentSaga implements this, with workflow runs, retries  *)
(* and effects that land late.                                             *)
(***************************************************************************)
EXTENDS Naturals

VARIABLES
    seat,       \* the enrollment the student holds, or None
    issued,     \* every enrollment that was held
    condemned,  \* those that are to be given up, or were
    confirmed,  \* the enrollment that was confirmed, or None
    created,    \* those announced
    cancelled   \* those announced as cancelled

vars == <<seat, issued, condemned, confirmed, created, cancelled>>

None == 0
Ids == Nat \ {0}

Init ==
    /\ seat = None /\ confirmed = None
    /\ issued = {} /\ condemned = {} /\ created = {} /\ cancelled = {}

\* The student takes a seat under an id never seen before.
Take ==
    /\ seat = None
    /\ seat' \in Ids \ issued
    /\ issued' = issued \cup {seat'}
    /\ UNCHANGED <<condemned, confirmed, created, cancelled>>

\* An enrollment is to be given up, unless it is confirmed.
Condemn ==
    /\ \E id \in issued \ {confirmed} : condemned' = condemned \cup {id}
    /\ UNCHANGED <<seat, issued, confirmed, created, cancelled>>

\* It is given up.
Leave ==
    /\ seat \in condemned
    /\ seat' = None
    /\ UNCHANGED <<issued, condemned, confirmed, created, cancelled>>

\* The enrollment is for good, and announced or not.
Confirm ==
    /\ confirmed = None
    /\ seat # None /\ seat \notin condemned
    /\ confirmed' = seat
    /\ created' = created \/ created' = created \cup {seat}
    /\ UNCHANGED <<seat, issued, condemned, cancelled>>

\* An enrollment is announced: one that is held, or that was given up meanwhile.
Announce ==
    /\ \E id \in ({seat} \ {None}) \cup condemned : created' = created \cup {id}
    /\ UNCHANGED <<seat, issued, condemned, confirmed, cancelled>>

\* One that is gone is announced as cancelled.
AnnounceCancelled ==
    /\ \E id \in condemned \ {seat} : cancelled' = cancelled \cup {id}
    /\ UNCHANGED <<seat, issued, condemned, confirmed, created>>

Next == Take \/ Condemn \/ Leave \/ Confirm \/ Announce \/ AnnounceCancelled

Spec == Init /\ [][Next]_vars

=============================================================================
