--------------------------- MODULE ProfileShadow ----------------------------
(***************************************************************************)
(* One account of the identity service and its shadow in the course        *)
(* service.  Every request that changes the account ends by handing an     *)
(* event to a thread of the executor; the threads send user.profile_updated*)
(* in any order, and the course service's consumer and reprocessor, two    *)
(* processes on top of DeadLetter, write what they receive into            *)
(* instructor_profiles.                                                    *)
(*                                                                         *)
(*   request:  [ look up -> insert ] or change  -> refresh -> submit       *)
(*   thread:   submitted -> [ registering -> parsing ] -> encoded -> sent  *)
(*                                                                         *)
(* A message is one event, with its own event_id.  Of the profile only     *)
(* is_active ever changes in what the shadow stores.                       *)
(***************************************************************************)
EXTENDS DeadLetter

CONSTANT Course    \* the course service's consumer group

ASSUME ProfileAssumption == Services = {Course} /\ Topics = {TopicOf[Course]}

VARIABLES
    user,      \* the account's row: "none", "active" or "inactive"
    stage,     \* [Messages -> Stages], how far the request or thread of an event is
    content,   \* [Messages -> Profiles], is_active of the profile that an event carries
    schema,    \* the producer's cached schema: "none", "id" (not parsed yet), "parsed"
    shadow,    \* the row of instructor_profiles, written by the consumers only
    seen       \* [Workers -> Profiles \cup {"unread"}], the row as an upsert read it

identityVars == <<user, stage, content, schema>>
shadowVars == <<shadow, seen>>
profileVars == <<vars, identityVars, shadowVars>>

Profiles == {"none", "active", "inactive"}
Stages == {"free", "looked", "rejected", "committed", "submitted", "registering", "parsing",
           "encoded", "sent", "dropped"}

\* Where an event is that may still be sent.
Underway == {"committed", "submitted", "registering", "parsing", "encoded"}

Topic1 == TopicOf[Course]
Main == <<Course, "main">>

ProfileInit ==
    /\ Init
    /\ user = "none"
    /\ stage = [m \in Messages |-> "free"]
    /\ content = [m \in Messages |-> "none"]
    /\ schema = "none"
    /\ shadow = "none"
    /\ seen = [w \in Workers |-> "unread"]

Goto(m, place) == stage' = [stage EXCEPT ![m] = place]

-----------------------------------------------------------------------------
(* The identity service *)

\* create_user looks for the e-mail and finds no account.
LookUpEmail(m) ==
    /\ stage[m] = "free" /\ user = "none"
    /\ Goto(m, "looked")
    /\ UNCHANGED <<vars, shadowVars, user, content, schema>>

\* repo.save of the new account; the UNIQUE index on email lets one registration through.
Register(m) ==
    /\ stage[m] = "looked"
    /\ \/ user = "none" /\ user' = "active" /\ Goto(m, "committed")
       \/ user # "none" /\ UNCHANGED user /\ Goto(m, "rejected")
    /\ UNCHANGED <<vars, shadowVars, content, schema>>

\* update_user_role leaves is_active alone, soft_delete_user clears it, and the commit
\* writes no other column.  Nothing activates an account again.
Change(m) ==
    /\ stage[m] = "free" /\ user # "none"
    /\ user' \in {user, "inactive"}
    /\ Goto(m, "committed")
    /\ UNCHANGED <<vars, shadowVars, content, schema>>

\* session.refresh reads the row again, and run_in_executor takes what it read along.
Submit(m) ==
    /\ stage[m] = "committed"
    /\ content' = [content EXCEPT ![m] = user]
    /\ Goto(m, "submitted")
    /\ UNCHANGED <<vars, shadowVars, user, schema>>

\* _ensure_schema: the first thread registers the schema.  One that finds the id before the
\* schema is parsed encodes with none, which raises; _emit logs that and gives up.  (Two
\* first threads may each create a producer; then neither finds the other's cache.)
EnsureSchema(m) ==
    /\ \/ /\ stage[m] = "submitted"
          /\ UNCHANGED schema
          /\ \/ schema = "none" /\ Goto(m, "registering")
             \/ schema = "id" /\ Goto(m, "dropped")
             \/ schema = "parsed" /\ Goto(m, "encoded")
       \/ /\ stage[m] = "registering" /\ Goto(m, "parsing")
          /\ schema' = IF schema = "none" THEN "id" ELSE schema
       \/ /\ stage[m] = "parsing" /\ Goto(m, "encoded")
          /\ schema' = "parsed"
    /\ UNCHANGED <<vars, shadowVars, user, content>>

\* The producer's send reaches the broker.
Send(m) ==
    /\ stage[m] = "encoded"
    /\ Publish(Topic1, m)
    /\ Goto(m, "sent")
    /\ UNCHANGED <<shadowVars, user, content, schema>>

\* The refresh, the registration or the send fails: the change is stored, its event is not
\* sent.  The exception is logged or, for a send, seen by nobody.
EmitFails(m) ==
    /\ stage[m] \in Underway
    /\ Goto(m, "dropped")
    /\ UNCHANGED <<vars, shadowVars, user, content, schema>>

\* The identity process dies, with its threads and the producer's cache.
IdentityCrash ==
    /\ stage' = [m \in Messages |-> CASE stage[m] \in Underway -> "dropped"
                                       [] stage[m] = "looked" -> "rejected"
                                       [] OTHER -> stage[m]]
    /\ schema' = "none"
    /\ UNCHANGED <<vars, shadowVars, user, content>>

-----------------------------------------------------------------------------
(* The course service *)

Forget(w) == seen' = [seen EXCEPT ![w] = "unread"]

\* session.get: the upsert reads the row, or that there is none.
GetProfile(w) ==
    /\ phase[w] = "handle" /\ seen[w] = "unread"
    /\ InHand(w) \notin Poison
    /\ seen' = [seen EXCEPT ![w] = shadow]
    /\ UNCHANGED <<vars, identityVars, shadow>>

\* Mutant: ON CONFLICT DO NOTHING, a profile that is there is left alone.
WrittenOnce(w) == IF seen[w] = "none" THEN content[InHand(w)] ELSE shadow

\* Mutant: is_active is left out of the update, and the column's default is written.
WrittenDefault(w) == IF seen[w] = "none" THEN content[InHand(w)] ELSE "active"

\* What the commit leaves in the row: an INSERT writes the profile, an UPDATE writes
\* is_active if it differs from what the session read.
Written(w) ==
    IF seen[w] = "none" \/ content[InHand(w)] # seen[w] THEN content[InHand(w)] ELSE shadow

\* The upsert commits.  The handler returns, or the connection is lost before it hears so.
Upsert(w) ==
    /\ seen[w] # "unread" /\ (seen[w] = "none" => shadow = "none")
    /\ shadow' = Written(w)
    /\ \/ Handle(w)
       \/ HandleRaises(w) /\ InHand(w) \in handled'[Course]
    /\ Forget(w)
    /\ UNCHANGED identityVars

\* Decoding, the read or the commit raises: also the INSERT of a profile that the other
\* worker has inserted in between.
UpsertRaises(w) ==
    /\ UNCHANGED handled /\ HandleRaises(w)
    /\ Forget(w)
    /\ UNCHANGED <<identityVars, shadow>>

\* The steps of a consumer or reprocessor around its handler.
Around(w) ==
    /\ \/ Receive(w) \/ Commit(w) \/ SendToDlq(w) \/ Park(w) \/ Requeue(w) \/ Settle(w)
       \/ CommitRaises(w) \/ DropSend(w) \/ Restart(w)
    /\ UNCHANGED <<identityVars, shadowVars>>

\* Mutant: the restarted worker goes on with the row that the crashed one had read.
WorkerCrashKeeps(w) == Crash(w) /\ UNCHANGED <<identityVars, shadowVars>>

\* The process dies, and with it the session of an upsert.
WorkerCrash(w) == Crash(w) /\ Forget(w) /\ UNCHANGED <<identityVars, shadow>>

Identity(m) == \/ LookUpEmail(m) \/ Register(m) \/ Change(m) \/ Submit(m)
               \/ EnsureSchema(m) \/ Send(m) \/ EmitFails(m)

Shadow(w) == GetProfile(w) \/ Upsert(w) \/ UpsertRaises(w) \/ Around(w) \/ WorkerCrash(w)

ProfileNext ==
    \/ \E m \in Messages : Identity(m)
    \/ IdentityCrash
    \/ \E w \in Workers : Shadow(w)

ProfileSpec == ProfileInit /\ [][ProfileNext]_profileVars

-----------------------------------------------------------------------------
ProfileTypeOK ==
    /\ user \in Profiles /\ shadow \in Profiles /\ schema \in {"none", "id", "parsed"}
    /\ stage \in [Messages -> Stages] /\ content \in [Messages -> Profiles]
    /\ seen \in [Workers -> Profiles \cup {"unread"}]
    /\ \A w \in Workers : seen[w] # "unread" => phase[w] = "handle"

\* Two threads sent their events the wrong way round: one that tells of the account while
\* it was active follows one that tells of its deletion.
Inverted ==
    \E i, j \in 1 .. Len(log[Topic1]) :
        i < j /\ content[log[Topic1][i]] = "inactive" /\ content[log[Topic1][j]] = "active"

InOrder == dlq[Topic1] = <<>> /\ ~ Inverted

\* Nothing is on its way to the shadow, and nothing was dropped on the way.
Settled ==
    /\ \A m \in Messages : stage[m] \in {"free", "looked", "rejected", "sent"}
    /\ committed[Main] = Len(log[Topic1])
    /\ lost[Course] = {}

\* With everything delivered, in order and without a dead letter, the shadow is the
\* account: whatever requests overlapped, were redelivered after a crash or stored twice.
ShadowIsAccount == Settled /\ InOrder => shadow = user

\* The shadow of a deleted account is revived by an event that was sent out of order or
\* came back from the dead-letter topic, and by nothing else.
RevivedOutOfOrder ==
    [][shadow = "inactive" /\ shadow' = "active" => ~ InOrder]_profileVars

=============================================================================
