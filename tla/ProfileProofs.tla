--------------------------- MODULE ProfileProofs ----------------------------
(***************************************************************************)
(* Proofs about ProfileShadow: the course service's profile consumers      *)
(* implement DeadLetter, and a shadow whose events came in order and       *)
(* without a dead letter is the account's profile.                         *)
(***************************************************************************)
EXTENDS ProfileShadow, DeadLetterProofs

\* The event topic and the two workers of the course service.
LEMMA Group ==
    /\ Topic1 \in Topics /\ Course \in Services /\ Main \in Workers
    /\ Svc(Main) = Course /\ Topic(Main) = Topic1 /\ Main[2] = "main"
    /\ \A w \in Workers : /\ Svc(w) = Course /\ Topic(w) = Topic1
                          /\ w # Main => w[2] = "dlq"
BY ProfileAssumption, DeadLetterAssumption
   DEF Topic1, Main, Workers, Roles, Svc, Topic

-----------------------------------------------------------------------------
(* Refinement *)

\* Of the identity service's steps the delivery sees the Send only.
LEMMA IdentityRefines ==
    ASSUME NEW m \in Messages, Identity(m)
    PROVE  \/ UNCHANGED vars
           \/ stage[m] = "encoded" /\ Publish(Topic1, m) /\ Goto(m, "sent")
              /\ UNCHANGED <<user, content>>
BY DEF Identity, LookUpEmail, Register, Change, Submit, EnsureSchema, Send, EmitFails

\* Reading a profile is a stuttering step of the delivery, and an upsert its Handle.
LEMMA ProfileStepRefines == [ProfileNext]_profileVars => [Next]_vars
<1> SUFFICES ASSUME [ProfileNext]_profileVars PROVE [Next]_vars
  OBVIOUS
<1>1. CASE UNCHANGED profileVars \/ IdentityCrash
  BY <1>1 DEF profileVars, IdentityCrash
<1>2. ASSUME NEW m \in Messages, Identity(m)
      PROVE  [Next]_vars
  BY <1>2, IdentityRefines, Group DEF Next
<1>3. ASSUME NEW w \in Workers, Shadow(w)
      PROVE  [Next]_vars
  <2>1. CASE GetProfile(w)
    BY <2>1 DEF GetProfile
  <2>2. CASE Upsert(w) \/ UpsertRaises(w)
    BY <2>2 DEF Upsert, UpsertRaises, Next, Work
  <2>3. CASE Around(w) \/ WorkerCrash(w)
    BY <2>3 DEF Around, WorkerCrash, Next, Work
  <2> QED BY <1>3, <2>1, <2>2, <2>3 DEF Shadow
<1> QED BY <1>1, <1>2, <1>3 DEF ProfileNext

\* The course service's consumers of profile events are an instance of the delivery.
THEOREM ProfileImplementsDelivery == ProfileSpec => Spec
<1>1. ProfileInit => Init
  BY DEF ProfileInit
<1> QED BY <1>1, ProfileStepRefines, PTL DEF ProfileSpec, Spec

-----------------------------------------------------------------------------
(* What the events say of the account *)

\* Stages in which an event carries a profile.
Loaded == {"submitted", "registering", "parsing", "encoded", "sent"}

\* The topic holds the sent events, each event tells of an account that was so, and a
\* change that was not told yet is under way or was dropped.
EventsSound ==
    /\ \A i \in 1 .. Len(log[Topic1]) : stage[log[Topic1][i]] = "sent"
    /\ \A m \in Messages : stage[m] = "sent" =>
          \E i \in 1 .. Len(log[Topic1]) : log[Topic1][i] = m
    /\ \A m \in Messages : stage[m] \in Loaded => content[m] # "none"
    /\ \A m \in Messages : stage[m] = "committed" \/ content[m] # "none" => user # "none"
    /\ \A m \in Messages : content[m] = "inactive" => user = "inactive"
    /\ user # "none" => \E m \in Messages : stage[m] \in Underway \cup {"sent", "dropped"}
    /\ user = "inactive" => \E m \in Messages :
          \/ stage[m] \in {"committed", "dropped"}
          \/ stage[m] \in Loaded /\ content[m] = "inactive"

IdentityTypes ==
    /\ user \in Profiles /\ schema \in {"none", "id", "parsed"}
    /\ stage \in [Messages -> Stages] /\ content \in [Messages -> Profiles]

\* No step of either service touches what belongs to the other.
LEMMA ShadowFrame ==
    ASSUME NEW w \in Workers, Shadow(w)
    PROVE  UNCHANGED <<log, user, stage, content, schema>>
BY DEF Shadow, GetProfile, Upsert, UpsertRaises, Around, WorkerCrash, identityVars, vars,
       Handle, HandleRaises, Receive, Commit, SendToDlq, Park, Requeue, Settle,
       CommitRaises, DropSend, Restart, Crash

\* The identity service's types are kept by all of its steps.
LEMMA IdentityTypesStep ==
    ASSUME IdentityTypes,
           IdentityCrash \/ \E m \in Messages : Identity(m)
    PROVE  IdentityTypes'
<1> USE DEF IdentityTypes, Profiles, Stages, Goto
<1>1. CASE IdentityCrash
  BY <1>1 DEF IdentityCrash
<1>2. ASSUME NEW m \in Messages, Identity(m)
      PROVE  IdentityTypes'
  <2>1. CASE LookUpEmail(m)
    BY <2>1 DEF LookUpEmail
  <2>2. CASE Register(m)
    BY <2>2 DEF Register
  <2>3. CASE Change(m)
    BY <2>3 DEF Change
  <2>4. CASE Submit(m)
    BY <2>4 DEF Submit
  <2>5. CASE EnsureSchema(m)
    BY <2>5 DEF EnsureSchema
  <2>6. CASE Send(m)
    BY <2>6 DEF Send
  <2>7. CASE EmitFails(m)
    BY <2>7 DEF EmitFails
  <2> QED BY <1>2, <2>1, <2>2, <2>3, <2>4, <2>5, <2>6, <2>7 DEF Identity
<1> QED BY <1>1, <1>2

\* The events stay sound while requests and threads overlap in any way.
LEMMA EventsStep ==
    ASSUME TypeOK, IdentityTypes, EventsSound,
           IdentityCrash \/ \E m \in Messages : Identity(m)
    PROVE  EventsSound'
<1>1. Len(log[Topic1]) \in Nat /\ log[Topic1] \in Seq(Messages)
      /\ \A i \in 1 .. Len(log[Topic1]) : log[Topic1][i] \in Messages
  BY Group DEF TypeOK
<1> USE DEF EventsSound, IdentityTypes, Profiles, Loaded, Underway, Goto
<1>2. CASE IdentityCrash
  BY <1>1, <1>2 DEF IdentityCrash, vars
<1>3. ASSUME NEW m \in Messages, Identity(m)
      PROVE  EventsSound'
  <2>1. CASE LookUpEmail(m)
    BY <1>1, <2>1 DEF LookUpEmail, vars
  <2>2. CASE Register(m)
    BY <1>1, <2>2 DEF Register, vars
  <2>3. CASE Change(m)
    BY <1>1, <2>3 DEF Change, vars
  <2>4. CASE Submit(m)
    BY <1>1, <2>4 DEF Submit, vars
  <2>5. CASE EnsureSchema(m)
    BY <1>1, <2>5 DEF EnsureSchema, vars
  <2>6. CASE Send(m)
    <3>1. /\ log'[Topic1] = Append(log[Topic1], m) /\ stage[m] = "encoded"
          /\ stage' = [stage EXCEPT ![m] = "sent"] /\ UNCHANGED <<user, content>>
      BY <2>6, Group DEF Send, Publish, TypeOK
    <3>2. /\ Len(log'[Topic1]) = Len(log[Topic1]) + 1
          /\ \A i \in 1 .. Len(log[Topic1]) : log'[Topic1][i] = log[Topic1][i]
          /\ log'[Topic1][Len(log[Topic1]) + 1] = m
      BY <1>1, <3>1, AppendKeeps
    <3>3. \A i \in 1 .. Len(log'[Topic1]) : stage'[log'[Topic1][i]] = "sent"
      BY <1>1, <3>1, <3>2
    <3>4. \A k \in Messages : stage'[k] = "sent" =>
              \E i \in 1 .. Len(log'[Topic1]) : log'[Topic1][i] = k
      BY <1>1, <3>1, <3>2
    <3>5. \A k \in Messages : /\ stage'[k] \in Loaded <=> stage[k] \in Loaded
                              /\ stage'[k] = "committed" <=> stage[k] = "committed"
                              /\ stage'[k] = "dropped" <=> stage[k] = "dropped"
                              /\ stage'[k] \in Underway \cup {"sent", "dropped"}
                                    <=> stage[k] \in Underway \cup {"sent", "dropped"}
      BY <3>1
    <3> HIDE DEF Loaded, Underway
    <3> QED BY <3>1, <3>3, <3>4, <3>5 DEF Topic1
  <2>7. CASE EmitFails(m)
    BY <1>1, <2>7 DEF EmitFails, vars
  <2> QED BY <1>3, <2>1, <2>2, <2>3, <2>4, <2>5, <2>6, <2>7 DEF Identity
<1> QED BY <1>2, <1>3

-----------------------------------------------------------------------------
(* What the shadow says of the events *)

ShadowTypes ==
    /\ shadow \in Profiles /\ seen \in [Workers -> Profiles \cup {"unread"}]
    /\ \A w \in Workers : seen[w] # "unread" => phase[w] = "handle"

\* The shadow is the profile of record number i, one of the first n of the topic.
Holds(i, n) ==
    i \in 1 .. Len(log[Topic1]) /\ i <= n /\ shadow = content[log[Topic1][i]]

\* As long as nothing was dead-lettered, the shadow is none or the profile of a record
\* that the consumer has taken; and when no dead letter was dropped either, it is that of
\* the last record committed or of the one in hand.
Tracks ==
    dlq[Topic1] = <<>> =>
        /\ phase[Main] = "commit" => Holds(committed[Main] + 1, committed[Main] + 1)
        /\ seen[Main] \in {"unread", shadow}
        /\ shadow = "none" \/ \E i \in Nat : Holds(i, committed[Main] + 1)
        /\ lost[Course] = {} =>
              /\ phase[Main] # "settle"
              /\ \/ committed[Main] = 0 /\ shadow = "none"
                 \/ Holds(committed[Main], committed[Main])
                 \/ Holds(committed[Main] + 1, committed[Main] + 1)

\* Dead letters stay on their topic.
LEMMA LettersStay ==
    ASSUME TypeOK, TypeOK', Grows, dlq'[Topic1] = <<>>
    PROVE  dlq[Topic1] = <<>>
BY Group DEF TypeOK, Grows

\* With no dead letter the reprocessor has nothing in hand.
LEMMA ReprocessorIdles ==
    ASSUME TypeOK, OffsetsValid, dlq[Topic1] = <<>>, NEW w \in Workers, w # Main
    PROVE  phase[w] \in {"idle", "down"} /\ Backlog(w) = 0
BY Group, InHandExists DEF Backlog, TypeOK

\* The record in hand of the consumer is the one after its committed offset.
LEMMA MainInHand ==
    ASSUME TypeOK, OffsetsValid, phase[Main] \notin {"idle", "down"}
    PROVE  /\ committed[Main] + 1 \in 1 .. Len(log[Topic1])
           /\ InHand(Main) = log[Topic1][committed[Main] + 1]
           /\ InHand(Main) \in Messages
BY Group, InHandExists DEF Backlog, InHand

\* Steps of the identity service append to the topic at most, and leave what the records on
\* it carry alone.
LEMMA TracksIdentity ==
    ASSUME TypeOK, IdentityTypes, EventsSound, Tracks, TypeOK', Grows,
           IdentityCrash \/ \E m \in Messages : Identity(m)
    PROVE  Tracks'
<1>1. UNCHANGED <<dlq, phase, committed, lost, shadow, seen>>
  <2>1. CASE IdentityCrash
    BY <2>1 DEF IdentityCrash, vars, shadowVars
  <2>2. ASSUME NEW m \in Messages, Identity(m)
        PROVE  UNCHANGED <<dlq, phase, committed, lost, shadow, seen>>
    BY <2>2 DEF Identity, LookUpEmail, Register, Change, Submit, EnsureSchema, Send,
                EmitFails, vars, shadowVars, Publish
  <2> QED BY <2>1, <2>2
<1>2. \A k \in Messages : stage[k] = "sent" => content'[k] = content[k]
  <2>1. ASSUME NEW m \in Messages, Identity(m)
        PROVE  \A k \in Messages : stage[k] = "sent" => content'[k] = content[k]
    BY <2>1 DEF Identity, LookUpEmail, Register, Change, Submit, EnsureSchema, Send,
                EmitFails, IdentityTypes
  <2> QED BY <2>1 DEF IdentityCrash
<1>3. \A i \in 1 .. Len(log[Topic1]) :
          i \in 1 .. Len(log'[Topic1]) /\ content'[log'[Topic1][i]] = content[log[Topic1][i]]
  <2> SUFFICES ASSUME NEW i \in 1 .. Len(log[Topic1])
               PROVE  /\ i \in 1 .. Len(log'[Topic1])
                      /\ content'[log'[Topic1][i]] = content[log[Topic1][i]]
    OBVIOUS
  <2>1. /\ log[Topic1][i] \in Messages /\ log'[Topic1][i] = log[Topic1][i]
        /\ Len(log[Topic1]) <= Len(log'[Topic1]) /\ Len(log'[Topic1]) \in Nat
    BY Group DEF Grows, TypeOK
  <2>2. stage[log[Topic1][i]] = "sent"
    BY DEF EventsSound
  <2> QED BY <1>2, <2>1, <2>2
<1>4. \A i, n : Holds(i, n) => Holds(i, n)'
  BY <1>1, <1>3 DEF Holds, Topic1
<1> QED BY <1>1, <1>4 DEF Tracks, Topic1, Main

\* A step of a worker leaves the topic and what its records carry alone.
LEMMA HoldsKept ==
    ASSUME NEW w \in Workers, Shadow(w), shadow' = shadow
    PROVE  \A i, n : Holds(i, n)' <=> Holds(i, n)
BY ShadowFrame DEF Holds, Topic1

\* While there is no dead letter, a step of the reprocessor can only stop or start it.
LEMMA ReprocessorStep ==
    ASSUME TypeOK, OffsetsValid, ShadowTypes, dlq[Topic1] = <<>>,
           NEW w \in Workers, w # Main, Shadow(w)
    PROVE  /\ UNCHANGED <<dlq, committed, lost, shadow>>
           /\ phase'[Main] = phase[Main] /\ seen'[Main] = seen[Main]
<1>1. phase[w] \in {"idle", "down"} /\ Backlog(w) = 0 /\ committed[w] \in Nat
  BY ReprocessorIdles DEF TypeOK
<1>2. CASE Crash(w) \/ Restart(w)
  BY <1>2, <1>1, Group
     DEF Shadow, GetProfile, Upsert, UpsertRaises, Around, WorkerCrash, Crash, Restart,
         Forget, shadowVars, Handle, HandleRaises, TypeOK, ShadowTypes
<1>3. ~ \/ GetProfile(w) \/ Upsert(w) \/ UpsertRaises(w) \/ Receive(w) \/ Commit(w)
        \/ SendToDlq(w) \/ Park(w) \/ Requeue(w) \/ Settle(w) \/ CommitRaises(w)
        \/ DropSend(w)
  BY <1>1 DEF GetProfile, Upsert, UpsertRaises, Handle, HandleRaises, Receive, Commit,
              SendToDlq, Park, Requeue, Settle, CommitRaises, DropSend
<1> QED BY <1>2, <1>3 DEF Shadow, Around, WorkerCrash

\* Every step of a worker keeps the types of the shadow and of what it reads.
LEMMA ShadowTypesStep ==
    ASSUME TypeOK, TypeOK', OffsetsValid, IdentityTypes, ShadowTypes,
           NEW w \in Workers, Shadow(w)
    PROVE  ShadowTypes'
<1> USE DEF ShadowTypes
<1>1. \A v \in Workers : v # w => phase'[v] = phase[v]
  BY NextAttemptEffect
     DEF Shadow, GetProfile, Upsert, UpsertRaises, Around, WorkerCrash, Handle, HandleRaises,
         Receive, Commit, SendToDlq, Park, Requeue, Settle, CommitRaises, DropSend, Restart,
         Crash, vars, TypeOK
<1>2. CASE GetProfile(w)
  BY <1>2 DEF GetProfile, vars
<1>3. CASE Upsert(w)
  <2>1. InHand(w) \in Messages
    BY <1>3, InHandExists DEF Upsert, Handle, HandleRaises
  <2>2. shadow' \in Profiles
    BY <1>3, <2>1 DEF Upsert, Written, IdentityTypes
  <2> QED BY <1>1, <1>3, <2>2 DEF Upsert, Forget
<1>4. CASE UpsertRaises(w) \/ WorkerCrash(w)
  BY <1>1, <1>4 DEF UpsertRaises, WorkerCrash, Forget
<1>5. CASE Around(w)
  <2>1. phase[w] = "handle" => phase'[w] = "handle"
    BY <1>5 DEF Around, Receive, Commit, SendToDlq, Park, Requeue, Settle, CommitRaises,
                DropSend, Restart
  <2>2. UNCHANGED <<shadow, seen>>
    BY <1>5 DEF Around, shadowVars
  <2> QED BY <1>1, <2>1, <2>2
<1> QED BY <1>2, <1>3, <1>4, <1>5 DEF Shadow

\* While there is no dead letter, what the consumer writes is the record in hand: the
\* profile that it read is still the shadow.
LEMMA WritesRecord ==
    ASSUME TypeOK, OffsetsValid, IdentityTypes, Tracks, dlq[Topic1] = <<>>, Upsert(Main)
    PROVE  /\ committed[Main] + 1 \in 1 .. Len(log[Topic1])
           /\ shadow' = content[log[Topic1][committed[Main] + 1]]
<1>1. phase[Main] = "handle"
  BY DEF Upsert, Handle, HandleRaises
<1>2. seen[Main] = shadow
  BY DEF Tracks, Upsert
<1> QED BY <1>1, <1>2, MainInHand DEF Upsert, Written

\* What the upsert of the consumer leaves.
LEMMA TracksUpsert ==
    ASSUME TypeOK, TypeOK', OffsetsValid, IdentityTypes, ShadowTypes, Tracks,
           dlq[Topic1] = <<>>, Upsert(Main)
    PROVE  Tracks'
<1>1. /\ committed[Main] \in Nat /\ committed' = committed /\ lost' = lost /\ log' = log
      /\ content' = content /\ phase'[Main] # "settle" /\ seen'[Main] = "unread"
  BY Group, NextAttemptEffect
     DEF Upsert, Handle, HandleRaises, Forget, identityVars, TypeOK, ShadowTypes
<1>2. Holds(committed[Main] + 1, committed[Main] + 1)'
  BY <1>1, WritesRecord DEF Holds, Topic1, Main
<1> QED BY <1>1, <1>2 DEF Tracks, Main

\* What the other steps of the consumer leave, which do not write the shadow.
LEMMA TracksMain ==
    ASSUME TypeOK, TypeOK', OffsetsValid, ShadowTypes, Tracks, Grows,
           dlq[Topic1] = <<>>, dlq'[Topic1] = <<>>,
           Shadow(Main), ~ Upsert(Main)
    PROVE  Tracks'
<1>0. PICK c \in Nat : c = committed[Main]
  BY Group DEF TypeOK
<1>1. shadow' = shadow
  BY DEF Shadow, GetProfile, UpsertRaises, Around, WorkerCrash, shadowVars
<1>2. \A i, n : Holds(i, n)' <=> Holds(i, n)
  BY <1>1, HoldsKept, Group
<1>3. ASSUME committed'[Main] = c, lost'[Course] = {} => lost[Course] = {},
             phase'[Main] \notin {"commit", "settle"}, seen'[Main] \in {"unread", shadow}
      PROVE  Tracks'
  BY <1>0, <1>1, <1>2, <1>3 DEF Tracks, Main
<1>4. CASE GetProfile(Main)
  BY <1>0, <1>3, <1>4, Group DEF GetProfile, vars, ShadowTypes
<1>5. CASE UpsertRaises(Main) \/ WorkerCrash(Main)
  BY <1>0, <1>3, <1>5, NextAttemptEffect, Group
     DEF UpsertRaises, WorkerCrash, HandleRaises, Crash, Forget, ShadowTypes, TypeOK
<1>6. CASE Around(Main)
  <2>1. UNCHANGED <<shadow, seen>>
    BY <1>6 DEF Around, shadowVars
  <2>2. CASE Receive(Main) \/ CommitRaises(Main) \/ Restart(Main)
    BY <1>0, <1>3, <2>1, <2>2, NextAttemptEffect, Group
       DEF Receive, CommitRaises, Restart, TypeOK, Tracks
  <2>3. CASE Commit(Main)
    <3>1. /\ phase[Main] = "commit" /\ phase'[Main] = "idle"
          /\ committed'[Main] = c + 1 /\ lost' = lost
      BY <1>0, <2>3, Group DEF Commit, TypeOK
    <3>2. Holds(c + 1, c + 1)
      BY <1>0, <3>1 DEF Tracks
    <3>3. Holds(c + 1, c + 1)' /\ Holds(c + 1, c + 2)'
      BY <1>1, <1>2, <3>2 DEF Holds
    <3>4. /\ phase'[Main] # "commit" /\ phase'[Main] # "settle" /\ c + 1 \in Nat
          /\ committed'[Main] + 1 = c + 2 /\ seen'[Main] \in {"unread", shadow'}
      BY <1>1, <2>1, <3>1 DEF Tracks
    <3> QED BY <3>1, <3>3, <3>4 DEF Tracks, Main
  <2>4. CASE Settle(Main)
    <3>1. /\ phase[Main] = "settle" /\ phase'[Main] = "idle"
          /\ committed'[Main] = c + 1 /\ lost' = lost
      BY <1>0, <2>4, Group DEF Settle, TypeOK
    <3>2. lost[Course] # {}
      BY <1>0, <3>1 DEF Tracks
    <3>3. \A i \in Nat : Holds(i, c + 1) => Holds(i, c + 2)'
      BY <1>1, <1>2 DEF Holds
    <3>4. shadow' = "none" \/ \E i \in Nat : Holds(i, c + 2)'
      BY <1>0, <1>1, <3>3 DEF Tracks
    <3>5. /\ phase'[Main] # "commit" /\ committed'[Main] + 1 = c + 2
          /\ seen'[Main] \in {"unread", shadow'} /\ lost'[Course] # {}
      BY <1>1, <2>1, <3>1, <3>2 DEF Tracks
    <3> QED BY <3>4, <3>5 DEF Tracks, Main
  <2>5. CASE DropSend(Main)
    <3>1. lost'[Course] # {} /\ phase'[Main] = "settle" /\ committed' = committed
      BY <2>5, Group DEF DropSend, TypeOK
    <3> QED BY <1>0, <1>1, <1>2, <2>1, <3>1 DEF Tracks, Main
  <2>6. CASE SendToDlq(Main)
    <3>1. [msg |-> InHand(Main), retries |-> MaxRetries] \in Letters
      BY <2>6, MainInHand, DeadLetterAssumption DEF SendToDlq, Letters
    <3>2. /\ dlq[Topic1] \in Seq(Letters)
          /\ dlq'[Topic1] = Append(dlq[Topic1],
                                  [msg |-> InHand(Main), retries |-> MaxRetries])
      BY <2>6, Group DEF SendToDlq, TypeOK
    <3>3. Len(dlq'[Topic1]) = Len(dlq[Topic1]) + 1 /\ Len(dlq[Topic1]) \in Nat
      BY <3>1, <3>2, AppendKeeps
    <3> QED BY <3>3
  <2>7. ~ (Park(Main) \/ Requeue(Main))
    BY Group DEF Park, Requeue
  <2> QED BY <1>6, <2>2, <2>3, <2>4, <2>5, <2>6, <2>7 DEF Around
<1> QED BY <1>4, <1>5, <1>6 DEF Shadow

-----------------------------------------------------------------------------
(* The inductive invariant *)

ProfileInv == IdentityTypes /\ EventsSound /\ ShadowTypes /\ Tracks

\* Nothing is sent and nothing is shadowed before the account exists.
LEMMA ProfileInvInit == ProfileInit => ProfileInv
<1> SUFFICES ASSUME ProfileInit PROVE ProfileInv
  OBVIOUS
<1>1. /\ log[Topic1] = <<>> /\ committed[Main] = 0 /\ phase[Main] = "idle"
      /\ seen[Main] = "unread"
  BY Group DEF ProfileInit, Init
<1>2. IdentityTypes /\ ShadowTypes
  BY DEF ProfileInit, IdentityTypes, ShadowTypes, Profiles, Stages
<1>3. EventsSound
  BY <1>1 DEF ProfileInit, EventsSound, Loaded
<1>4. Tracks
  BY <1>1 DEF ProfileInit, Tracks
<1> QED BY <1>2, <1>3, <1>4 DEF ProfileInv

\* Every step of either service keeps the invariant.
LEMMA ProfileInvStep == IInv /\ ProfileInv /\ [ProfileNext]_profileVars => ProfileInv'
<1> SUFFICES ASSUME IInv, ProfileInv, [ProfileNext]_profileVars PROVE ProfileInv'
  OBVIOUS
<1>1. /\ TypeOK /\ TypeOK' /\ OffsetsValid /\ Grows
      /\ IdentityTypes /\ EventsSound /\ ShadowTypes /\ Tracks
  BY ProfileStepRefines, TypeStep, StepGrows DEF IInv, ProfileInv
<1>2. CASE UNCHANGED profileVars
  BY <1>1, <1>2 DEF profileVars, identityVars, shadowVars, vars, ProfileInv, IdentityTypes,
                    EventsSound, ShadowTypes, Tracks, Holds, Main, Topic1
<1>3. CASE IdentityCrash \/ \E m \in Messages : Identity(m)
  <2>1. UNCHANGED <<phase, shadow, seen>>
    BY <1>3 DEF IdentityCrash, Identity, LookUpEmail, Register, Change, Submit,
                EnsureSchema, Send, EmitFails, vars, shadowVars, Publish
  <2>2. ShadowTypes'
    BY <1>1, <2>1 DEF ShadowTypes
  <2> QED BY <1>1, <1>3, <2>2, IdentityTypesStep, EventsStep, TracksIdentity
          DEF ProfileInv
<1>4. ASSUME NEW w \in Workers, Shadow(w)
      PROVE  ProfileInv'
  <2>1. IdentityTypes' /\ EventsSound'
    BY <1>1, <1>4, ShadowFrame DEF IdentityTypes, EventsSound, Topic1
  <2>2. ShadowTypes'
    BY <1>1, <1>4, ShadowTypesStep
  <2>3. ASSUME dlq'[Topic1] = <<>>
        PROVE  Tracks'
    <3>1. dlq[Topic1] = <<>>
      BY <1>1, <2>3, LettersStay
    <3>2. CASE w # Main
      <4>1. /\ UNCHANGED <<dlq, committed, lost, shadow>>
            /\ phase'[Main] = phase[Main] /\ seen'[Main] = seen[Main]
        BY <1>1, <1>4, <3>1, <3>2, ReprocessorStep
      <4>2. \A i, n : Holds(i, n)' <=> Holds(i, n)
        BY <1>4, <4>1, HoldsKept
      <4> QED BY <1>1, <4>1, <4>2 DEF Tracks, Main, Topic1
    <3>3. CASE w = Main /\ Upsert(Main)
      BY <1>1, <3>1, <3>3, TracksUpsert
    <3>4. CASE w = Main /\ ~ Upsert(Main)
      BY <1>1, <1>4, <2>3, <3>1, <3>4, TracksMain
    <3> QED BY <3>2, <3>3, <3>4
  <2>4. Tracks'
    BY <2>3 DEF Tracks, Topic1
  <2> QED BY <2>1, <2>2, <2>4 DEF ProfileInv
<1> QED BY <1>2, <1>3, <1>4 DEF ProfileNext

\* The inductive invariants of the delivery, the events and the shadow hold throughout.
THEOREM ProfileInvariance == ProfileSpec => [](IInv /\ ProfileInv)
<1>1. ProfileSpec => []IInv
  BY ProfileImplementsDelivery, Invariance, PTL
<1> QED BY <1>1, ProfileInvInit, ProfileInvStep, PTL DEF ProfileSpec

\* Account, events and shadow stay well typed, and what a worker has read of the shadow it
\* forgets with the record.
THEOREM ProfileTypes == ProfileSpec => []ProfileTypeOK
<1>1. ProfileInv => ProfileTypeOK
  BY DEF ProfileInv, IdentityTypes, ShadowTypes, ProfileTypeOK
<1> QED BY <1>1, ProfileInvariance, PTL

\* An event on the topic tells that the account was active or inactive, and inactive only
\* of an account that is.
LEMMA RecordTells ==
    ASSUME TypeOK, IdentityTypes, EventsSound, NEW i \in 1 .. Len(log[Topic1])
    PROVE  /\ content[log[Topic1][i]] \in {"active", "inactive"} /\ user # "none"
           /\ content[log[Topic1][i]] = "inactive" => user = "inactive"
<1>1. log[Topic1][i] \in Messages /\ stage[log[Topic1][i]] = "sent"
  BY Group DEF TypeOK, EventsSound
<1> QED BY <1>1 DEF EventsSound, IdentityTypes, Profiles, Loaded

\* With everything delivered in order and without a dead letter the shadow is the account's
\* profile, for any number of requests, retries, crashes and redeliveries.
THEOREM ShadowFollows == ProfileSpec => []ShadowIsAccount
<1>1. IInv /\ ProfileInv => ShadowIsAccount
  <2> SUFFICES ASSUME IInv, ProfileInv, Settled, InOrder PROVE shadow = user
    BY DEF ShadowIsAccount
  <2>1. /\ TypeOK /\ IdentityTypes /\ EventsSound /\ Tracks
        /\ dlq[Topic1] = <<>> /\ lost[Course] = {}
    BY DEF IInv, ProfileInv, InOrder, Settled
  <2>2. PICK n \in Nat : n = Len(log[Topic1]) /\ committed[Main] = n
    BY <2>1, Group DEF Settled, TypeOK
  <2>3. \/ n = 0 /\ shadow = "none"
        \/ n \in 1 .. n /\ shadow = content[log[Topic1][n]]
    BY <2>1, <2>2 DEF Tracks, Holds
  <2>4. ASSUME user # "none"
        PROVE  n > 0
    <3>1. PICK m \in Messages : stage[m] = "sent"
      BY <2>1, <2>4 DEF EventsSound, Settled, Underway
    <3> QED BY <2>1, <2>2, <3>1 DEF EventsSound
  <2>5. CASE user = "none"
    BY <2>1, <2>2, <2>3, <2>5, RecordTells
  <2>6. CASE user = "active"
    BY <2>1, <2>2, <2>3, <2>4, <2>6, RecordTells
  <2>7. CASE user = "inactive"
    <3>1. PICK m \in Messages : stage[m] = "sent" /\ content[m] = "inactive"
      BY <2>1, <2>7 DEF EventsSound, Settled, Loaded
    <3>2. PICK i \in 1 .. Len(log[Topic1]) : log[Topic1][i] = m
      BY <2>1, <3>1 DEF EventsSound
    <3>3. n \in 1 .. Len(log[Topic1]) /\ shadow = content[log[Topic1][n]]
      BY <2>2, <2>3, <3>2
    <3>4. content[log[Topic1][n]] # "active"
      BY <2>2, <3>1, <3>2, <3>3 DEF InOrder, Inverted
    <3> QED BY <2>1, <2>7, <3>3, <3>4, RecordTells
  <2> QED BY <2>1, <2>5, <2>6, <2>7 DEF IdentityTypes, Profiles
<1> QED BY <1>1, ProfileInvariance, PTL

\* Only an event that was sent out of order, or that came back from the dead-letter topic,
\* makes the shadow of a deleted account active again.
THEOREM Revived == ProfileSpec => RevivedOutOfOrder
<1>1. IInv /\ ProfileInv /\ [ProfileNext]_profileVars =>
         (shadow = "inactive" /\ shadow' = "active" => ~ InOrder)
  <2> SUFFICES ASSUME IInv, ProfileInv, [ProfileNext]_profileVars, InOrder,
                      shadow = "inactive", shadow' = "active"
               PROVE  FALSE
    OBVIOUS
  <2>1. /\ TypeOK /\ OffsetsValid /\ IdentityTypes /\ ShadowTypes /\ Tracks
        /\ dlq[Topic1] = <<>>
    BY DEF IInv, ProfileInv, InOrder
  <2>2. PICK w \in Workers : Shadow(w)
    BY DEF ProfileNext, IdentityCrash, Identity, LookUpEmail, Register, Change, Submit,
           EnsureSchema, Send, EmitFails, shadowVars, profileVars
  <2>3. Upsert(w)
    BY <2>2 DEF Shadow, GetProfile, UpsertRaises, Around, WorkerCrash, shadowVars
  <2>4. w = Main
    BY <2>1, <2>2, ReprocessorStep
  <2>5. /\ committed[Main] + 1 \in 1 .. Len(log[Topic1])
        /\ content[log[Topic1][committed[Main] + 1]] = "active"
    BY <2>1, <2>3, <2>4, WritesRecord
  <2>6. PICK i \in Nat : Holds(i, committed[Main] + 1)
    BY <2>1 DEF Tracks
  <2>7. i \in 1 .. Len(log[Topic1]) /\ i < committed[Main] + 1
    BY <2>5, <2>6, <2>1, Group DEF Holds, TypeOK
  <2> QED BY <2>5, <2>6, <2>7 DEF Holds, InOrder, Inverted
<1> QED BY <1>1, ProfileInvariance, PTL DEF ProfileSpec, RevivedOutOfOrder

=============================================================================
