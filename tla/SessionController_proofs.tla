----------------------- MODULE SessionController_proofs -----------------------
(***************************************************************************)
(* Proofs about SessionController for every number of sessions, turns and  *)
(* greetings and both values of welcome_once_per_session.                  *)
(***************************************************************************)
EXTENDS SessionController, TLAPS

\* The operations that neither open a session nor serve it.
Moved(s) ==
  \/ s = PersonPresent(session)
  \/ s = WelcomePlaybackFinished(session)
  \/ s = FollowupListening(session)
  \/ s = UtteranceReady(session)
  \/ s = PlaybackStarted(session)
  \/ s = RecoverToTracking(session)

\* Every step of the controller is a move inside the session, an accepted
\* absence, a started welcome, a turn, or changes nothing.  The lemma gives
\* the later proofs the four cases that matter.
LEMMA StepCases ==
  ASSUME [Next]_vars
  PROVE  \/ \E s : Moved(s) /\ Move(s)
         \/ Move(PersonAbsent(session))
         \/ TryStartWelcome
         \/ NextTurnContext
         \/ UNCHANGED vars
  BY DEF Next, Moved, NotePersonPresent, NoteWelcomePlaybackFinished,
         NoteFollowupListening, NoteUtteranceReady, NotePlaybackStarted,
         ListeningExpired, NotePersonAbsent

\* A move keeps the id, the turn and the welcome flag, and never enters the
\* welcoming state.
LEMMA MoveKeepsSession ==
  ASSUME NEW s, Moved(s), session \in Sessions
  PROVE  /\ s \in Sessions
         /\ s.id = session.id /\ s.turn = session.turn
         /\ s.welcomed = session.welcomed
         /\ s.state = "welcoming" => s = session
  BY DEF Moved, Sessions, States, Reasons, PersonPresent, Transition,
         WelcomePlaybackFinished, FollowupListening, UtteranceReady,
         PlaybackStarted, RecoverToTracking

\* transition() replaces the state and the reason and nothing else.
LEMMA TransitionFields ==
  ASSUME NEW s \in Sessions, NEW to \in States, NEW why \in Reasons
  PROVE  /\ Transition(s, to, why) \in Sessions
         /\ Transition(s, to, why).state = to
         /\ Transition(s, to, why).reason = why
         /\ Transition(s, to, why).id = s.id
         /\ Transition(s, to, why).turn = s.turn
         /\ Transition(s, to, why).welcomed = s.welcomed
  BY DEF Transition, Sessions

\* Renewing a session keeps the state and the reason and clears the rest.
LEMMA RenewFields ==
  ASSUME NEW s \in Sessions, NEW id \in 0..MaxSessions
  PROVE  /\ Renew(s, id) \in Sessions
         /\ Renew(s, id).state = s.state
         /\ Renew(s, id).reason = s.reason
         /\ Renew(s, id).id = id
         /\ Renew(s, id).turn = 0
         /\ Renew(s, id).welcomed = FALSE
  BY DEF Renew, Sessions

\* What an accepted absence leaves: no session, whatever the state was.
LEMMA AbsenceClosesSession ==
  ASSUME session \in Sessions
  PROVE  /\ PersonAbsent(session) \in Sessions
         /\ PersonAbsent(session).id = NoSession
         /\ PersonAbsent(session).turn = 0
         /\ PersonAbsent(session).welcomed = FALSE
         /\ PersonAbsent(session).state = "disengaged"
         /\ PersonAbsent(session).reason = "person_absent"
<1>1. NoSession \in 0..MaxSessions
  BY BoundsAssumption DEF NoSession
<1>2. "disengaged" \in States /\ "person_absent" \in Reasons
  BY DEF States, Reasons
<1> DEFINE r == Renew(session, NoSession)
<1>3. /\ r \in Sessions /\ r.id = NoSession /\ r.turn = 0
      /\ r.welcomed = FALSE
  BY <1>1, RenewFields
<1>4. PersonAbsent(session) = Transition(r, "disengaged", "person_absent")
  BY DEF PersonAbsent
<1> HIDE DEF r
<1>5. QED
  BY <1>2, <1>3, <1>4, TransitionFields

\* The record a welcome or a turn works on: the session there is, or a new
\* one under the next id.
Opened == IF session.id = NoSession THEN Renew(session, Fresh) ELSE session

\* Opening draws a fresh id exactly when there is no session.
LEMMA OpenedFields ==
  ASSUME session \in Sessions, opened \in 0..MaxSessions,
         session.id <= opened, Draw
  PROVE  /\ Opened \in Sessions
         /\ Opened.state = session.state /\ Opened.reason = session.reason
         /\ Opened.id \in Ids /\ opened' \in 0..MaxSessions
         /\ Opened.id <= opened'
         /\ session.id = NoSession =>
              /\ Opened.id = opened + 1 /\ opened' = opened + 1
              /\ Opened.turn = 0 /\ Opened.welcomed = FALSE
         /\ session.id # NoSession => Opened = session /\ opened' = opened
<1>1. session.id \in 0..MaxSessions
  BY DEF Sessions
<1>2. CASE session.id = NoSession
  <2>1. Fresh \in 0..MaxSessions /\ Fresh \in Ids /\ opened' = opened + 1
    BY <1>2, BoundsAssumption DEF Draw, Fresh, Ids
  <2>2. Opened = Renew(session, Fresh)
    BY <1>2 DEF Opened
  <2>3. /\ Opened \in Sessions
        /\ Opened.state = session.state /\ Opened.reason = session.reason
        /\ Opened.id = Fresh /\ Opened.turn = 0 /\ Opened.welcomed = FALSE
    BY <2>1, <2>2, RenewFields
  <2>4. QED
    BY <1>2, <2>1, <2>3, BoundsAssumption DEF Fresh, Ids
<1>3. CASE session.id # NoSession
  BY <1>1, <1>3, BoundsAssumption DEF Draw, Opened, Ids, NoSession
<1>4. QED
  BY <1>2, <1>3

\* A started welcome: the opened session, greeting and marked as greeted.
LEMMA WelcomeFields ==
  ASSUME session \in Sessions, opened \in 0..MaxSessions,
         session.id <= opened, TryStartWelcome
  PROVE  /\ session' \in Sessions
         /\ session'.state = "welcoming" /\ session'.welcomed = TRUE
         /\ session'.reason = "welcome_triggered"
         /\ session'.id = Opened.id /\ session'.turn = Opened.turn
<1>1. Opened \in Sessions
  BY OpenedFields DEF TryStartWelcome
<1>2. "welcoming" \in States /\ "welcome_triggered" \in Reasons
  BY DEF States, Reasons
<1> DEFINE t == Transition(Opened, "welcoming", "welcome_triggered")
<1>3. /\ t \in Sessions /\ t.state = "welcoming"
      /\ t.reason = "welcome_triggered"
      /\ t.id = Opened.id /\ t.turn = Opened.turn
  BY <1>1, <1>2, TransitionFields
<1>4. session' = [t EXCEPT !.welcomed = TRUE]
  BY DEF TryStartWelcome, StartWelcome, Opened
<1> HIDE DEF t
<1>5. QED
  BY <1>3, <1>4 DEF Sessions

\* A turn: the opened session with the next turn index.
LEMMA TurnFields ==
  ASSUME session \in Sessions, opened \in 0..MaxSessions,
         session.id <= opened, NextTurnContext
  PROVE  /\ session' \in Sessions
         /\ session'.state = Opened.state /\ session'.reason = Opened.reason
         /\ session'.id = Opened.id /\ session'.turn = Opened.turn + 1
         /\ session'.welcomed = Opened.welcomed
<1>1. Opened \in Sessions
  BY OpenedFields DEF NextTurnContext
<1>2. session' = [Opened EXCEPT !.turn = @ + 1]
  BY DEF NextTurnContext, NextTurn, Opened
<1>3. QED
  BY <1>1, <1>2 DEF Sessions

\* The fields of the controller keep their types and ids are never ahead of
\* the ids generated (the state every operation starts from).
THEOREM TypeCorrect == Spec => []TypeOK
<1>1. Init => TypeOK
  BY BoundsAssumption DEF Init, TypeOK, NewController, Sessions, Snapshots,
     Snapshot, States, Reasons, NoSession, Ids
<1>2. TypeOK /\ [Next]_vars => TypeOK'
  <2> SUFFICES ASSUME TypeOK, [Next]_vars PROVE TypeOK'
    OBVIOUS
  <2> USE DEF TypeOK
  <2>1. ASSUME session' \in Sessions PROVE Snapshot(session') \in Snapshots
    BY <2>1 DEF Sessions, Snapshots, Snapshot
  <2>2. CASE \E s : Moved(s) /\ Move(s)
    BY <2>1, <2>2, MoveKeepsSession DEF Move, Publish
  <2>3. CASE Move(PersonAbsent(session))
    BY <2>1, <2>3, AbsenceClosesSession, BoundsAssumption
    DEF Move, Publish, NoSession
  <2>4. CASE TryStartWelcome
    <3>1. /\ session' \in Sessions /\ session'.id \in Ids
          /\ opened' \in 0..MaxSessions /\ session'.id <= opened'
      BY <2>4, WelcomeFields, OpenedFields DEF TryStartWelcome
    <3>2. greetings' \in [Ids -> Nat] /\ contexts' \in [Ids -> Nat]
      BY <2>4, <3>1 DEF TryStartWelcome
    <3>3. published' \in Snapshots
      BY <2>1, <2>4, <3>1 DEF TryStartWelcome, Publish
    <3>4. QED
      BY <3>1, <3>2, <3>3
  <2>5. CASE NextTurnContext
    <3>1. /\ session' \in Sessions /\ session'.id \in Ids
          /\ opened' \in 0..MaxSessions /\ session'.id <= opened'
      BY <2>5, TurnFields, OpenedFields DEF NextTurnContext
    <3>2. greetings' \in [Ids -> Nat] /\ contexts' \in [Ids -> Nat]
      BY <2>5, <3>1 DEF NextTurnContext
    <3>3. published' \in Snapshots
      BY <2>1, <2>5, <3>1 DEF NextTurnContext
    <3>4. QED
      BY <3>1, <3>2, <3>3
  <2>6. CASE UNCHANGED vars
    BY <2>6 DEF vars
  <2>7. QED
    BY <2>2, <2>3, <2>4, <2>5, <2>6, StepCases
<1>3. QED
  BY <1>1, <1>2, PTL DEF Spec

-----------------------------------------------------------------------------

\* What makes the two counting invariants inductive: nothing is recorded for
\* an id before it is generated, and a session whose flag is clear has not
\* been greeted yet.
UnusedIdsAreBlank ==
  \A i \in Ids : i > opened => greetings[i] = 0 /\ contexts[i] = 0

FlagMeansGreeted ==
  WelcomeOnce => \A i \in Ids :
    /\ greetings[i] <= 1
    /\ session.id = i /\ session.welcomed = FALSE => greetings[i] = 0

CountingInv == UnusedIdsAreBlank /\ FlagMeansGreeted /\ TurnIndexCountsContexts

LEMMA CountingInvariant == Spec => []CountingInv
<1>1. Init => CountingInv
  BY BoundsAssumption DEF Init, CountingInv, UnusedIdsAreBlank,
     FlagMeansGreeted, TurnIndexCountsContexts, NewController, Ids, NoSession
<1>2. TypeOK /\ CountingInv /\ [Next]_vars => CountingInv'
  <2> SUFFICES ASSUME TypeOK, CountingInv, [Next]_vars PROVE CountingInv'
    OBVIOUS
  <2> USE DEF TypeOK
  <2>1. CASE \E s : Moved(s) /\ Move(s)
    <3>1. /\ session'.id = session.id /\ session'.turn = session.turn
          /\ session'.welcomed = session.welcomed
          /\ UNCHANGED <<opened, greetings, contexts>>
      BY <2>1, MoveKeepsSession DEF Move
    <3>2. QED
      BY <3>1 DEF CountingInv, UnusedIdsAreBlank, FlagMeansGreeted,
         TurnIndexCountsContexts
  <2>2. CASE Move(PersonAbsent(session))
    <3>1. session'.id = NoSession /\ UNCHANGED <<opened, greetings, contexts>>
      BY <2>2, AbsenceClosesSession DEF Move
    <3>2. QED
      BY <3>1 DEF CountingInv, UnusedIdsAreBlank, FlagMeansGreeted,
         TurnIndexCountsContexts, Ids, NoSession
  <2>3. CASE TryStartWelcome
    <3>1. /\ session'.id = Opened.id /\ session'.turn = Opened.turn
          /\ session'.welcomed = TRUE
      BY <2>3, WelcomeFields
    <3>2. /\ Opened.id \in Ids /\ opened' \in 0..MaxSessions
          /\ session.id = NoSession =>
               /\ Opened.id = opened + 1 /\ opened' = opened + 1
               /\ Opened.turn = 0
          /\ session.id # NoSession => Opened = session /\ opened' = opened
      BY <2>3, OpenedFields DEF TryStartWelcome
    <3>3. /\ greetings' = [greetings EXCEPT ![Opened.id] = @ + 1]
          /\ contexts' = contexts
      BY <2>3, <3>1 DEF TryStartWelcome
    <3>4. WelcomeOnce => greetings[Opened.id] = 0
      <4>1. CASE session.id = NoSession
        BY <3>2, <4>1 DEF CountingInv, UnusedIdsAreBlank
      <4>2. CASE session.id # NoSession
        <5>1. WelcomeOnce => session.welcomed = FALSE
          BY <2>3, <4>2 DEF TryStartWelcome, CanWelcome, Sessions
        <5>2. QED
          BY <3>2, <4>2, <5>1 DEF CountingInv, FlagMeansGreeted
      <4>3. QED
        BY <4>1, <4>2
    <3>5. UnusedIdsAreBlank'
      BY <3>2, <3>3 DEF CountingInv, UnusedIdsAreBlank, Ids
    <3>6. FlagMeansGreeted'
      BY <3>1, <3>2, <3>3, <3>4 DEF CountingInv, FlagMeansGreeted
    <3>7. TurnIndexCountsContexts'
      BY <3>1, <3>2, <3>3
      DEF CountingInv, UnusedIdsAreBlank, TurnIndexCountsContexts, Ids
    <3>8. QED
      BY <3>5, <3>6, <3>7 DEF CountingInv
  <2>4. CASE NextTurnContext
    <3>1. /\ session'.id = Opened.id /\ session'.turn = Opened.turn + 1
          /\ session'.welcomed = Opened.welcomed
      BY <2>4, TurnFields
    <3>2. /\ Opened.id \in Ids /\ opened' \in 0..MaxSessions
          /\ session.id = NoSession =>
               /\ Opened.id = opened + 1 /\ opened' = opened + 1
               /\ Opened.turn = 0 /\ Opened.welcomed = FALSE
          /\ session.id # NoSession => Opened = session /\ opened' = opened
      BY <2>4, OpenedFields DEF NextTurnContext
    <3>3. /\ contexts' = [contexts EXCEPT ![Opened.id] = @ + 1]
          /\ greetings' = greetings
      BY <2>4, <3>1 DEF NextTurnContext
    <3>4. UnusedIdsAreBlank'
      BY <3>2, <3>3 DEF CountingInv, UnusedIdsAreBlank, Ids
    <3>5. FlagMeansGreeted'
      BY <3>1, <3>2, <3>3
      DEF CountingInv, FlagMeansGreeted, UnusedIdsAreBlank, Ids
    <3>6. TurnIndexCountsContexts'
      BY <3>1, <3>2, <3>3
      DEF CountingInv, UnusedIdsAreBlank, TurnIndexCountsContexts, Ids
    <3>7. QED
      BY <3>4, <3>5, <3>6 DEF CountingInv
  <2>5. CASE UNCHANGED vars
    BY <2>5 DEF vars, CountingInv, UnusedIdsAreBlank, FlagMeansGreeted,
       TurnIndexCountsContexts
  <2>6. QED
    BY <2>1, <2>2, <2>3, <2>4, <2>5, StepCases
<1>3. QED
  BY <1>1, <1>2, TypeCorrect, PTL DEF Spec

\* try_start_welcome greets a session at most once when
\* welcome_once_per_session is set, for any schedule of its callers.
THEOREM WelcomedOnce == Spec => []WelcomeOncePerSession
<1>1. CountingInv => WelcomeOncePerSession
  BY DEF CountingInv, FlagMeansGreeted, WelcomeOncePerSession
<1>2. QED
  BY <1>1, CountingInvariant, PTL

\* next_turn_context numbers the turns of a session 1, 2, 3, ... without a
\* gap or a repetition.
THEOREM TurnsCounted == Spec => []TurnIndexCountsContexts
<1>1. CountingInv => TurnIndexCountsContexts
  BY DEF CountingInv
<1>2. QED
  BY <1>1, CountingInvariant, PTL

-----------------------------------------------------------------------------

\* While the robot is welcoming, a greeted session is open: the turn that
\* follows the welcome belongs to the session that was greeted.
THEOREM WelcomingInSession == Spec => []WelcomingHasSession
<1>1. Init => WelcomingHasSession
  BY DEF Init, WelcomingHasSession, NewController
<1>2. TypeOK /\ WelcomingHasSession /\ [Next]_vars => WelcomingHasSession'
  <2> SUFFICES ASSUME TypeOK, WelcomingHasSession, [Next]_vars
               PROVE  WelcomingHasSession'
    OBVIOUS
  <2> USE DEF TypeOK, WelcomingHasSession
  <2>1. CASE \E s : Moved(s) /\ Move(s)
    BY <2>1, MoveKeepsSession DEF Move
  <2>2. CASE Move(PersonAbsent(session))
    BY <2>2, AbsenceClosesSession DEF Move
  <2>3. CASE TryStartWelcome
    <3>1. session'.id \in Ids /\ session'.welcomed = TRUE
      BY <2>3, WelcomeFields, OpenedFields DEF TryStartWelcome
    <3>2. QED
      BY <3>1 DEF Ids, NoSession
  <2>4. CASE NextTurnContext
    <3>1. session'.id \in Ids /\ session'.state = session.state
      BY <2>4, TurnFields, OpenedFields DEF NextTurnContext
    <3>2. session.id # NoSession => session'.welcomed = session.welcomed
      BY <2>4, TurnFields, OpenedFields DEF NextTurnContext
    <3>3. QED
      BY <3>1, <3>2 DEF Ids, NoSession
  <2>5. CASE UNCHANGED vars
    BY <2>5 DEF vars
  <2>6. QED
    BY <2>1, <2>2, <2>3, <2>4, <2>5, StepCases
<1>3. QED
  BY <1>1, <1>2, TypeCorrect, PTL DEF Spec

\* The published snapshot lags behind the controller only when disengaged.
THEOREM PublishedIsCurrent == Spec => []PublishedCurrent
<1>1. Init => PublishedCurrent
  BY DEF Init, PublishedCurrent, Snapshot
<1>2. TypeOK /\ PublishedCurrent /\ [Next]_vars => PublishedCurrent'
  <2> SUFFICES ASSUME TypeOK, PublishedCurrent, [Next]_vars
               PROVE  PublishedCurrent'
    OBVIOUS
  <2>1. CASE \E s : Moved(s) /\ Move(s)
    <3>1. session'.id = session.id /\ session'.turn = session.turn
      BY <2>1, MoveKeepsSession DEF Move, TypeOK
    <3>2. CASE published' = Snapshot(session')
      BY <3>2 DEF PublishedCurrent, Snapshot
    <3>3. CASE /\ published' = published
               /\ session'.state = session.state
               /\ session'.reason = session.reason
      BY <3>1, <3>3 DEF PublishedCurrent, Snapshot
    <3>4. QED
      BY <2>1, <3>2, <3>3 DEF Move, Publish
  <2>2. CASE Move(PersonAbsent(session))
    <3>1. session'.state = "disengaged"
      BY <2>2, AbsenceClosesSession DEF Move, TypeOK
    <3>2. QED
      BY <2>2, <3>1 DEF Move, Publish, PublishedCurrent, Snapshot
  <2>3. CASE TryStartWelcome
    <3>1. session'.state = "welcoming" /\ session.state # "welcoming"
      BY <2>3, WelcomeFields DEF TypeOK, TryStartWelcome, CanWelcome, Unengaged
    <3>2. published' = Snapshot(session')
      BY <2>3, <3>1 DEF TryStartWelcome, Publish
    <3>3. QED
      BY <3>2 DEF PublishedCurrent, Snapshot
  <2>4. CASE NextTurnContext
    BY <2>4 DEF NextTurnContext, PublishedCurrent, Snapshot
  <2>5. CASE UNCHANGED vars
    BY <2>5 DEF vars, PublishedCurrent, Snapshot
  <2>6. QED
    BY <2>1, <2>2, <2>3, <2>4, <2>5, StepCases
<1>3. QED
  BY <1>1, <1>2, TypeCorrect, PTL DEF Spec

\* A session ends by an absence and is never replaced by another one.
THEOREM SessionsEndByAbsence == Spec => SessionEndsByAbsence
<1>1. TypeOK /\ [Next]_vars =>
        [session.id # NoSession /\ session'.id # session.id
           => session'.id = NoSession /\ session'.state = "disengaged"]_vars
  <2> SUFFICES ASSUME TypeOK, [Next]_vars,
                      session.id # NoSession, session'.id # session.id
               PROVE  session'.id = NoSession /\ session'.state = "disengaged"
    OBVIOUS
  <2> USE DEF TypeOK
  <2>1. CASE \E s : Moved(s) /\ Move(s)
    BY <2>1, MoveKeepsSession DEF Move
  <2>2. CASE Move(PersonAbsent(session))
    BY <2>2, AbsenceClosesSession DEF Move
  <2>3. CASE TryStartWelcome
    BY <2>3, WelcomeFields, OpenedFields DEF TryStartWelcome
  <2>4. CASE NextTurnContext
    BY <2>4, TurnFields, OpenedFields DEF NextTurnContext
  <2>5. CASE UNCHANGED vars
    BY <2>5 DEF vars
  <2>6. QED
    BY <2>1, <2>2, <2>3, <2>4, <2>5, StepCases
<1>2. QED
  BY <1>1, TypeCorrect, PTL DEF Spec, SessionEndsByAbsence
=============================================================================
