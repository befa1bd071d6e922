-------------------------- MODULE RoomSockets_proofs --------------------------
(***************************************************************************)
(* Proofs about RoomSockets, for any sockets, members, reviewers, timeouts *)
(* and limits: the types with the limit on sockets, that the view of a     *)
(* client is current, and that a client that answers its pings stays.      *)
(***************************************************************************)
EXTENDS RoomSockets, FiniteSetTheorems, TLAPS

\* The room's sockets are finitely many, as Cardinality supposes.
TypeInv == TypeOK /\ IsFiniteSet(sessions)

\* What a client that is not told of anything cannot miss.
ViewOf(s) ==
  /\ view[s].seen = 1..messages
  /\ \A m \in Members : presence[m] # Absent => view[s].roster[m] = presence[m]
  /\ view[s].tally = TallyOf(reviews)

\* A connected socket that is not closed and that the reaper did not drop is
\* in the room, so broadcasts reach it once it is open; its client cannot have
\* asked for anything before.
ConnectedAreInRoom ==
  \A s \in connected \ early :
    /\ readyState[s] \in {"connecting", "open"} => s \in sessions
    /\ readyState[s] = "connecting" => ~view[s].synced

\* The relay heard from a client that answers its pings less than a ping
\* interval before the next ping, or has just pinged it.
HeardInTime ==
  \A s \in (sessions \cap connected) \ slow :
    /\ idle[s] <= PingInterval
    /\ s \notin pinged => idle[s] + untilPing <= PingInterval

SocketsInv == TypeInv /\ ConnectedAreInRoom /\ ViewsAreCurrent /\ HeardInTime /\ PromptClientsStay

-----------------------------------------------------------------------------
(* Times, tallies and views *)

LEMMA Times ==
  /\ PingInterval \in Nat /\ PingInterval >= 1 /\ PresenceTtl \in Nat
  /\ IdleTimeout \in Nat /\ IdleTimeout > PingInterval
  /\ MaxMessages \in Nat /\ MaxWsSessions \in Nat /\ MaxWsSessions >= 1
  /\ IsFiniteSet(Reviewers) /\ Absent \notin Statuses /\ Absent \notin Verdicts
  BY SocketsAssumption DEF SocketsAssumption, IdleTimeout

LEMMA CappedStays ==
  ASSUME NEW cap \in Nat, NEW n \in 0..cap
  PROVE  Capped(n, cap) \in 0..cap
  BY DEF Capped

\* At most all reviewers agree.
LEMMA TallyIsTally == \A f : TallyOf(f) \in Tally
<1> TAKE f
<1>1. ASSUME NEW verdict
      PROVE  Cardinality({m \in Reviewers : f[m] = verdict}) \in 0..Cardinality(Reviewers)
  <2> DEFINE M == {m \in Reviewers : f[m] = verdict}
  <2>1. IsFiniteSet(M) /\ Cardinality(M) <= Cardinality(Reviewers)
    BY Times, FS_Subset
  <2>2. Cardinality(M) \in Nat /\ Cardinality(Reviewers) \in Nat
    BY <2>1, Times, FS_CardinalityType
  <2> QED
    BY <2>1, <2>2
<1> QED
  BY <1>1 DEF TallyOf, Tally

\* What a client learns of one message, member or review leaves the rest of
\* its view as it was.
LEMMA ToldViews ==
  ASSUME NEW v \in Views
  PROVE  /\ \A n \in 1..MaxMessages : [v EXCEPT !.seen = @ \cup {n}] \in Views
         /\ \A m \in Members, status \in Statuses \cup {Absent} :
              [v EXCEPT !.roster[m] = status] \in Views
         /\ \A f : [v EXCEPT !.tally = TallyOf(f)] \in Views
<1>1. \A n \in 1..MaxMessages : [v EXCEPT !.seen = @ \cup {n}] \in Views
  BY DEF Views
<1>2. \A m \in Members, status \in Statuses \cup {Absent} :
        [v EXCEPT !.roster[m] = status] \in Views
  BY DEF Views
<1>3. \A f : [v EXCEPT !.tally = TallyOf(f)] \in Views
  BY TallyIsTally DEF Views
<1> QED
  BY <1>1, <1>2, <1>3

LEMMA FirstViews ==
  /\ NoView \in Views /\ ~NoView.synced
  /\ \A n \in 0..MaxMessages, roster \in [Members -> Statuses \cup {Absent}] : \A f :
       [synced |-> TRUE, seen |-> 1..n, roster |-> roster, tally |-> TallyOf(f)] \in Views
<1>1. NoTally \in Tally
  BY Times, FS_CardinalityType DEF NoTally, Tally
<1>2. NoView \in Views /\ ~NoView.synced
  BY <1>1 DEF NoView, Views
<1>3. ASSUME NEW n \in 0..MaxMessages, NEW roster \in [Members -> Statuses \cup {Absent}], NEW f
      PROVE  [synced |-> TRUE, seen |-> 1..n, roster |-> roster, tally |-> TallyOf(f)] \in Views
  <2>1. 1..n \subseteq 1..MaxMessages
    BY Times
  <2> QED
    BY <2>1, TallyIsTally DEF Views
<1> QED
  BY <1>2, <1>3

-----------------------------------------------------------------------------
(* Types *)

\* The room never takes more than its limit of sockets.
LEMMA FewSockets ==
  ASSUME IsFiniteSet(sessions), Cardinality(sessions) <= MaxWsSessions, [Next]_vars
  PROVE  IsFiniteSet(sessions') /\ Cardinality(sessions') <= MaxWsSessions
<1>1. Cardinality(sessions) \in Nat
  BY FS_CardinalityType
<1>2. ASSUME sessions' \subseteq sessions
      PROVE  IsFiniteSet(sessions') /\ Cardinality(sessions') <= MaxWsSessions
  BY <1>1, <1>2, FS_Subset, FS_CardinalityType, Times
<1>3. ASSUME NEW s \in Sockets, Connect(s)
      PROVE  IsFiniteSet(sessions') /\ Cardinality(sessions') <= MaxWsSessions
  <2>1. sessions' = sessions \cup {s} /\ Cardinality(sessions) < MaxWsSessions
    BY <1>3 DEF Connect, HasRoom
  <2>2. IsFiniteSet(sessions') /\ Cardinality(sessions') <= Cardinality(sessions) + 1
    BY <2>1, <1>1, FS_AddElement
  <2> QED
    BY <1>1, <2>1, <2>2, FS_CardinalityType, Times
<1>4. sessions' \subseteq sessions \/ \E s \in Sockets : Connect(s)
  BY DEF Next, RequestReap, ReapInterval, Reap, Kept, Tick, Publish, Restart, OpenSocket,
     ClientMessage, CloseEvent, Vanish, Synchronize, Leave, Heartbeat, Review,
     vars, socketVars, relayVars
<1> QED
  BY <1>2, <1>3, <1>4

LEMMA InitTyped == Init => TypeInv
<1> SUFFICES ASSUME Init PROVE TypeInv
  OBVIOUS
<1>1. IsFiniteSet(sessions) /\ Cardinality(sessions) <= MaxWsSessions
  BY FS_EmptySet, Times DEF Init
<1>2. view \in [Sockets -> Views]
  BY FirstViews DEF Init
<1>3. /\ idle \in [Sockets -> 0..IdleTimeout] /\ beat \in [Members -> 0..PresenceTtl]
      /\ sinceReap \in 0..PingInterval /\ untilPing \in 0..PingInterval
      /\ messages \in 0..MaxMessages
  BY Times DEF Init
<1> QED
  BY <1>1, <1>2, <1>3 DEF Init, TypeInv, TypeOK

\* A broadcast leaves every view a view.
LEMMA TellTyped ==
  ASSUME view \in [Sockets -> Views], NEW updated, \A s \in Sockets : updated[s] \in Views,
         Tell(updated)
  PROVE  view' \in [Sockets -> Views]
  BY DEF Tell

LEMMA StepTyped == TypeInv /\ [Next]_vars => TypeInv'
<1> SUFFICES ASSUME TypeInv, [Next]_vars PROVE TypeInv'
  OBVIOUS
<1> USE Times
<1> TypeOK /\ IsFiniteSet(sessions)
  BY DEF TypeInv
<1>a. IsFiniteSet(sessions') /\ Cardinality(sessions') <= MaxWsSessions
  BY FewSockets DEF TypeOK
<1>b. view \in [Sockets -> Views]
  BY DEF TypeOK
<1>1. CASE RequestReap \/ ReapInterval
  <2>1. readyState' \in [Sockets -> {"none", "connecting", "open", "closed"}]
    BY <1>1 DEF TypeOK, RequestReap, ReapInterval, Reap, ClosedIdle
  <2>2. sessions' \subseteq {s \in Sockets : readyState'[s] # "none"}
    BY <1>1 DEF TypeOK, RequestReap, ReapInterval, Reap, ClosedIdle, Kept
  <2>3. pinged' \subseteq Sockets /\ early' \subseteq Sockets
    BY <1>1 DEF TypeOK, RequestReap, ReapInterval, Reap, Kept, Connecting
  <2> QED
    BY <1>1, <1>a, <2>1, <2>2, <2>3
    DEF TypeInv, TypeOK, RequestReap, ReapInterval, Reap, roomVars
<1>2. CASE Tick
  <2>1. /\ untilPing' \in 0..PingInterval /\ sinceReap' \in 0..PingInterval
        /\ idle' \in [Sockets -> 0..IdleTimeout] /\ beat' \in [Members -> 0..PresenceTtl]
    BY <1>2 DEF TypeOK, Tick, Capped
  <2> QED
    BY <1>2, <1>a, <2>1 DEF TypeInv, TypeOK, Tick
<1>3. CASE Publish
  <2> DEFINE updated == [s \in Sockets |-> [view[s] EXCEPT !.seen = @ \cup {messages'}]]
  <2>1. messages' \in 0..MaxMessages /\ messages' \in 1..MaxMessages
    BY <1>3 DEF TypeOK, Publish
  <2>2. view' \in [Sockets -> Views]
    <3>1. \A s \in Sockets : updated[s] \in Views
      BY <1>b, <2>1, ToldViews
    <3>2. Tell(updated)
      BY <1>3 DEF Publish
    <3> HIDE DEF updated
    <3> QED
      BY <1>b, <3>1, <3>2, TellTyped
  <2> QED
    BY <1>3, <1>a, <2>1, <2>2 DEF TypeInv, TypeOK, Publish, socketVars, relayVars
<1>4. CASE Restart
  BY <1>4, <1>a, FirstViews DEF TypeInv, TypeOK, Restart
<1>5. ASSUME NEW s \in Sockets, Connect(s) PROVE TypeInv'
  BY <1>5, <1>a, FirstViews DEF TypeInv, TypeOK, Connect, roomVars
<1>6. ASSUME NEW s \in Sockets, OpenSocket(s) PROVE TypeInv'
  BY <1>6, <1>a DEF TypeInv, TypeOK, OpenSocket, roomVars
<1>7. ASSUME NEW s \in Sockets, ClientMessage(s) PROVE TypeInv'
  BY <1>7, <1>a DEF TypeInv, TypeOK, ClientMessage, roomVars
<1>8. ASSUME NEW s \in Sockets, CloseEvent(s) PROVE TypeInv'
  BY <1>8, <1>a, FirstViews DEF TypeInv, TypeOK, CloseEvent, roomVars
<1>9. ASSUME NEW s \in Sockets, Vanish(s) PROVE TypeInv'
  BY <1>9, <1>a, FirstViews DEF TypeInv, TypeOK, Vanish, roomVars, relayVars
<1>10. ASSUME NEW s \in Sockets, Synchronize(s) PROVE TypeInv'
  <2>1. Listed \in [Members -> Statuses \cup {Absent}]
    BY DEF TypeOK, Listed
  <2>2. view' \in [Sockets -> Views]
    BY <1>10, <2>1, FirstViews DEF TypeOK, Synchronize
  <2> QED
    BY <1>10, <1>a, <2>1, <2>2 DEF TypeInv, TypeOK, Synchronize, socketVars, relayVars
<1>11. ASSUME NEW m \in Members, Leave(m) PROVE TypeInv'
  <2> DEFINE updated == [s \in Sockets |-> [view[s] EXCEPT !.roster[m] = Absent]]
  <2>1. view' \in [Sockets -> Views]
    <3>1. \A s \in Sockets : updated[s] \in Views
      BY <1>b, ToldViews
    <3>2. Tell(updated) \/ view' = view
      BY <1>11 DEF Leave
    <3> HIDE DEF updated
    <3> QED
      BY <1>b, <3>1, <3>2, TellTyped
  <2> QED
    BY <1>11, <1>a, <2>1 DEF TypeInv, TypeOK, Leave, socketVars, relayVars
<1>12. ASSUME NEW m \in Members, NEW status \in Statuses, Heartbeat(m, status) PROVE TypeInv'
  <2> DEFINE updated == [s \in Sockets |-> [view[s] EXCEPT !.roster[m] = status]]
  <2>1. view' \in [Sockets -> Views]
    <3>1. \A s \in Sockets : updated[s] \in Views
      BY <1>b, ToldViews
    <3>2. Tell(updated)
      BY <1>12 DEF Heartbeat
    <3> HIDE DEF updated
    <3> QED
      BY <1>b, <3>1, <3>2, TellTyped
  <2> QED
    BY <1>12, <1>a, <2>1 DEF TypeInv, TypeOK, Heartbeat, socketVars, relayVars
<1>13. ASSUME NEW m \in Reviewers, NEW verdict \in Verdicts, Review(m, verdict) PROVE TypeInv'
  <2> DEFINE updated == [s \in Sockets |-> [view[s] EXCEPT !.tally = TallyOf(reviews')]]
  <2>1. view' \in [Sockets -> Views]
    <3>1. \A s \in Sockets : updated[s] \in Views
      BY <1>b, ToldViews
    <3>2. Tell(updated)
      BY <1>13 DEF Review
    <3> HIDE DEF updated
    <3> QED
      BY <1>b, <3>1, <3>2, TellTyped
  <2> QED
    BY <1>13, <1>a, <2>1 DEF TypeInv, TypeOK, Review, socketVars, relayVars
<1>14. CASE UNCHANGED vars
  BY <1>14, <1>a DEF TypeInv, TypeOK, vars, roomVars, socketVars, relayVars
<1> QED
  BY <1>1, <1>2, <1>3, <1>4, <1>5, <1>6, <1>7, <1>8, <1>9, <1>10, <1>11, <1>12, <1>13, <1>14
  DEF Next

\* Every variable keeps the type it is declared with, and the room never has
\* more than maxWsSessions sockets (memory_handler.ts answers 503 instead).
THEOREM SocketsTyped == Spec => []TypeOK
<1>1. TypeInv => TypeOK
  BY DEF TypeInv
<1> QED
  BY <1>1, InitTyped, StepTyped, PTL DEF Spec

-----------------------------------------------------------------------------
(* A client that answers its pings stays *)

LEMMA InitPrompt == Init => HeardInTime /\ PromptClientsStay
  BY DEF Init, HeardInTime, PromptClientsStay

\* The interval timer fires before a client was silent for longer than an
\* interval, pings it, and a client that lets a tick pass then is slow.
LEMMA StepHeard == TypeOK /\ HeardInTime /\ [Next]_vars => HeardInTime'
<1> SUFFICES ASSUME TypeOK, HeardInTime, [Next]_vars,
                    NEW s \in (sessions' \cap connected') \ slow'
             PROVE  /\ idle'[s] <= PingInterval
                    /\ s \notin pinged' => idle'[s] + untilPing' <= PingInterval
  BY DEF HeardInTime
<1> DEFINE Heard == /\ idle[s] <= PingInterval
                    /\ s \notin pinged => idle[s] + untilPing <= PingInterval
           Goal == /\ idle'[s] <= PingInterval
                   /\ s \notin pinged' => idle'[s] + untilPing' <= PingInterval
<1>a. s \in (sessions \cap connected) \ slow => Heard
  BY DEF HeardInTime
<1>b. s \in Sockets => idle[s] \in Nat /\ untilPing \in 0..PingInterval
  BY Times DEF TypeOK
<1>1. CASE RequestReap \/ ReapInterval
  <2>1. s \in Kept /\ s \in pinged' /\ idle'[s] = idle[s]
    BY <1>1 DEF RequestReap, ReapInterval, Reap
  <2> QED
    BY <1>1, <1>a, <2>1 DEF RequestReap, ReapInterval, Kept
<1>2. CASE Tick
  <2>1. s \in sessions /\ s \in connected /\ s \notin slow /\ s \notin pinged /\ s \notin pinged'
    BY <1>2 DEF Tick
  <2>2. /\ s \in Sockets /\ idle'[s] = Capped(idle[s], IdleTimeout)
        /\ untilPing > 0 /\ untilPing' = untilPing - 1
    BY <1>2, <2>1 DEF Tick, TypeOK
  <2> QED
    BY <1>a, <1>b, <2>1, <2>2, Times DEF Capped
<1>3. ASSUME NEW t \in Sockets, Connect(t) PROVE Goal
  <2>1. CASE t = s
    BY <1>3, <1>b, <2>1, Times DEF Connect, TypeOK
  <2>2. CASE t # s
    BY <1>3, <1>a, <2>2 DEF Connect, TypeOK
  <2> QED
    BY <2>1, <2>2
<1>4. ASSUME NEW t \in Sockets, ClientMessage(t) PROVE Goal
  <2>1. CASE t = s
    BY <1>4, <1>b, <2>1, Times DEF ClientMessage, TypeOK
  <2>2. CASE t # s
    BY <1>4, <1>a, <2>2 DEF ClientMessage, TypeOK
  <2> QED
    BY <2>1, <2>2
<1>5. ASSUME NEW t \in Sockets, CloseEvent(t) PROVE Goal
  BY <1>5, <1>a DEF CloseEvent, TypeOK
<1>6. CASE UNCHANGED <<sessions, idle, untilPing, pinged, slow>> /\ connected' \subseteq connected
  BY <1>6, <1>a
<1>7. \/ UNCHANGED <<sessions, idle, untilPing, pinged, slow>> /\ connected' \subseteq connected
      \/ RequestReap \/ ReapInterval \/ Tick
      \/ \E t \in Sockets : Connect(t) \/ ClientMessage(t) \/ CloseEvent(t)
  BY DEF Next, Publish, Restart, OpenSocket, Vanish, Synchronize, Leave, Heartbeat, Review,
     vars, socketVars, relayVars
<1> QED
  BY <1>1, <1>2, <1>3, <1>4, <1>5, <1>6, <1>7

LEMMA StepPrompt ==
  TypeOK /\ HeardInTime /\ PromptClientsStay /\ [Next]_vars => PromptClientsStay'
<1> SUFFICES ASSUME TypeOK, HeardInTime, PromptClientsStay, [Next]_vars,
                    NEW s \in connected', readyState'[s] = "closed"
             PROVE  s \in slow'
  BY DEF PromptClientsStay
<1>1. CASE RequestReap \/ ReapInterval
  <2>1. s \in connected /\ s \in Sockets /\ slow' = slow /\ readyState' = ClosedIdle
    BY <1>1 DEF TypeOK, RequestReap, ReapInterval, Reap
  <2>2. CASE s \in sessions /\ Idle(s)
    <3>1. idle[s] \in Nat /\ idle[s] > PingInterval
      BY <2>1, <2>2, Times DEF TypeOK, Idle
    <3> QED
      BY <2>1, <2>2, <3>1, Times DEF HeardInTime
  <2>3. CASE readyState[s] = "closed"
    BY <2>1, <2>3 DEF PromptClientsStay
  <2> QED
    BY <2>1, <2>2, <2>3 DEF ClosedIdle
<1>2. ASSUME NEW t \in Sockets, Connect(t) PROVE s \in slow'
  BY <1>2 DEF TypeOK, PromptClientsStay, Connect
<1>3. ASSUME NEW t \in Sockets, OpenSocket(t) PROVE s \in slow'
  BY <1>3 DEF TypeOK, PromptClientsStay, OpenSocket
<1>4. ASSUME NEW t \in Sockets, CloseEvent(t) PROVE s \in slow'
  BY <1>4 DEF TypeOK, PromptClientsStay, CloseEvent
<1>5. CASE Restart
  BY <1>5 DEF Restart
<1>6. CASE readyState' = readyState /\ connected' \subseteq connected /\ slow \subseteq slow'
  BY <1>6 DEF PromptClientsStay
<1>7. \/ readyState' = readyState /\ connected' \subseteq connected /\ slow \subseteq slow'
      \/ RequestReap \/ ReapInterval \/ Restart
      \/ \E t \in Sockets : Connect(t) \/ OpenSocket(t) \/ CloseEvent(t)
  BY DEF Next, Tick, Publish, ClientMessage, Vanish, Synchronize, Leave, Heartbeat, Review,
     vars, socketVars, relayVars
<1> QED
  BY <1>1, <1>2, <1>3, <1>4, <1>5, <1>6, <1>7

-----------------------------------------------------------------------------
(* A client knows the room *)

LEMMA InitViews == Init => ConnectedAreInRoom /\ ViewsAreCurrent
  BY DEF Init, ConnectedAreInRoom, ViewsAreCurrent

LEMMA StepConnected ==
  TypeOK /\ ConnectedAreInRoom /\ [Next]_vars => ConnectedAreInRoom'
<1> SUFFICES ASSUME TypeOK, ConnectedAreInRoom, [Next]_vars,
                    NEW s \in connected' \ early'
             PROVE  /\ readyState'[s] \in {"connecting", "open"} => s \in sessions'
                    /\ readyState'[s] = "connecting" => ~view'[s].synced
  BY DEF ConnectedAreInRoom
<1> DEFINE Goal == /\ readyState'[s] \in {"connecting", "open"} => s \in sessions'
                   /\ readyState'[s] = "connecting" => ~view'[s].synced
<1>1. CASE RequestReap \/ ReapInterval
  BY <1>1 DEF TypeOK, ConnectedAreInRoom, RequestReap, ReapInterval, Reap, ClosedIdle, Kept,
     Connecting, Open, Idle
<1>2. ASSUME NEW t \in Sockets, Connect(t) PROVE Goal
  BY <1>2, FirstViews DEF TypeOK, ConnectedAreInRoom, Connect
<1>3. ASSUME NEW t \in Sockets, OpenSocket(t) \/ CloseEvent(t) \/ Vanish(t) PROVE Goal
  BY <1>3, FirstViews DEF TypeOK, ConnectedAreInRoom, OpenSocket, CloseEvent, Vanish, relayVars
<1>4. ASSUME NEW t \in Sockets, Synchronize(t) PROVE Goal
  BY <1>4 DEF TypeOK, ConnectedAreInRoom, Synchronize, Open, socketVars, relayVars
<1>5. ASSUME NEW updated, Tell(updated), UNCHANGED socketVars PROVE Goal
  BY <1>5 DEF TypeOK, ConnectedAreInRoom, Tell, Audience, Open, socketVars, relayVars
<1>6. CASE UNCHANGED <<readyState, sessions, connected, early, view>>
  BY <1>6 DEF ConnectedAreInRoom
<1>7. CASE Publish \/ (\E m \in Members : Leave(m) \/ \E status \in Statuses : Heartbeat(m, status))
           \/ (\E m \in Reviewers, verdict \in Verdicts : Review(m, verdict))
  BY <1>7, <1>5, <1>6 DEF Publish, Leave, Heartbeat, Review, socketVars, relayVars
<1>8. CASE Restart
  BY <1>8 DEF Restart
<1>9. CASE Tick \/ (\E t \in Sockets : ClientMessage(t)) \/ UNCHANGED vars
  BY <1>9, <1>6 DEF Tick, ClientMessage, vars, socketVars, relayVars
<1> QED
  BY <1>1, <1>2, <1>3, <1>4, <1>7, <1>8, <1>9 DEF Next

\* A broadcast reaches every client that relies on what it is sent, and tells
\* it all that the step changed.
LEMMA StepViews ==
  TypeOK /\ ConnectedAreInRoom /\ ViewsAreCurrent /\ [Next]_vars => ViewsAreCurrent'
<1> SUFFICES ASSUME TypeOK, ConnectedAreInRoom, ViewsAreCurrent, [Next]_vars,
                    NEW s \in connected' \ early', Open(s)', view'[s].synced
             PROVE  ViewOf(s)'
  BY DEF ViewsAreCurrent, ViewOf
<1>a. ASSUME s \in connected \ early, Open(s), view[s].synced PROVE ViewOf(s)
  BY <1>a DEF ViewsAreCurrent, ViewOf
<1>b. s \in Sockets
  <2>1. connected' \subseteq connected \/ \E t \in Sockets : connected' = connected \cup {t}
    BY DEF Next, RequestReap, ReapInterval, Reap, Tick, Publish, Restart,
       Connect, OpenSocket, ClientMessage, CloseEvent, Vanish, Synchronize, Leave, Heartbeat,
       Review, vars, socketVars
  <2> QED
    BY <2>1 DEF TypeOK
<1>c. view[s] \in Views /\ messages \in Nat
  BY <1>b, Times DEF TypeOK
<1>d. ASSUME NEW updated, Tell(updated), UNCHANGED socketVars
      PROVE  s \in connected \ early /\ Open(s) /\ view[s].synced /\ view'[s] = updated[s]
  <2>1. s \in connected \ early /\ Open(s)
    BY <1>d DEF socketVars, relayVars, Open
  <2>2. s \in Audience
    BY <2>1 DEF ConnectedAreInRoom, Audience, Open
  <2>3. view[s].synced /\ view'[s] = updated[s]
    BY <1>b, <1>d, <2>2 DEF Tell
  <2> QED
    BY <2>1, <2>3
<1>1. CASE RequestReap \/ ReapInterval
  BY <1>1, <1>a, <1>b DEF RequestReap, ReapInterval, Reap, ClosedIdle, Open, ViewOf, roomVars
<1>2. CASE Publish
  <2> DEFINE updated == [t \in Sockets |-> [view[t] EXCEPT !.seen = @ \cup {messages'}]]
  <2>1. Tell(updated) /\ messages' = messages + 1 /\ UNCHANGED <<presence, reviews, socketVars>>
    BY <1>2 DEF Publish
  <2> HIDE DEF updated
  <2>2. s \in connected \ early /\ Open(s) /\ view[s].synced /\ view'[s] = updated[s]
    BY <2>1, <1>d
  <2>3. /\ view'[s].seen = view[s].seen \cup {messages + 1}
        /\ view'[s].roster = view[s].roster /\ view'[s].tally = view[s].tally
    BY <2>1, <2>2, <1>b, <1>c DEF updated, Views
  <2>4. 1..(messages + 1) = (1..messages) \cup {messages + 1}
    BY <1>c
  <2> QED
    BY <2>1, <2>2, <2>3, <2>4, <1>a DEF ViewOf
<1>3. ASSUME NEW m \in Members, NEW status \in Statuses \cup {Absent},
             Tell([t \in Sockets |-> [view[t] EXCEPT !.roster[m] = status]]),
             presence' = [presence EXCEPT ![m] = status],
             UNCHANGED <<messages, reviews, socketVars>>
      PROVE  ViewOf(s)'
  <2> DEFINE updated == [t \in Sockets |-> [view[t] EXCEPT !.roster[m] = status]]
  <2>1. Tell(updated) /\ UNCHANGED socketVars
    BY <1>3
  <2> HIDE DEF updated
  <2>2. s \in connected \ early /\ Open(s) /\ view[s].synced /\ view'[s] = updated[s]
    BY <2>1, <1>d
  <2>3. /\ view'[s].seen = view[s].seen /\ view'[s].tally = view[s].tally
        /\ view'[s].roster = [view[s].roster EXCEPT ![m] = status]
    BY <2>2, <1>b, <1>c DEF updated, Views
  <2>4. view[s].roster \in [Members -> Statuses \cup {Absent}]
    BY <1>c DEF Views
  <2> QED
    BY <1>3, <2>2, <2>3, <2>4, <1>a DEF ViewOf, TypeOK
<1>4. ASSUME NEW m \in Members, NEW status \in Statuses, Heartbeat(m, status) PROVE ViewOf(s)'
  BY <1>3, <1>4 DEF Heartbeat
<1>5. ASSUME NEW m \in Members, Leave(m) PROVE ViewOf(s)'
  <2>1. CASE presence[m] # Absent
    BY <1>3, <1>5, <2>1 DEF Leave
  <2>2. CASE presence[m] = Absent
    BY <1>5, <1>a, <2>2 DEF Leave, ViewOf, TypeOK, Open, socketVars, relayVars
  <2> QED
    BY <2>1, <2>2
<1>6. ASSUME NEW m \in Reviewers, NEW verdict \in Verdicts, Review(m, verdict) PROVE ViewOf(s)'
  <2> DEFINE updated == [t \in Sockets |-> [view[t] EXCEPT !.tally = TallyOf(reviews')]]
  <2>1. Tell(updated) /\ UNCHANGED <<messages, presence, socketVars>>
    BY <1>6 DEF Review
  <2> HIDE DEF updated
  <2>2. s \in connected \ early /\ Open(s) /\ view[s].synced /\ view'[s] = updated[s]
    BY <2>1, <1>d
  <2>3. /\ view'[s].seen = view[s].seen /\ view'[s].roster = view[s].roster
        /\ view'[s].tally = TallyOf(reviews')
    BY <2>2, <1>b, <1>c DEF updated, Views
  <2> QED
    BY <2>1, <2>2, <2>3, <1>a DEF ViewOf
<1>7. ASSUME NEW t \in Sockets, Synchronize(t) PROVE ViewOf(s)'
  <2>1. CASE t = s
    <3>1. view'[s] = [synced |-> TRUE, seen |-> 1..messages,
                      roster |-> Listed, tally |-> TallyOf(reviews)]
      BY <1>7, <2>1 DEF Synchronize, TypeOK
    <3> QED
      BY <1>7, <3>1 DEF Synchronize, ViewOf, socketVars
  <2>2. CASE t # s
    <3>1. view'[s] = view[s] /\ Open(s) /\ s \in connected \ early
      BY <1>7, <2>2 DEF Synchronize, TypeOK, Open, socketVars, relayVars
    <3> QED
      BY <1>7, <1>a, <3>1 DEF Synchronize, ViewOf, Listed
  <2> QED
    BY <2>1, <2>2
<1>8. ASSUME NEW t \in Sockets, Connect(t) PROVE ViewOf(s)'
  BY <1>8, <1>a, <1>b, FirstViews DEF Connect, TypeOK, Open, ViewOf, roomVars
<1>9. ASSUME NEW t \in Sockets, OpenSocket(t) PROVE ViewOf(s)'
  BY <1>9, <1>a, <1>b
  DEF OpenSocket, TypeOK, Open, ConnectedAreInRoom, ViewOf, roomVars
<1>10. ASSUME NEW t \in Sockets, CloseEvent(t) \/ Vanish(t) PROVE ViewOf(s)'
  BY <1>10, <1>a, <1>b
  DEF CloseEvent, Vanish, TypeOK, Open, ViewOf, roomVars, relayVars
<1>11. CASE Restart
  BY <1>11 DEF Restart
<1>12. CASE Tick \/ (\E t \in Sockets : ClientMessage(t)) \/ UNCHANGED vars
  BY <1>12, <1>a
  DEF Tick, ClientMessage, Open, ViewOf, vars, roomVars, socketVars, relayVars
<1> QED
  BY <1>1, <1>2, <1>4, <1>5, <1>6, <1>7, <1>8, <1>9, <1>10, <1>11, <1>12 DEF Next

-----------------------------------------------------------------------------
(* The theorems *)

LEMMA SocketsInvariant == Spec => []SocketsInv
<1>1. Init => SocketsInv
  BY InitTyped, InitPrompt, InitViews DEF SocketsInv
<1>2. SocketsInv /\ [Next]_vars => SocketsInv'
  BY StepTyped, StepHeard, StepPrompt, StepConnected, StepViews DEF SocketsInv, TypeInv
<1> QED
  BY <1>1, <1>2, PTL DEF Spec

\* A client that asked for the room after 'ready' and that the reaper did not
\* drop while it was connecting knows every message, every listed participant
\* with its status, and the review: the broadcasts miss nothing.
THEOREM CurrentViews == Spec => []ViewsAreCurrent
<1>1. SocketsInv => ViewsAreCurrent
  BY DEF SocketsInv
<1> QED
  BY <1>1, SocketsInvariant, PTL

\* A client that answers each ping before a tick has passed is not closed by
\* the relay, for any ping interval and any configured idle timeout.
THEOREM PromptStay == Spec => []PromptClientsStay
<1>1. SocketsInv => PromptClientsStay
  BY DEF SocketsInv
<1> QED
  BY <1>1, SocketsInvariant, PTL
=============================================================================
