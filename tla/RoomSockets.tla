----------------------------- MODULE RoomSockets -----------------------------
(***************************************************************************)
(* The WebSocket side of one room (memory_handler.ts): sockets subscribe,  *)
(* publishes, presence changes and reviews are broadcast to them, and a    *)
(* reaper that an interval timer and every request may run pings them and  *)
(* drops the idle ones.  Times are counted in ticks since an event, capped *)
(* where they stop to matter.  A client that has got 'ready' asks once for *)
(* the messages, the participants and the review, and then relies on what  *)
(* it is sent.                                                             *)
(***************************************************************************)
EXTENDS Integers, FiniteSets

CONSTANTS
  Sockets,            \* WebSocket connections of the room
  Members, Reviewers, \* who reports presence, who reviews
  Statuses,           \* presence statuses members report
  Verdicts,           \* "approve" and "deny"
  Absent,             \* no presence record, no review
  PingInterval, ConfiguredIdle, PresenceTtl,  \* in ticks
  MaxWsSessions,      \* sockets a room takes
  MaxMessages,        \* bound on the messages published
  OpensAtOnce         \* WebSocketPair.accept() (Worker), or upgradeWebSocket (Deno)

ASSUME SocketsAssumption ==
  /\ PingInterval \in Nat \ {0} /\ ConfiguredIdle \in Nat /\ PresenceTtl \in Nat \ {0}
  /\ MaxWsSessions \in Nat \ {0} /\ MaxMessages \in Nat
  /\ OpensAtOnce \in BOOLEAN
  /\ Absent \notin Statuses \cup Verdicts /\ IsFiniteSet(Reviewers)

VARIABLES
  readyState,   \* readyState[s] of the relay's end of socket s
  sessions,     \* keys of roomState.sessions
  idle,         \* idle[s]: ticks since meta.lastActive
  sinceReap,    \* ticks since lastReapAt
  untilPing,    \* ticks until the interval timer fires
  messages,     \* number of messages published into the room
  presence,     \* presence[m]: status in presenceByParticipant
  beat,         \* beat[m]: ticks since lastHeartbeat
  reviews,      \* reviews[m]: verdict in reviewsByPr of one pull request
  connected,    \* sockets whose client is still there
  pinged,       \* sockets with a ping the client has not answered
  early,        \* sockets the reaper dropped while they were connecting
  slow,         \* clients that left a ping unanswered for a tick
  view          \* view[s]: what the client of s knows of the room

relayVars == <<readyState, sessions, idle, sinceReap, untilPing>>
roomVars == <<messages, presence, beat, reviews>>
socketVars == <<relayVars, connected, pinged, slow, early>>
vars == <<roomVars, socketVars, view>>

\* A mutant: the idle timeout as it is configured.
IdleAsConfigured == ConfiguredIdle

\* The configured idle timeout, raised to more than a ping interval.
IdleTimeout ==
  IF ConfiguredIdle > PingInterval THEN ConfiguredIdle ELSE PingInterval + 1

Tally == [approve : 0..Cardinality(Reviewers), deny : 0..Cardinality(Reviewers),
          resolved : BOOLEAN]
NoTally == [approve |-> 0, deny |-> 0, resolved |-> FALSE]
Views == [synced : BOOLEAN, seen : SUBSET (1..MaxMessages),
          roster : [Members -> Statuses \cup {Absent}], tally : Tally]
NoView == [synced |-> FALSE, seen |-> {},
           roster |-> [m \in Members |-> Absent], tally |-> NoTally]

TypeOK ==
  /\ readyState \in [Sockets -> {"none", "connecting", "open", "closed"}]
  /\ sessions \subseteq {s \in Sockets : readyState[s] # "none"}
  /\ idle \in [Sockets -> 0..IdleTimeout]
  /\ sinceReap \in 0..PingInterval /\ untilPing \in 0..PingInterval
  /\ messages \in 0..MaxMessages
  /\ presence \in [Members -> Statuses \cup {Absent}]
  /\ beat \in [Members -> 0..PresenceTtl]
  /\ reviews \in [Reviewers -> Verdicts \cup {Absent}]
  /\ connected \subseteq Sockets /\ pinged \subseteq Sockets /\ slow \subseteq Sockets
  /\ early \subseteq Sockets
  /\ view \in [Sockets -> Views]
  /\ Cardinality(sessions) <= MaxWsSessions

Init ==
  /\ readyState = [s \in Sockets |-> "none"]
  /\ sessions = {} /\ idle = [s \in Sockets |-> 0]
  /\ sinceReap = 0 /\ untilPing = PingInterval
  /\ messages = 0
  /\ presence = [m \in Members |-> Absent] /\ beat = [m \in Members |-> 0]
  /\ reviews = [m \in Reviewers |-> Absent]
  /\ connected = {} /\ pinged = {} /\ slow = {} /\ early = {}
  /\ view = [s \in Sockets |-> NoView]

-----------------------------------------------------------------------------
(* The reaper *)

Open(s) == readyState[s] = "open"
Idle(s) == Open(s) /\ idle[s] >= IdleTimeout

\* One pass over the sockets: those that are not open leave the room, idle
\* ones are closed and leave it, the others are pinged.
Kept == {s \in sessions : Open(s) /\ ~Idle(s)}
Connecting == {s \in sessions : readyState[s] = "connecting"}
ClosedIdle == [s \in Sockets |-> IF s \in sessions /\ Idle(s) THEN "closed" ELSE readyState[s]]

Reap ==
  /\ readyState' = ClosedIdle
  /\ sessions' = Kept
  /\ sinceReap' = 0
  /\ pinged' = pinged \cup Kept
  /\ early' = early \cup Connecting

\* Every request reaps first when the last pass is a ping interval ago.  What
\* its handler does up to its first await is therefore guarded by ~Due; what a
\* handler does after an await may find that time has passed.
Due == sinceReap >= PingInterval

RequestReap ==
  /\ Due
  /\ Reap
  /\ UNCHANGED <<idle, untilPing, roomVars, connected, slow, view>>

\* A mutant: sending a ping counts as activity.
ReapRefreshing ==
  /\ untilPing = 0
  /\ untilPing' = PingInterval
  /\ Reap
  /\ idle' = [s \in Sockets |-> 0]
  /\ UNCHANGED <<roomVars, connected, slow, view>>

\* The interval timer.
ReapInterval ==
  /\ untilPing = 0
  /\ untilPing' = PingInterval
  /\ Reap
  /\ UNCHANGED <<idle, roomVars, connected, slow, view>>

\* Time passes, never beyond a timer that is due.
Capped(n, cap) == IF n < cap THEN n + 1 ELSE cap

Tick ==
  /\ untilPing > 0
  /\ untilPing' = untilPing - 1
  /\ sinceReap' = Capped(sinceReap, PingInterval)
  /\ idle' = [s \in Sockets |-> IF s \in sessions THEN Capped(idle[s], IdleTimeout) ELSE 0]
  /\ beat' = [m \in Members |->
       IF presence[m] = Absent THEN 0 ELSE Capped(beat[m], PresenceTtl)]
  /\ slow' = slow \cup (pinged \cap connected)
  /\ UNCHANGED <<readyState, sessions, messages, presence, reviews, connected,
                 pinged, early, view>>

-----------------------------------------------------------------------------
(* Sockets *)

\* A mutant: the limit is off by one.
HasRoomAtLimit == Cardinality(sessions) <= MaxWsSessions
HasRoom == Cardinality(sessions) < MaxWsSessions

\* A client asks for a WebSocket; a full room answers 503.
Connect(s) ==
  /\ ~Due
  /\ s \notin sessions /\ s \notin connected
  /\ HasRoom
  /\ readyState' = [readyState EXCEPT ![s] = IF OpensAtOnce THEN "open" ELSE "connecting"]
  /\ sessions' = sessions \cup {s}
  /\ idle' = [idle EXCEPT ![s] = 0]
  /\ connected' = connected \cup {s}
  /\ pinged' = pinged \ {s} /\ slow' = slow \ {s} /\ early' = early \ {s}
  /\ view' = [view EXCEPT ![s] = NoView]
  /\ UNCHANGED <<sinceReap, untilPing, roomVars>>

\* The upgrade is complete and 'ready' is sent.
OpenSocket(s) ==
  /\ readyState[s] = "connecting" /\ s \in connected
  /\ readyState' = [readyState EXCEPT ![s] = "open"]
  /\ UNCHANGED <<sessions, idle, sinceReap, untilPing, roomVars, connected,
                 pinged, slow, early, view>>

\* Anything a client sends, among it its answer to a ping, counts as activity.
ClientMessage(s) ==
  /\ Open(s) /\ s \in connected
  /\ idle' = IF s \in sessions THEN [idle EXCEPT ![s] = 0] ELSE idle
  /\ pinged' = pinged \ {s}
  /\ UNCHANGED <<readyState, sessions, sinceReap, untilPing, roomVars, connected,
                 slow, early, view>>

\* A client closes its end or learns that the relay did, or the connection
\* fails.
CloseEvent(s) ==
  /\ s \in connected
  /\ readyState' = [readyState EXCEPT ![s] = "closed"]
  /\ sessions' = sessions \ {s}
  /\ connected' = connected \ {s}
  /\ pinged' = pinged \ {s}
  /\ view' = [view EXCEPT ![s] = NoView]
  /\ UNCHANGED <<idle, sinceReap, untilPing, roomVars, slow, early>>

\* A client vanishes without a word; the relay's end stays open.
Vanish(s) ==
  /\ s \in connected
  /\ connected' = connected \ {s}
  /\ view' = [view EXCEPT ![s] = NoView]
  /\ UNCHANGED <<relayVars, roomVars, pinged, slow, early>>

-----------------------------------------------------------------------------
(* What is broadcast *)

\* The sockets a broadcast of a handler reaches; a client uses what it is
\* sent once it has asked for the rest.
Audience == {s \in sessions : Open(s)}
Tell(updated) ==
  view' = [s \in Sockets |->
    IF s \in Audience /\ view[s].synced THEN updated[s] ELSE view[s]]

Publish ==
  /\ messages < MaxMessages
  /\ messages' = messages + 1
  /\ Tell([s \in Sockets |-> [view[s] EXCEPT !.seen = @ \cup {messages'}]])
  /\ UNCHANGED <<presence, beat, reviews, socketVars>>

\* A mutant: only a new participant is told.
HeartbeatToldOnce(m, status) ==
  /\ presence' = [presence EXCEPT ![m] = status]
  /\ beat' = [beat EXCEPT ![m] = 0]
  /\ IF presence[m] = Absent
     THEN Tell([s \in Sockets |-> [view[s] EXCEPT !.roster[m] = status]])
     ELSE UNCHANGED view
  /\ UNCHANGED <<messages, reviews, socketVars>>

\* A heartbeat is told as joined or, when there is a record, as updated.
Heartbeat(m, status) ==
  /\ presence' = [presence EXCEPT ![m] = status]
  /\ beat' = [beat EXCEPT ![m] = 0]
  /\ Tell([s \in Sockets |-> [view[s] EXCEPT !.roster[m] = status]])
  /\ UNCHANGED <<messages, reviews, socketVars>>

\* A member leaves; only one with a record is told as left.
Leave(m) ==
  /\ ~Due
  /\ presence' = [presence EXCEPT ![m] = Absent]
  /\ beat' = [beat EXCEPT ![m] = 0]
  /\ IF presence[m] # Absent
     THEN Tell([s \in Sockets |-> [view[s] EXCEPT !.roster[m] = Absent]])
     ELSE UNCHANGED view
  /\ UNCHANGED <<messages, reviews, socketVars>>

\* The participants a list returns; the expired ones are dropped, silently.
Expired == {m \in Members : presence[m] # Absent /\ beat[m] >= PresenceTtl}
Listed == [m \in Members |-> IF m \in Expired THEN Absent ELSE presence[m]]

TallyOf(f) ==
  LET approve == Cardinality({m \in Reviewers : f[m] = "approve"})
      deny == Cardinality({m \in Reviewers : f[m] = "deny"})
  IN  [approve |-> approve, deny |-> deny,
       resolved |-> approve + deny > 0 /\ 2 * approve >= approve + deny]

\* A reviewer's verdict replaces its earlier one.
Review(m, verdict) ==
  /\ reviews' = [reviews EXCEPT ![m] = verdict]
  /\ Tell([s \in Sockets |-> [view[s] EXCEPT !.tally = TallyOf(reviews')]])
  /\ UNCHANGED <<messages, presence, beat, socketVars>>

\* A client that got 'ready' polls the room, lists the participants and reads
\* the review.
Synchronize(s) ==
  /\ Open(s) /\ s \in connected /\ ~view[s].synced
  /\ ~Due
  /\ presence' = Listed
  /\ beat' = [m \in Members |-> IF m \in Expired THEN 0 ELSE beat[m]]
  /\ view' = [view EXCEPT ![s] = [synced |-> TRUE, seen |-> 1..messages,
                                  roster |-> Listed, tally |-> TallyOf(reviews)]]
  /\ UNCHANGED <<messages, reviews, socketVars>>

\* The process starts again: the room is empty and every connection is broken.
Restart ==
  /\ readyState' = [s \in Sockets |-> "none"]
  /\ sessions' = {} /\ idle' = [s \in Sockets |-> 0]
  /\ sinceReap' = 0 /\ untilPing' = PingInterval
  /\ presence' = [m \in Members |-> Absent] /\ beat' = [m \in Members |-> 0]
  /\ reviews' = [m \in Reviewers |-> Absent]
  /\ messages' = 0
  /\ connected' = {} /\ pinged' = {} /\ slow' = {} /\ early' = {}
  /\ view' = [s \in Sockets |-> NoView]

Next ==
  \/ RequestReap \/ ReapInterval \/ Tick \/ Publish \/ Restart
  \/ \E s \in Sockets :
       Connect(s) \/ OpenSocket(s) \/ ClientMessage(s) \/ CloseEvent(s)
         \/ Vanish(s) \/ Synchronize(s)
  \/ \E m \in Members :
       Leave(m) \/ \E status \in Statuses : Heartbeat(m, status)
  \/ \E m \in Reviewers, verdict \in Verdicts : Review(m, verdict)

\* Time passes and the interval timer fires.
Spec == Init /\ [][Next]_vars /\ WF_vars(Tick) /\ WF_vars(ReapInterval)

-----------------------------------------------------------------------------
(* Properties *)

\* A client that asked for the room's state after 'ready' and was not
\* disconnected knows every message, every participant the relay lists, with
\* its latest status, and the review as it stands: nothing that changed in
\* between fails to be broadcast to it.  (A Deno socket that the reaper meets
\* before it is open leaves the room for good, although 'ready' is sent to it
\* when it opens: memory_handler.ts:1240.)
ViewsAreCurrent ==
  \A s \in connected \ early : Open(s) /\ view[s].synced =>
    /\ view[s].seen = 1..messages
    /\ \A m \in Members : presence[m] # Absent => view[s].roster[m] = presence[m]
    /\ view[s].tally = TallyOf(reviews)

\* A client that answers each ping before a tick has passed is not closed by
\* the relay, whatever the configured timeouts (memory_handler.ts:1155 keeps
\* the idle timeout above the ping interval).
PromptClientsStay ==
  \A s \in connected : readyState[s] = "closed" => s \in slow

\* A client that vanished does not hold one of the room's sockets for ever.
SlotsAreFreed ==
  \A s \in Sockets : (s \in sessions /\ s \notin connected) ~> (s \notin sessions)
=============================================================================
