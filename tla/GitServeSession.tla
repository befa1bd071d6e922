--------------------------- MODULE GitServeSession ---------------------------
(***************************************************************************)
(* A git serve session (git_serve_session.ts): git clients send requests   *)
(* to the relay, a daemon behind a firewall fetches them with long polls   *)
(* and posts the responses back.  JavaScript runs one handler at a time    *)
(* up to its next await, so an action is a stretch of a handler between    *)
(* two awaits; a handler that awaits the body of its request is two        *)
(* actions.  Timers are the set of those that are armed: a timer may fire  *)
(* at any moment while it is armed.                                        *)
(***************************************************************************)
EXTENDS Naturals, SequencesExt

CONSTANTS
  Requests,      \* git HTTP requests; the identifiers are random UUIDs
  Kind,          \* Kind[r]: what request r asks of git
  Pollers,       \* connections over which the daemon can long-poll
  Responders,    \* respond calls that can be under way at once
  MaxTokens,     \* bound on the number of registrations
  HasStorage,    \* Durable Object (with storage) or Deno process (without)
  HasListener,   \* is onIncomingRef set (in the Deno process)
  NoRequest      \* a responder that handles no call

\* "read" stands for any GET except the receive-pack advertisement, "fetch"
\* for a POST without refs under refs/relay/incoming/, "pushIncoming" for a
\* receive-pack POST whose refs are all there, "pushMixed" for one with
\* other refs as well.
RequestKinds == {"read", "advert", "fetch", "pushIncoming", "pushMixed"}

\* What the daemon posts: a 2xx answer, another status, the 403 with the body
\* "receive-pack not enabled", a response that cannot be built (base64, header
\* or status), a 2xx status that no response with a body may have (204, 205),
\* and JSON the handler rejects with 400.
Bodies == {"ok", "denied", "disabled", "undecodable", "nullBody", "badJson"}

ASSUME SessionAssumption ==
  /\ Kind \in [Requests -> RequestKinds]
  /\ MaxTokens \in Nat
  /\ HasStorage \in BOOLEAN
  /\ HasListener \in BOOLEAN
  /\ NoRequest \notin Requests
  /\ Requests \cap Pollers = {}

VARIABLES
  active, token,   \* state.active; state.sessionToken, 0 is the empty token
  ttlArmed,        \* sessionTimer # null
  lastToken,       \* tokens drawn so far: a new token is a fresh one
  registering,     \* tokens of register calls that are not answered yet
  issued,          \* tokens a daemon has been given
  stored,          \* session_state in the Durable Object's storage
  client,          \* client[r]: how far the client of r has got, or its answer
  settles,         \* settles[r]: how often r's promise has been resolved
  pending,         \* keys of state.pendingRequests
  stranded,        \* requests whose respond call threw after taking them
  events,          \* events[r]: incoming_ref events emitted for r
  waiters,         \* state.pollWaiters
  poller,          \* poller[p]: idle, in a long poll, or hung up in one
  timers,          \* requests and pollers whose timeout is armed
  handed,          \* requests put into some poll response
  known,           \* requests the daemon has received
  responder,       \* responder[x]: the request x answers while reading its body
  acked            \* requests whose respond call returned ok

sessionVars == <<active, token, ttlArmed, lastToken, registering, issued, stored>>
clientVars  == <<client, settles, pending, stranded, events>>
pollVars    == <<waiters, poller, timers, handed, known>>
daemonVars  == <<responder, acked>>
vars == <<sessionVars, clientVars, pollVars, daemonVars>>

Tokens == 1..MaxTokens
Persistable == [active : BOOLEAN, token : 0..MaxTokens]
NotStored == [active |-> FALSE, token |-> 0]

Open == {"new", "reading", "waiting"}
Answers == {"ok", "denied", "refused", "closed", "timeout", "lost"}

TypeOK ==
  /\ active \in BOOLEAN /\ token \in 0..MaxTokens /\ ttlArmed \in BOOLEAN
  /\ lastToken \in 0..MaxTokens
  /\ registering \subseteq Tokens /\ issued \subseteq Tokens
  /\ stored \in Persistable
  /\ active => token # 0
  /\ stored.active => stored.token # 0
  /\ client \in [Requests -> Open \cup Answers]
  /\ settles \in [Requests -> Nat] /\ events \in [Requests -> Nat]
  /\ pending \subseteq Requests /\ stranded \subseteq Requests
  /\ waiters \in Seq(Pollers)
  /\ poller \in [Pollers -> {"idle", "open", "gone"}]
  /\ timers \subseteq Requests \cup Pollers
  /\ handed \subseteq Requests /\ known \subseteq Requests /\ acked \subseteq Requests
  /\ responder \in [Responders -> Requests \cup {NoRequest}]

Init ==
  /\ active = FALSE /\ token = 0 /\ ttlArmed = FALSE
  /\ lastToken = 0 /\ registering = {} /\ issued = {}
  /\ stored = NotStored
  /\ client = [r \in Requests |-> "new"]
  /\ settles = [r \in Requests |-> 0]
  /\ pending = {} /\ stranded = {}
  /\ events = [r \in Requests |-> 0]
  /\ waiters = << >> /\ poller = [p \in Pollers |-> "idle"] /\ timers = {}
  /\ handed = {} /\ known = {}
  /\ responder = [x \in Responders |-> NoRequest] /\ acked = {}

-----------------------------------------------------------------------------
(* Helpers *)

\* The promises of the requests in S are resolved with an answer.  Only the
\* first resolution of a promise has an effect.
Settle(S, answer) ==
  /\ client' = [r \in Requests |->
                  IF r \in S /\ client[r] \in Open THEN answer ELSE client[r]]
  /\ settles' = [r \in Requests |-> settles[r] + (IF r \in S THEN 1 ELSE 0)]

\* A poll of p is answered with the requests in S; a daemon that hung up
\* never sees them.
Deliver(p, S) ==
  /\ handed' = handed \cup S
  /\ known' = IF poller[p] = "gone" THEN known ELSE known \cup S

\* setTimeout for the request or the poll e.
NotArmed(e) == timers               \* mutant: the timeout is never set
Armed(e) == timers \cup {e}

\* mutant: the request waits for the next poll
EnqueueWithoutDrain(r) ==
  /\ client' = [client EXCEPT ![r] = "waiting"]
  /\ pending' = pending \cup {r}
  /\ timers' = Armed(r)
  /\ UNCHANGED <<waiters, poller, handed, known, settles, stranded, events>>

\* Request r becomes pending with its timeout armed, and everything that is
\* pending goes to the poll that has waited longest.
Enqueue(r) ==
  /\ client' = [client EXCEPT ![r] = "waiting"]
  /\ pending' = pending \cup {r}
  /\ IF waiters = << >>
     THEN /\ timers' = Armed(r)
          /\ UNCHANGED <<waiters, poller, handed, known>>
     ELSE LET p == Head(waiters) IN
          /\ timers' = Armed(r) \ {p}
          /\ waiters' = Tail(waiters)
          /\ poller' = [poller EXCEPT ![p] = "idle"]
          /\ Deliver(p, pending')
  /\ UNCHANGED <<settles, stranded, events>>

HasIncomingRefs(r) == Kind[r] \in {"pushIncoming", "pushMixed"}

\* The status the client is answered with: a daemon that does not take
\* pushes is overruled for the advertisement and for pushes of relay refs.
FinalVerdict(r, body) ==
  IF body = "ok" \/ (body = "disabled" /\ Kind[r] \in {"advert", "pushIncoming"})
  THEN "ok" ELSE "denied"

\* Are incoming_ref events emitted?  The handler looks at the status before it
\* builds the response, which may still fail for a nullBody.
AnnouncesAnyStatus(r, body) ==      \* mutant: the status is not looked at
  HasListener /\ HasIncomingRefs(r) /\ body # "undecodable"
Announces(r, body) ==
  /\ HasListener /\ HasIncomingRefs(r)
  /\ body # "undecodable"
  /\ body = "nullBody" \/ FinalVerdict(r, body) = "ok"

\* Can a respond call still answer r?
AnswerableIfKnown(r) == r \in known   \* mutant: a late respond is accepted
Answerable(r) == r \in pending

\* What a poll is answered with.  Requests stay pending when they are handed
\* out, so every later poll returns them again.
OutstandingOnce == pending \ handed   \* mutant: each request is handed out once
Outstanding == pending

-----------------------------------------------------------------------------
(* Registration, expiry and restarts *)

RegisterKeepingToken ==             \* mutant: no token is drawn
  /\ lastToken < MaxTokens
  /\ lastToken' = lastToken + 1
  /\ active' = TRUE /\ ttlArmed' = TRUE
  /\ registering' = registering \cup {lastToken'}
  /\ UNCHANGED <<token, issued, stored, clientVars, pollVars, daemonVars>>

\* handleRegister draws a new token; requests and polls of the previous
\* registration stay where they are.
Register ==
  /\ lastToken < MaxTokens
  /\ lastToken' = lastToken + 1
  /\ token' = lastToken' /\ active' = TRUE
  /\ ttlArmed' = TRUE
  /\ registering' = registering \cup {lastToken'}
  /\ UNCHANGED <<issued, stored, clientVars, pollVars, daemonVars>>

\* The register call persists the state as it is by then and is answered; when
\* the put fails the call throws and the daemon never learns the token.
PersistRegister(t) ==
  /\ t \in registering
  /\ registering' = registering \ {t}
  /\ \/ /\ stored' = IF HasStorage THEN [active |-> active, token |-> token] ELSE stored
        /\ issued' = issued \cup {t}
     \/ HasStorage /\ UNCHANGED <<stored, issued>>
  /\ UNCHANGED <<active, token, ttlArmed, lastToken>>
  /\ UNCHANGED <<clientVars, pollVars, daemonVars>>

\* cleanup: 410 for every pending request, an empty answer for every poll.
Cleanup ==
  /\ Settle(pending, "closed")
  /\ pending' = {}
  /\ poller' = [p \in Pollers |-> IF p \in ToSet(waiters) THEN "idle" ELSE poller[p]]
  /\ timers' = timers \ (pending \cup ToSet(waiters))
  /\ waiters' = << >>
  /\ active' = FALSE

\* The session timer fires; every session has one, 24 hours by default.
\* Nothing is persisted.
SessionTimeout ==
  /\ ttlArmed
  /\ Cleanup
  /\ ttlArmed' = FALSE
  /\ UNCHANGED <<token, lastToken, registering, issued, stored>>
  /\ UNCHANGED <<stranded, events, handed, known, daemonVars>>

\* The process or the Durable Object dies and comes back with what storage
\* holds; every connection breaks.  An active session gets a full TTL again.
Restart ==
  /\ active' = stored.active /\ token' = stored.token
  /\ ttlArmed' = stored.active
  /\ registering' = {}
  /\ client' = [r \in Requests |->
                  IF client[r] \in {"reading", "waiting"} THEN "lost" ELSE client[r]]
  /\ pending' = {} /\ stranded' = {}
  /\ waiters' = << >> /\ poller' = [p \in Pollers |-> "idle"] /\ timers' = {}
  /\ responder' = [x \in Responders |-> NoRequest]
  /\ UNCHANGED <<lastToken, issued, stored>>
  /\ UNCHANGED <<settles, events, handed, known, acked>>

-----------------------------------------------------------------------------
(* The clone side *)

\* handleGitRequest: 404 without an active session; a GET is queued at once,
\* a POST after its body has been read.
GitRequest(r) ==
  /\ client[r] = "new"
  /\ \/ /\ ~active
        /\ client' = [client EXCEPT ![r] = "refused"]
        /\ UNCHANGED <<settles, pending, stranded, events, pollVars>>
     \/ /\ active /\ Kind[r] \in {"read", "advert"}
        /\ Enqueue(r)
     \/ /\ active /\ Kind[r] \notin {"read", "advert"}
        /\ client' = [client EXCEPT ![r] = "reading"]
        /\ UNCHANGED <<settles, pending, stranded, events, pollVars>>
  /\ UNCHANGED <<sessionVars, daemonVars>>

\* The body has arrived.  The session may have been closed meanwhile: the
\* request is queued all the same.
GitBody(r) ==
  /\ client[r] = "reading"
  /\ Enqueue(r)
  /\ UNCHANGED <<sessionVars, daemonVars>>

\* Reading the body fails, the client has gone away.
GitBodyFails(r) ==
  /\ client[r] = "reading"
  /\ client' = [client EXCEPT ![r] = "lost"]
  /\ UNCHANGED <<settles, pending, stranded, events>>
  /\ UNCHANGED <<sessionVars, pollVars, daemonVars>>

\* Sixty seconds are over: 504.
RequestTimeout(r) ==
  /\ r \in timers
  /\ timers' = timers \ {r}
  /\ pending' = pending \ {r}
  /\ Settle({r}, "timeout")
  /\ UNCHANGED <<stranded, events, waiters, poller, handed, known>>
  /\ UNCHANGED <<sessionVars, daemonVars>>

-----------------------------------------------------------------------------
(* The serve side *)

\* handlePoll with the current token; another token leaves no trace.
Poll(p) ==
  /\ active /\ token \in issued
  /\ poller[p] = "idle"
  /\ \/ /\ Outstanding # {}
        /\ Deliver(p, Outstanding)
        /\ UNCHANGED <<waiters, poller, timers>>
     \/ /\ Outstanding = {}
        /\ waiters' = Append(waiters, p)
        /\ poller' = [poller EXCEPT ![p] = "open"]
        /\ timers' = Armed(p)
        /\ UNCHANGED <<handed, known>>
  /\ UNCHANGED <<sessionVars, clientVars, daemonVars>>

\* The daemon drops its connection; the session does not notice.
HangUp(p) ==
  /\ poller[p] = "open"
  /\ poller' = [poller EXCEPT ![p] = "gone"]
  /\ UNCHANGED <<waiters, timers, handed, known>>
  /\ UNCHANGED <<sessionVars, clientVars, daemonVars>>

\* The poll has waited long enough and is answered with no requests.
PollTimeout(p) ==
  /\ p \in timers
  /\ timers' = timers \ {p}
  /\ poller' = [poller EXCEPT ![p] = "idle"]
  /\ \/ \E i \in DOMAIN waiters : waiters[i] = p /\ waiters' = RemoveAt(waiters, i)
     \/ p \notin ToSet(waiters) /\ UNCHANGED waiters
  /\ UNCHANGED <<handed, known>>
  /\ UNCHANGED <<sessionVars, clientVars, daemonVars>>

\* handleRespond up to its await: the token is validated, the body is not
\* there yet.  Request identifiers cannot be guessed.
Respond(x, r) ==
  /\ active /\ token \in issued
  /\ responder[x] = NoRequest
  /\ r \in known
  /\ responder' = [responder EXCEPT ![x] = r]
  /\ UNCHANGED <<sessionVars, clientVars, pollVars, acked>>

\* The timeouts left armed once a respond call has taken r.
StillArmed(r) == timers             \* mutant: clearTimeout is missing
Disarmed(r) == timers \ {r}

\* The rest of handleRespond.  The token is not looked at again.
RespondBody(x, body) ==
  LET r == responder[x] IN
  /\ r # NoRequest
  /\ responder' = [responder EXCEPT ![x] = NoRequest]
  /\ UNCHANGED <<sessionVars, waiters, poller, handed, known>>
  /\ IF body = "badJson" \/ ~Answerable(r)        \* 400; 404
     THEN UNCHANGED <<clientVars, timers, acked>>
     ELSE /\ pending' = pending \ {r}
          /\ timers' = Disarmed(r)
          /\ events' = [events EXCEPT ![r] = @ + (IF Announces(r, body) THEN 1 ELSE 0)]
          /\ \/ /\ body \in {"undecodable", "nullBody"}    \* the handler throws
                /\ stranded' = stranded \cup {r}
                /\ UNCHANGED <<client, settles, acked>>
             \/ /\ body \notin {"undecodable", "nullBody"}
                /\ Settle({r}, FinalVerdict(r, body))
                /\ acked' = acked \cup {r}
                /\ UNCHANGED stranded

-----------------------------------------------------------------------------
Next ==
  \/ Register \/ SessionTimeout \/ Restart
  \/ \E t \in Tokens : PersistRegister(t)
  \/ \E r \in Requests :
       GitRequest(r) \/ GitBody(r) \/ GitBodyFails(r) \/ RequestTimeout(r)
  \/ \E p \in Pollers : Poll(p) \/ HangUp(p) \/ PollTimeout(p)
  \/ \E x \in Responders, r \in Requests : Respond(x, r)
  \/ \E x \in Responders, body \in Bodies : RespondBody(x, body)

Spec == Init /\ [][Next]_vars

\* An armed timer fires sooner or later.
TimersFire ==
  /\ \A r \in Requests : WF_vars(RequestTimeout(r))
  /\ \A p \in Pollers : WF_vars(PollTimeout(p))

TimedSpec == Spec /\ TimersFire

\* A daemon that keeps polling, against requests that may wait for as long
\* as they like.
PollingSpec ==
  Spec /\ \A p \in Pollers : WF_vars(PollTimeout(p)) /\ WF_vars(Poll(p))

-----------------------------------------------------------------------------
(* Safety *)

\* A clone client whose request was queued waits exactly as long as the
\* request is pending with its timeout armed, or was taken by a respond call
\* that threw (lines 460-495): no path drops a request and leaves its client
\* without an answer or a timeout.
WaitingIsTracked ==
  /\ pending = timers \cap Requests
  /\ pending \cap stranded = {}
  /\ {r \in Requests : client[r] = "waiting"} = pending \cup stranded

\* No two of timeout, respond and cleanup resolve the same promise: a second
\* resolution would be dropped without a trace.
SettledAtMostOnce == \A r \in Requests : settles[r] <= 1

\* The waiting polls, the armed poll timeouts and the queue of waiters agree,
\* and a poll stands in the queue once (lines 287-296, 382-398).
WaitersAreTracked ==
  /\ ToSet(waiters) = timers \cap Pollers
  /\ ToSet(waiters) = {p \in Pollers : poller[p] # "idle"}
  /\ IsInjective(waiters)

\* No lost wakeup: while a poll waits, every pending request has been handed
\* to some poll (handlePoll waits only when nothing is pending, and
\* handleGitRequest drains to a waiter).
NoLostWakeup == waiters # << >> => pending \subseteq handed

\* Polls and requests find each other: whoever polls is in the queue with a
\* timeout, and a request that waits beside a waiting poll was handed out.
PollsAreTracked == WaitersAreTracked /\ NoLostWakeup

\* A daemon that is told "ok" by handleRespond has decided the client's
\* answer, whatever timeouts and expiries ran against it.
AckMeansDelivered == \A r \in acked : client[r] \in {"ok", "denied"}

\* A ref is announced once, never for a push that was refused or given up,
\* and always for one that was accepted (lines 492-494).
EventsMatchVerdicts ==
  \A r \in Requests :
    /\ events[r] <= 1
    /\ events[r] = 1 => /\ HasListener /\ HasIncomingRefs(r)
                        /\ client[r] = "ok" \/ r \in stranded \/ client[r] = "lost"
    /\ HasListener /\ HasIncomingRefs(r) /\ client[r] = "ok" => events[r] = 1

\* What the client, the daemon and the listeners of incoming_ref are told of
\* one request agrees, and the client is told once.
VerdictsAgree == SettledAtMostOnce /\ AckMeansDelivered /\ EventsMatchVerdicts

(* Refinement *)

Outcome == [r \in Requests |->
              IF client[r] \in {"reading", "waiting"} THEN "accepted" ELSE client[r]]
Announced == {r \in Requests : events[r] > 0}

Relay == INSTANCE GitRelay WITH
  outcome <- Outcome, forwarded <- known, announced <- Announced

\* The session, its long polls and its timers implement the relay: one
\* answer per request, the daemon's only for requests it has received.
ImplementsRelay == Relay!RelaySpec

(* Liveness *)

\* Under armed timers that fire, a client that waits is answered, except
\* when the daemon's own respond call threw.
AnsweredOrStranded ==
  \A r \in Requests : client[r] = "waiting" ~> client[r] # "waiting" \/ r \in stranded

\* A long poll is answered.
PollsEnd == \A p \in Pollers : poller[p] # "idle" ~> poller[p] = "idle"

\* Nobody waits for ever, on either side (setTimeout at lines 341 and 386).
EveryoneIsAnswered == AnsweredOrStranded /\ PollsEnd

\* With a daemon that polls the active session, a pending request reaches it
\* even when it was first handed to connections that had hung up, and even if
\* no request ever timed out.
PendingReachesDaemon ==
  \A r \in Requests :
    r \in pending ~> r \in known \/ r \notin pending \/ ~active \/ token \notin issued
=============================================================================
