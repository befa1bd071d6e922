---------------------------- MODULE CacheExchange ----------------------------
(***************************************************************************)
(* Relays that copy each other's messages (memory_handler.ts,              *)
(* cache_exchange.ts, cache_sync_worker.ts).  Every relay numbers the      *)
(* messages it accepts in a bounded ring; the worker of a relay visits its *)
(* peers in turn, pulls a page beyond the cursor it keeps for the peer and *)
(* pushes the page entry by entry to its own relay.  Messages carry their  *)
(* origin and the number of hops they made.  Nothing of this is stored: a  *)
(* relay that restarts numbers from 1 again.                               *)
(***************************************************************************)
EXTENDS Integers, SequencesExt, FiniteSetsExt

CONSTANTS
  Nodes,
  Peers,        \* Peers[n]: the peers of n in the order its worker visits them
  Rooms,
  Sources,      \* publish requests of clients: [node, msg]
  Locked,       \* Locked[n]: rooms for which n wants a token, which the worker has not
  MaxHops,      \* MaxHops[n]: cacheExchangeMaxHops
  MaxRecords,   \* cacheExchangeMaxRecords
  MaxMessages,  \* maxMessagesPerRoom
  Limit,        \* entries of a page
  MaxRestarts   \* MaxRestarts[n]: bound on the restarts of n

Messages == {s.msg : s \in Sources}
Ids == {m.id : m \in Messages}

ASSUME ExchangeAssumption ==
  /\ IsFiniteSet(Nodes) /\ IsFiniteSet(Sources)
  /\ Peers \in [Nodes -> Seq(Nodes) \ {<< >>}]
  /\ \A n \in Nodes : IsInjective(Peers[n]) /\ n \notin ToSet(Peers[n])
  /\ \A s \in Sources : s.node \in Nodes /\ s.msg.room \in Rooms
  /\ Locked \in [Nodes -> SUBSET Rooms]
  /\ MaxHops \in [Nodes -> Nat \ {0}]
  /\ MaxRecords \in Nat \ {0} /\ MaxMessages \in Nat \ {0} /\ Limit \in Nat \ {0}
  /\ MaxRestarts \in [Nodes -> Nat]

VARIABLES
  published,      \* the publish requests that were made
  messages,       \* messages[n][r]: the messages of room r at n
  records,        \* records[n]: cacheExchangeRecords
  exchangeCursor, \* exchangeCursor[n]: cacheExchangeCursor
  cursors,        \* cursors[n][p]: how far the worker of n got with peer p
  sync,           \* sync[n]: what the worker of n is doing
  lives,          \* lives[n]: how often n restarted
  outdated,       \* outdated[n]: peers that restarted after n heard of their cursors
  known,          \* known[n]: ids n accepted since it started
  lossless        \* no relay dropped a message or a record so far

nodeVars == <<messages, records, exchangeCursor, known, lossless>>
workerVars == <<cursors, sync, outdated>>
vars == <<published, nodeVars, workerVars, lives>>

PeersOf(n) == ToSet(Peers[n])
Records == [cursor : Nat, msg : Messages, origin : Nodes, hop : Nat, max : Nat]

\* The worker before its pull from its i-th peer.
Pulling(i) == [phase |-> "pull", peer |-> i, entries |-> {}, next |-> 0]

TypeOK ==
  /\ published \subseteq Sources
  /\ messages \in [Nodes -> [Rooms -> Seq(Messages)]]
  /\ records \in [Nodes -> Seq(Records)]
  /\ exchangeCursor \in [Nodes -> Nat]
  /\ cursors \in [Nodes -> [Nodes -> Nat]]
  /\ \A n \in Nodes :
       /\ sync[n] \in [phase : {"pull", "reply", "push"}, peer : DOMAIN Peers[n],
                       entries : SUBSET Records, next : Nat]
       /\ Cardinality(sync[n].entries) <= Limit /\ Len(records[n]) <= MaxRecords
       /\ \A r \in Rooms : Len(messages[n][r]) <= MaxMessages
  /\ DOMAIN sync = Nodes
  /\ lives \in [Nodes -> Nat] /\ outdated \in [Nodes -> SUBSET Nodes]
  /\ known \in [Nodes -> SUBSET Ids] /\ lossless \in BOOLEAN

Init ==
  /\ published = {}
  /\ messages = [n \in Nodes |-> [r \in Rooms |-> << >>]]
  /\ records = [n \in Nodes |-> << >>]
  /\ exchangeCursor = [n \in Nodes |-> 0]
  /\ cursors = [n \in Nodes |-> [p \in Nodes |-> 0]]
  /\ sync = [n \in Nodes |-> Pulling(1)]
  /\ lives = [n \in Nodes |-> 0] /\ outdated = [n \in Nodes |-> {}]
  /\ known = [n \in Nodes |-> {}] /\ lossless = TRUE

-----------------------------------------------------------------------------
(* A relay accepts a message *)

NewestUnbounded(list, max) == list   \* mutant: nothing is cut off
Newest(list, max) == IF Len(list) > max THEN SubSeq(list, Len(list) - max + 1, Len(list)) ELSE list

HeldIds(n, r) == {messages[n][r][i].id : i \in DOMAIN messages[n][r]}

\* publishIntoRoom for an id the room does not hold, and recordCacheExchange.
Accept(n, m, origin, hop, max) ==
  LET list == Append(messages[n][m.room], m)
      ring == Append(records[n], [cursor |-> exchangeCursor[n] + 1, msg |-> m,
                                  origin |-> origin, hop |-> hop, max |-> max])
  IN /\ messages' = [messages EXCEPT ![n][m.room] = Newest(list, MaxMessages)]
     /\ records' = [records EXCEPT ![n] = Newest(ring, MaxRecords)]
     /\ exchangeCursor' = [exchangeCursor EXCEPT ![n] = @ + 1]
     /\ known' = [known EXCEPT ![n] = @ \cup {m.id}]
     /\ lossless' = (lossless /\ Len(list) <= MaxMessages /\ Len(ring) <= MaxRecords)

\* A client publishes at a relay; an id the room holds is no news.
Publish(s) ==
  /\ s \in Sources \ published
  /\ published' = published \cup {s}
  /\ \/ s.msg.id \in HeldIds(s.node, s.msg.room) /\ UNCHANGED nodeVars
     \/ /\ s.msg.id \notin HeldIds(s.node, s.msg.room)
        /\ Accept(s.node, s.msg, s.node, 0, MaxHops[s.node])
  /\ UNCHANGED <<workerVars, lives>>

-----------------------------------------------------------------------------
(* Pull *)

\* selectCacheExchangeEntries: what p may offer to n, the records it looks at
\* before the page is full, and the page; a record is known by its cursor.
Sendable(p, n, after) ==
  {x \in ToSet(records[p]) : x.cursor > after /\ x.origin # n /\ x.hop < x.max}
Reached(p, n, after) ==
  {x \in ToSet(records[p]) :
     Cardinality({y \in Sendable(p, n, after) : y.cursor < x.cursor}) < Limit}
Page(p, n, after) == Sendable(p, n, after) \cap Reached(p, n, after)
NextCursorOfAll(p, n, after) ==      \* mutant: the cursor passes what the page left out
  Max({after} \cup {x.cursor : x \in ToSet(records[p])})
NextCursor(p, n, after) == Max({after} \cup {x.cursor : x \in Reached(p, n, after)})

OnTheWay(e) == [e EXCEPT !.hop = @ + 1]

Peer(n) == Peers[n][sync[n].peer]

\* The peer answers; the answer is on its way.
Pull(n) ==
  LET p == Peer(n) IN
  /\ sync[n].phase = "pull"
  /\ sync' = [sync EXCEPT ![n] =
       [@ EXCEPT !.phase = "reply", !.next = NextCursor(p, n, cursors[n][p]),
                 !.entries = {OnTheWay(x) : x \in Page(p, n, cursors[n][p])}]]
  /\ UNCHANGED <<published, nodeVars, cursors, outdated, lives>>

\* The worker goes on with its next peer, or starts over with the first.
MovedOn(n) == [sync EXCEPT ![n] = Pulling((sync[n].peer % Len(Peers[n])) + 1)]

\* The peer is not reached, serves another repository, or its answer is lost;
\* an answer changes nothing at the peer, so that all this is a lost answer.
PullFails(n) ==
  /\ sync[n].phase = "reply"
  /\ sync' = MovedOn(n)
  /\ UNCHANGED <<published, nodeVars, cursors, outdated, lives>>

-----------------------------------------------------------------------------
(* Push to the own relay *)

Forbidden(n, e) == e.msg.room \in Locked[n]

AcceptableAnyHop(n, e) ==            \* mutant: the hops are not looked at
  e.origin # n /\ e.msg.id \notin HeldIds(n, e.msg.room)
Acceptable(n, e) ==
  /\ e.origin # n
  /\ e.hop < e.max
  /\ e.msg.id \notin HeldIds(n, e.msg.room)

\* The entries at which the push does more than count: it waits for the cache
\* after an accepted entry, and ends at a forbidden one.
Stops(n) == {e \in sync[n].entries : Forbidden(n, e) \/ Acceptable(n, e)}
Stop(n) == CHOOSE e \in Stops(n) : \A f \in Stops(n) : e.cursor <= f.cursor

Pushing(n) == sync[n].phase \in {"reply", "push"}

\* handleCacheExchangePush up to the wait for the cache.
PushEntry(n) ==
  /\ Pushing(n) /\ Stops(n) # {}
  /\ LET e == Stop(n) IN
     /\ ~Forbidden(n, e)
     /\ Accept(n, e.msg, e.origin, e.hop, e.max)
     /\ sync' = [sync EXCEPT ![n] =
          [@ EXCEPT !.phase = "push",
                    !.entries = {f \in sync[n].entries : f.cursor > e.cursor}]]
  /\ UNCHANGED <<published, cursors, outdated, lives>>

\* The room wants a token: 403, though earlier entries are in already.
PushForbiddenAdvances(n) ==          \* mutant: the cursor advances all the same
  /\ Pushing(n) /\ Stops(n) # {} /\ Forbidden(n, Stop(n))
  /\ cursors' = [cursors EXCEPT ![n][Peer(n)] = Max({@, sync[n].next})]
  /\ sync' = MovedOn(n)
  /\ UNCHANGED <<published, nodeVars, outdated, lives>>
PushForbidden(n) ==
  /\ Pushing(n) /\ Stops(n) # {} /\ Forbidden(n, Stop(n))
  /\ sync' = MovedOn(n)
  /\ UNCHANGED <<published, nodeVars, cursors, outdated, lives>>

\* The whole page was looked at.
PushDone(n) ==
  /\ Pushing(n) /\ Stops(n) = {}
  /\ cursors' = [cursors EXCEPT ![n][Peer(n)] = Max({@, sync[n].next})]
  /\ sync' = MovedOn(n)
  /\ UNCHANGED <<published, nodeVars, outdated, lives>>

-----------------------------------------------------------------------------
\* Messages, ring and cursors of n are gone; its peers keep their cursors.
Restart(n) ==
  /\ lives[n] < MaxRestarts[n]
  /\ lives' = [lives EXCEPT ![n] = @ + 1]
  /\ messages' = [messages EXCEPT ![n] = [r \in Rooms |-> << >>]]
  /\ records' = [records EXCEPT ![n] = << >>]
  /\ exchangeCursor' = [exchangeCursor EXCEPT ![n] = 0]
  /\ cursors' = [cursors EXCEPT ![n] = [p \in Nodes |-> 0]]
  /\ sync' = [sync EXCEPT ![n] = Pulling(1)]
  /\ outdated' = [p \in Nodes |->
       IF p = n THEN {}
       ELSE IF cursors[p][n] > 0 \/ (Pushing(p) /\ Peer(p) = n) THEN outdated[p] \cup {n}
       ELSE outdated[p]]
  /\ known' = [known EXCEPT ![n] = {}]
  /\ UNCHANGED <<published, lossless>>

Next ==
  \/ \E s \in Sources : Publish(s)
  \/ \E n \in Nodes :
       \/ Pull(n) \/ PullFails(n)
       \/ PushEntry(n) \/ PushForbidden(n) \/ PushDone(n)
       \/ Restart(n)

Spec == Init /\ [][Next]_vars

\* The timer of a worker goes on, a push to the own relay ends, and a peer is
\* not cut off for ever: time and again its answer arrives.
PushStep(n) == PushEntry(n) \/ PushForbidden(n) \/ PushDone(n)
Syncing ==
  \A n \in Nodes :
    /\ WF_vars(Pull(n) \/ (sync[n].phase = "push" /\ PushStep(n)))
    /\ \A i \in DOMAIN Peers[n] : SF_vars(sync[n].peer = i /\ PushStep(n))

-----------------------------------------------------------------------------
(* Safety *)

\* No message that is locked somewhere was published.
Unlocked == \A s \in published : \A n \in Nodes : s.msg.room \notin Locked[n]
Undisturbed == Unlocked /\ \A n \in Nodes : lives[n] = 0

\* Routes[o][n]: the ways from o to n, relay by relay, for as many hops as o allows.
Routes == [o \in Nodes |-> [n \in Nodes |->
  {w \in BoundedSeq(Nodes, MaxHops[o]) :
     /\ Len(w) > 0 /\ w[1] = o /\ w[Len(w)] = n
     /\ \A i \in 2..Len(w) : w[i] # o /\ w[i - 1] \in PeersOf(w[i])}]]

\* The copies of what was published that may reach n, each by its way.
Copies(requests, n) == UNION {[source : {s}, way : Routes[s.node][n]] : s \in requests}

\* A worker's cursor passes over no record it has not brought home: whatever
\* lies before it in the peer's ring and may still travel was accepted here,
\* whichever pages failed half-way (cache_sync_worker.ts 88-104).
CursorPassesNothing ==
  \A n \in Nodes : \A p \in PeersOf(n) :
    p \notin outdated[n] =>
      \A i \in DOMAIN records[p] :
        LET x == records[p][i] IN
        x.cursor <= cursors[n][p] /\ x.origin # n /\ x.hop + 1 < x.max
          => x.msg.id \in known[n]

\* Copies die out although rooms forget messages and then take them in again:
\* a relay accepts a message at most once per way from its origin that the
\* hop limit allows (memory_handler.ts 1518-1525, cache_exchange.ts 121-122).
FloodIsFinite ==
  Undisturbed =>
    \A n \in Nodes : exchangeCursor[n] <= Cardinality(Copies(published, n))

(* Liveness *)

SameIds == \A n, p \in Nodes, r \in Rooms : HeldIds(n, r) = HeldIds(p, r)

\* As long as nothing was dropped, locked or restarted, all relays come to hold
\* the same ids, however many messages are published where, in which pages they
\* travel and which pulls fail; two messages with one id stay apart
\* (cache_sync_worker.ts 86-108).
Converges == <>[](lossless /\ Undisturbed => SameIds)
=============================================================================
