----------------------------- MODULE WorkerRooms -----------------------------
(***************************************************************************)
(* How the Cloudflare Worker spreads the rooms over Durable Objects        *)
(* (cloudflare_worker.ts).  Every room has an object of its name, and each *)
(* object runs a relay service that keeps whatever rooms the calls sent to *)
(* it name.  A client that polls a room is sent to the room's object, so   *)
(* what is accepted for a room must be kept there.  A push of the cache    *)
(* exchange is split by the rooms of its entries and forwarded to one      *)
(* object after the other; the first that does not answer 200 ends it.     *)
(* The objects' memory is lost when they restart; duplicate entries are    *)
(* found by id, so a room is the set of its entries.                       *)
(***************************************************************************)
EXTENDS Naturals, FiniteSets

CONSTANTS
  Rooms,         \* valid room names, also the names of the objects
  Main,          \* the room of calls that name none
  NoRoom,        \* an invalid room name, or none
  Entries,       \* messages, by id
  RoomOf,        \* RoomOf[e]: the room message e is for
  Ending,        \* entries that end a push with 400 or 403: one that cannot be
                 \* parsed or has no room, or whose room wants another token
  Rejected,      \* entries a push only counts as rejected: those with an invalid
                 \* topic, of the relay's own origin, or without a hop left
  Batches,       \* the sets of entries peers push
  Pushers,       \* peers that push and retry until they are answered 200
  MaxFaults      \* bound on failing calls of an object and restarts

ASSUME RoomsAssumption ==
  /\ Main \in Rooms /\ NoRoom \notin Rooms
  /\ RoomOf \in [Entries -> Rooms \cup {NoRoom}]
  /\ Ending \subseteq Entries /\ Rejected \subseteq Entries
  /\ Batches \subseteq SUBSET Entries
  /\ MaxFaults \in Nat

VARIABLES
  held,          \* held[d]: the messages the service of object d keeps
  push,          \* push[p]: the push of peer p and how far it is
  faults,
  acknowledged   \* messages of calls answered 200, since their room's object started

workerVars == <<held, push, faults, acknowledged>>

\* due: the entries the peer may count on once it is answered 200.
Pushes == [stage : {"idle", "forwarding", "failed"}, query : Rooms \cup {NoRoom},
           entries : SUBSET Entries, left : SUBSET Entries, due : SUBSET Entries]
NoPush == [stage |-> "idle", query |-> NoRoom, entries |-> {}, left |-> {}, due |-> {}]

\* No service keeps a message for an invalid room.
WorkerTypeOK ==
  /\ held \in [Rooms -> SUBSET {e \in Entries : RoomOf[e] # NoRoom}]
  /\ push \in [Pushers -> Pushes]
  /\ faults \in 0..MaxFaults
  /\ acknowledged \subseteq Entries
  /\ \A p \in Pushers :
       push[p].left \subseteq push[p].entries /\ push[p].due \subseteq push[p].entries

WorkerInit ==
  /\ held = [d \in Rooms |-> {}]
  /\ push = [p \in Pushers |-> NoPush]
  /\ faults = 0
  /\ acknowledged = {}

Fault == faults < MaxFaults /\ faults' = faults + 1

-----------------------------------------------------------------------------
(* Calls with one message *)

TakesAny(S) == S                      \* mutant: room names are not checked
\* What the service of an object takes of the entries it comes to; one with an
\* invalid room name is rejected, too.
Takes(S) == {e \in S \ (Ending \cup Rejected) : RoomOf[e] # NoRoom}

\* Object d answers 200 to a call with message e.
Deliver(d, e, mayCount) ==
  /\ RoomOf[e] # NoRoom
  /\ held' = [held EXCEPT ![d] = @ \cup {e}]
  /\ acknowledged' = IF mayCount THEN acknowledged \cup {e} ELSE acknowledged
  /\ UNCHANGED <<push, faults>>

\* A publish names its room in the query, for the Worker and for the service.
RoutedPublish(e) == RoomOf[e] # NoRoom /\ Deliver(RoomOf[e], e, TRUE)

\* A CI callback is sent to the room of its query, else to the one the service
\* takes from its body.  It may count on its room if the two agree.
Callback(e, query) ==
  Deliver(IF query = NoRoom THEN RoomOf[e] ELSE query, e, query \in {NoRoom, RoomOf[e]})

\* A GitHub webhook is sent to the room of its query, else to the default
\* room; the service puts it into the repository's room, which nobody polls
\* there, unless the query names it.
Webhook(e, query) ==
  Deliver(IF query = NoRoom THEN Main ELSE query, e, query = RoomOf[e])

-----------------------------------------------------------------------------
(* Pushes *)

AllValid(S) == \A e \in S : RoomOf[e] # NoRoom

\* What a peer may count on, of the entries that are not rejected: a push with a
\* room in its query is for that room; one with an entry that has no valid room
\* goes to the default room as a whole.
Due(S, query) ==
  IF query = NoRoom /\ AllValid(S) THEN S \ Rejected
  ELSE {e \in S \ Rejected : RoomOf[e] = IF query = NoRoom THEN Main ELSE query}

BeginPush(p, S, query) ==
  /\ push[p].stage = "idle"
  /\ push' = [push EXCEPT ![p] =
       [stage |-> "forwarding", query |-> query, entries |-> S, left |-> S,
        due |-> Due(S, query)]]
  /\ UNCHANGED <<held, faults, acknowledged>>

\* The objects a push may go to next, each with its entries: the push is split
\* if it names no room and all its entries do.
Groups(p) ==
  IF push[p].query # NoRoom THEN {<<push[p].query, push[p].left>>}
  ELSE IF ~AllValid(push[p].entries) THEN {<<Main, push[p].left>>}
  ELSE {<<d, {e \in push[p].left : RoomOf[e] = d}>> :
          d \in {RoomOf[e] : e \in push[p].left}}

\* Object d has taken S of the entries G sent to it; after the last group the
\* peer is answered 200.
Forwarded(p, d, G, S) ==
  /\ held' = [held EXCEPT ![d] = @ \cup Takes(S)]
  /\ \/ /\ push[p].left # G
        /\ push' = [push EXCEPT ![p].left = @ \ G]
        /\ UNCHANGED acknowledged
     \/ /\ push[p].left = G
        /\ push' = [push EXCEPT ![p] = NoPush]
        /\ acknowledged' = acknowledged \cup push[p].due

ForwardNew(p) ==                      \* mutant: an entry that is there is refused
  /\ push[p].stage = "forwarding"
  /\ \E g \in Groups(p) :
       Takes(g[2]) \cap held[g[1]] = {} /\ Forwarded(p, g[1], g[2], g[2])
  /\ UNCHANGED faults

\* The object of a group comes to the end of it and answers 200.
Forward(p) ==
  /\ push[p].stage = "forwarding"
  /\ \E g \in Groups(p) : g[2] \cap Ending = {} /\ Forwarded(p, g[1], g[2], g[2])
  /\ UNCHANGED faults

ForwardFailsUnnoticed(p) ==           \* mutant: the object's status is not looked at
  /\ push[p].stage = "forwarding"
  /\ Fault
  /\ \E g \in Groups(p) : \E S \in SUBSET g[2] : Forwarded(p, g[1], g[2], S)

\* An object does not answer 200, and took some of the entries of its group
\* before; the objects after it get nothing, and the peer is told of none.
Broken(p, g) ==
  /\ \E S \in SUBSET g[2] : held' = [held EXCEPT ![g[1]] = @ \cup Takes(S)]
  /\ push' = [push EXCEPT ![p].stage = "failed"]
  /\ UNCHANGED acknowledged

\* The call of an object fails.
ForwardFails(p) ==
  /\ push[p].stage = "forwarding"
  /\ Fault
  /\ \E g \in Groups(p) : Broken(p, g)

\* The service answers 400 or 403 for the whole group.
ForwardEnds(p) ==
  /\ push[p].stage = "forwarding"
  /\ \E g \in Groups(p) : g[2] \cap Ending # {} /\ Broken(p, g)
  /\ UNCHANGED faults

\* The peer sends the same push again.
Retry(p) ==
  /\ push[p].stage = "failed"
  /\ push' = [push EXCEPT ![p].stage = "forwarding", ![p].left = push[p].entries,
                          ![p].due = Due(push[p].entries, push[p].query)]
  /\ UNCHANGED <<held, faults, acknowledged>>

\* An object restarts with empty rooms; nobody may count on what it had.
RestartObject(d) ==
  /\ Fault
  /\ held' = [held EXCEPT ![d] = {}]
  /\ push' = [p \in Pushers |->
       [push[p] EXCEPT !.due = {e \in @ : RoomOf[e] # d \/ e \in push[p].left}]]
  /\ acknowledged' = {e \in acknowledged : RoomOf[e] # d}

WorkerNext ==
  \/ \E e \in Entries : RoutedPublish(e)
  \/ \E e \in Entries, query \in Rooms \cup {NoRoom} : Callback(e, query) \/ Webhook(e, query)
  \/ \E p \in Pushers, S \in Batches, query \in Rooms \cup {NoRoom} : BeginPush(p, S, query)
  \/ \E p \in Pushers : Forward(p) \/ ForwardFails(p) \/ ForwardEnds(p) \/ Retry(p)
  \/ \E d \in Rooms : RestartObject(d)

WorkerSpec ==
  /\ WorkerInit /\ [][WorkerNext]_workerVars
  /\ \A p \in Pushers : WF_workerVars(Forward(p)) /\ WF_workerVars(Retry(p))

-----------------------------------------------------------------------------
(* Properties *)

\* What a call answered 200 may count on, and did not count as rejected, is in
\* the object whose room is polled until that object restarts, however pushes of
\* several rooms fail or are refused half way, overlap and are sent again
\* (routeCacheExchangePushByEntryRoom returns the first answer that is not 200).
AcknowledgedIsPolled ==
  \A e \in acknowledged : e \in held[RoomOf[e]]

\* A peer that retries its push is answered 200 in the end, after part of it
\* was applied too, unless an entry ends it each time: entries that are there
\* already count as duplicates and do not keep the rest from being pushed.
PushGetsThrough ==
  \A p \in Pushers :
    push[p].stage # "idle" ~> push[p].stage = "idle" \/ push[p].entries \cap Ending # {}
=============================================================================
