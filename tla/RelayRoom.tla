------------------------------ MODULE RelayRoom ------------------------------
(***************************************************************************)
(* One room of a relay (memory_handler.ts): publishers that pass the rate  *)
(* limits and wait for their body and signature check, the bounded list of *)
(* messages, pollers with a cursor into it, and consumers that fetch their *)
(* inbox and acknowledge it.  Rooms are kept in memory only: a restart of  *)
(* the process or of the Durable Object empties them, while the clients    *)
(* keep their cursors.                                                     *)
(***************************************************************************)
EXTENDS Integers, SequencesExt, FiniteSetsExt

CONSTANTS
  Ips, Senders,   \* client addresses, senders
  NoIp,           \* no header tells the address
  Room,           \* the key of the room's rate counter
  Ids,            \* message ids
  Publishes,      \* publish requests; each may be sent again and again
  Pollers, Consumers,
  Limit,          \* publishes per window for an address, a sender, the room
  Window,         \* publishWindowMs
  MaxMessages,    \* maxMessagesPerRoom
  PageLimit,      \* limit of a poll
  InboxLimit,     \* limit of an inbox request
  MaxCount,       \* bound on the counters
  MaxTime,        \* bound on the clock
  MaxAccepted     \* bound on the messages accepted in all

Keys == Ips \cup Senders \cup {Room}
PublishRequests == [ip : Ips \cup {NoIp}, sender : Senders, id : Ids]

ASSUME RoomAssumption ==
  /\ IsFiniteSet(Senders)
  /\ Publishes \subseteq PublishRequests
  /\ Ips \cap Senders = {} /\ Room \notin Ips \cup Senders
  /\ NoIp \notin Keys
  /\ Limit \in [Keys -> Nat \ {0}] /\ MaxCount \in [Keys -> Nat]
  /\ Window \in Nat \ {0} /\ MaxMessages \in Nat \ {0}
  /\ PageLimit \in Nat \ {0} /\ InboxLimit \in Nat \ {0}
  /\ MaxTime \in Nat /\ MaxAccepted \in Nat

VARIABLES
  now,            \* Date.now()
  rate,           \* ipRateCounts, senderRateCounts and roomRateCounts
  admitted,       \* publishes past the rate limits, waiting for body and signature
  messages,       \* messages, each with the number of its acceptance
  accepted,       \* how many messages were accepted so far
  lifeStart,      \* accepted when the relay started last
  acked,          \* acksByConsumer
  taken,          \* taken[c]: the inbox page consumer c is working on
  cursor,         \* cursor[p]: next_cursor of p's last poll
  stale,          \* stale[p]: cursor[p] when the relay started last
  seen            \* seen[p]: acceptance numbers of the messages p received

rateVars  == <<now, rate, admitted>>
roomVars  == <<messages, accepted, lifeStart>>
inboxVars == <<acked, taken>>
pollVars  == <<cursor, stale, seen>>
vars == <<rateVars, roomVars, inboxVars, pollVars>>

NoCounter == [count |-> 0, start |-> -Window]
Counters == [count : Nat, start : {-Window} \cup 0..MaxTime]

IdsOf(list) == {list[i].id : i \in DOMAIN list}

\* Messages the room dropped since it started.
Evicted == accepted - lifeStart - Len(messages)

TypeOK ==
  /\ now \in 0..MaxTime
  /\ rate \in [Keys -> Counters]
  /\ admitted \subseteq Publishes
  /\ accepted \in 0..MaxAccepted /\ lifeStart \in 0..accepted
  /\ messages \in Seq([id : Ids, number : 1..MaxAccepted])
  /\ Len(messages) <= MaxMessages
  /\ acked \in [Consumers -> SUBSET Ids] /\ taken \in [Consumers -> SUBSET Ids]
  /\ cursor \in [Pollers -> Nat] /\ stale \in [Pollers -> Nat]
  /\ seen \in [Pollers -> SUBSET (1..MaxAccepted)]

Init ==
  /\ now = 0 /\ rate = [k \in Keys |-> NoCounter] /\ admitted = {}
  /\ messages = << >> /\ accepted = 0 /\ lifeStart = 0
  /\ acked = [c \in Consumers |-> {}] /\ taken = [c \in Consumers |-> {}]
  /\ cursor = [p \in Pollers |-> 0] /\ stale = [p \in Pollers |-> 0]
  /\ seen = [p \in Pollers |-> {}]

-----------------------------------------------------------------------------
(* Rate limits *)

\* fallbackRateLimit: the counter after one more publish.
Counted(c) ==
  IF now - c.start >= Window THEN [count |-> 1, start |-> now]
  ELSE [c EXCEPT !.count = @ + 1]

Allowed(k) == Counted(rate[k]).count <= Limit[k]

\* The counters are asked in this order, and the first that refuses ends the
\* request: later ones are not charged for it.
Chain(q) ==
  IF q.ip = NoIp THEN <<q.sender, Room>> ELSE <<q.ip, q.sender, Room>>
ChargedAll(q) == ToSet(Chain(q))   \* mutant: all are charged, then looked at
Charged(q) ==
  {Chain(q)[i] : i \in {j \in DOMAIN Chain(q) : \A h \in 1..(j - 1) : Allowed(Chain(q)[h])}}

\* The publish handler up to its first await.
Admit(q) ==
  /\ q \notin admitted
  /\ accepted < MaxAccepted
  /\ \A k \in Charged(q) : Counted(rate[k]).count <= MaxCount[k]
  /\ rate' = [k \in Keys |-> IF k \in Charged(q) THEN Counted(rate[k]) ELSE rate[k]]
  /\ admitted' = IF \A k \in ToSet(Chain(q)) : Allowed(k) THEN admitted \cup {q} ELSE admitted
  /\ UNCHANGED <<now, roomVars, inboxVars, pollVars>>

\* The body is too large or no JSON, the signature check fails, or the topic
\* is not valid: the room does not change, the counters stay charged.
PublishFails(q) ==
  /\ q \in admitted
  /\ admitted' = admitted \ {q}
  /\ UNCHANGED <<now, rate, roomVars, inboxVars, pollVars>>

-----------------------------------------------------------------------------
(* Messages *)

\* The list cut down to the limit.
Untrimmed(list) == list             \* mutant: nothing is cut off
Trim(list) ==
  IF Len(list) > MaxMessages THEN SubSeq(list, Len(list) - MaxMessages + 1, Len(list))
  ELSE list

PublishUnchecked(q) ==              \* mutant: ids are not compared after the awaits
  /\ q \in admitted
  /\ admitted' = admitted \ {q}
  /\ accepted < MaxAccepted
  /\ accepted' = accepted + 1
  /\ messages' = Trim(Append(messages, [id |-> q.id, number |-> accepted + 1]))
  /\ UNCHANGED <<now, rate, lifeStart, inboxVars, pollVars>>
\* publishIntoRoom; an id the room holds is answered accepted = false.
Publish(q) ==
  /\ q \in admitted
  /\ admitted' = admitted \ {q}
  /\ \/ q.id \in IdsOf(messages) /\ UNCHANGED roomVars
     \/ /\ q.id \notin IdsOf(messages)
        /\ accepted < MaxAccepted
        /\ accepted' = accepted + 1
        /\ messages' = Trim(Append(messages, [id |-> q.id, number |-> accepted + 1]))
        /\ UNCHANGED lifeStart
  /\ UNCHANGED <<now, rate, inboxVars, pollVars>>

\* The page a poll after a cursor gets.
PageEnd(after) == Min({after + PageLimit, Len(messages)})
PageOffByOne(after) ==              \* mutant: cursors count from 1
  SubSeq(messages, after + 2, PageEnd(after + 1))
Page(after) == SubSeq(messages, after + 1, PageEnd(after))

NextCursor(after) == after + Len(Page(after))

\* pollFromRoom, for a client that passes next_cursor of its last poll.
Poll(p) ==
  /\ cursor' = [cursor EXCEPT ![p] = NextCursor(@)]
  /\ seen' = [seen EXCEPT ![p] = @ \cup {m.number : m \in ToSet(Page(cursor[p]))}]
  /\ UNCHANGED <<rateVars, roomVars, inboxVars, stale>>

-----------------------------------------------------------------------------
(* Inbox *)

\* The places of the messages the consumer has not acked.
Pending(c) == {i \in DOMAIN messages : messages[i].id \notin acked[c]}

\* The page of an inbox: the first InboxLimit of them.
InboxPageOfAll(c) ==                \* mutant: the page is cut before it is filtered
  {messages[i].id : i \in {j \in Pending(c) : j <= InboxLimit}}
InboxPage(c) ==
  {messages[i].id : i \in
     {j \in Pending(c) : Cardinality({h \in Pending(c) : h < j}) < InboxLimit}}

\* inboxPendingFromRoom
FetchInbox(c) ==
  /\ taken[c] = {}
  /\ InboxPage(c) # {}
  /\ taken' = [taken EXCEPT ![c] = InboxPage(c)]
  /\ UNCHANGED <<rateVars, roomVars, acked, pollVars>>

\* ackIntoRoom for the page the consumer took, which the room may have lost
\* by now; the response may get lost, and then the consumer repeats the call.
Ack(c) ==
  /\ taken[c] # {}
  /\ acked' = [acked EXCEPT ![c] = @ \cup taken[c]]
  /\ taken' \in {taken, [taken EXCEPT ![c] = {}]}
  /\ UNCHANGED <<rateVars, roomVars, pollVars>>

-----------------------------------------------------------------------------
\* Messages, acks and counters are gone; calls under way break off.
Restart ==
  /\ rate' = [k \in Keys |-> NoCounter] /\ admitted' = {}
  /\ messages' = << >> /\ lifeStart' = accepted
  /\ acked' = [c \in Consumers |-> {}]
  /\ stale' = cursor
  /\ UNCHANGED <<now, accepted, taken, cursor, seen>>

Tick ==
  /\ now < MaxTime
  /\ now' = now + 1
  /\ UNCHANGED <<rate, admitted, roomVars, inboxVars, pollVars>>

Next ==
  \/ Tick \/ Restart
  \/ \E q \in Publishes : Admit(q) \/ PublishFails(q) \/ Publish(q)
  \/ \E p \in Pollers : Poll(p)
  \/ \E c \in Consumers : FetchInbox(c) \/ Ack(c)

Spec == Init /\ [][Next]_vars

\* A consumer that goes on fetching its inbox and acknowledging it; some
\* response reaches it sooner or later.
AckAnswered(c) == Ack(c) /\ taken'[c] = {}
Consuming ==
  \A c \in Consumers : WF_vars(FetchInbox(c)) /\ WF_vars(AckAnswered(c))

-----------------------------------------------------------------------------
(* Safety *)

\* The room holds the newest messages that were accepted since it started, in
\* the order of acceptance and each id once, however many publishes of one id
\* were waiting for their signature check at the same time (lines 815-837).
RoomHoldsNewest ==
  /\ \A i \in DOMAIN messages : messages[i].number = lifeStart + Evicted + i
  /\ \A i, j \in DOMAIN messages : messages[i].id = messages[j].id => i = j
  /\ Evicted > 0 => Len(messages) = MaxMessages

\* Positions shift when the room drops messages, and a restart leaves cursors
\* beyond the end (lines 834-837, 853): yet a poller skips at most as many
\* messages as were dropped, plus those its old cursor passes over.
SkippedAtMostDropped ==
  \A p \in Pollers :
    LET got == {n \in seen[p] : n > lifeStart}
        skipped == {n \in (lifeStart + 1)..Max(got) : n \notin got}
    IN got # {} => Cardinality(skipped) <= Evicted + stale[p]

\* Evictions and restarts never make a poller receive a message again or out
\* of order.
PollsMoveForward ==
  \A p \in Pollers : \A n \in seen[p], m \in ToSet(Page(cursor[p])) : n < m.number

\* A poller that follows its cursor gets the room in order, once, and with no
\* more gaps than evictions and restarts made.
PollersFollow == SkippedAtMostDropped /\ PollsMoveForward

\* What the senders may take of one window of the room: each what is left of
\* its own window, which it had opened before, and one full limit of its next.
Shares == UNION {{s} \X (1..(2 * Limit[s] - 1)) : s \in Senders}

\* A sender that exceeds its limit does not eat up the room's (lines
\* 2408-2428): the room's counter stays within what the senders may take.
SendersShareTheRoom == rate[Room].count <= Cardinality(Shares)

(* Liveness *)

\* However small its pages and however many messages it acked already, a
\* consumer gets to a message i that stays in the room (lines 893-903).
InboxReaches(i) ==
  \A c \in Consumers :
    i \in IdsOf(messages) ~> i \notin IdsOf(messages) \/ i \in acked[c]
=============================================================================
