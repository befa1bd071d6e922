----------------------------- MODULE Rooms_proofs -----------------------------
(***************************************************************************)
(* Proofs about RelayRoom, for any clients, limits and page sizes: the     *)
(* types, that the room holds the newest messages, that a poller which     *)
(* follows its cursor moves forward and skips no more than was dropped,    *)
(* and that one sender cannot use up the room's publishes.                 *)
(* Proofs about WorkerRooms, which spreads rooms over objects, for any     *)
(* rooms, messages, peers and number of faults: the types, and that what   *)
(* is acknowledged for a room is in the object that is polled for it.      *)
(***************************************************************************)
EXTENDS RelayRoom, WorkerRooms, FiniteSetTheorems, FunctionTheorems, SequenceTheorems,
        WellFoundedInduction, TLAPS

-----------------------------------------------------------------------------
(* RelayRoom: the invariant *)

\* The messages p received since the relay started.
Got(p) == {n \in seen[p] : n > lifeStart}

\* What the room dropped is counted by the numbers of what it holds.
ListInv == Evicted \in Nat /\ RoomHoldsNewest

\* p's cursor counts what p received since the start, beyond the value it had
\* then; and p received nothing behind its cursor's place in the list.
CursorInv ==
  \A p \in Pollers :
    /\ cursor[p] = stale[p] + Cardinality(Got(p))
    /\ \A n \in seen[p] : n <= accepted /\ n <= lifeStart + Evicted + cursor[p]

\* A counter counts from a publish, which opened its window.
CountersInv ==
  \A k \in Keys :
    /\ rate[k].start <= now
    /\ \/ rate[k].start = -Window /\ rate[k].count = 0
       \/ rate[k].start \in Nat /\ rate[k].count > 0

\* At most what a sender has of a window of the room that opened at a time,
\* by its own counter: nothing when its own window had ended before, all but
\* the publish that opened it when it was open before, and what it may have
\* had of its previous window when it opened later.
ShareOf(count, start, opened, limit) ==
  LET granted == IF count > limit THEN limit ELSE count IN
  IF start + Window <= opened THEN 0
  ELSE IF start < opened THEN granted - 1
  ELSE IF start = opened THEN granted
  ELSE limit - 1 + granted

InWindow(s) == ShareOf(rate[s].count, rate[s].start, rate[Room].start, Limit[s])

\* The shares the senders have taken of the room's window.
TakenShares == {x \in Shares : x[2] <= InWindow(x[1])}

SharesInv == rate[Room].count <= Cardinality(TakenShares)

RoomInv == TypeOK /\ ListInv /\ CursorInv /\ CountersInv /\ SharesInv

Messages == [id : Ids, number : 1..MaxAccepted]

-----------------------------------------------------------------------------
(* The list and its pages *)

LEMMA MinOfTwo ==
  ASSUME NEW m \in Int, NEW n \in Int
  PROVE  Min({m, n}) = IF m <= n THEN m ELSE n
<1> DEFINE least == IF m <= n THEN m ELSE n
<1>1. least \in {m, n} /\ \A y \in {m, n} : least <= y
  OBVIOUS
<1>2. \A x \in {m, n} : (\A y \in {m, n} : x <= y) => x = least
  OBVIOUS
<1> QED
  BY <1>1, <1>2 DEF Min

\* A non-empty set of numbers with a bound has its maximum.
LEMMA MaxOfBounded ==
  ASSUME NEW N \in Nat, NEW S \in SUBSET (1..N), S # {}
  PROVE  Max(S) \in S /\ \A n \in S : n <= Max(S)
<1> DEFINE below == {N - n : n \in S}
<1>1. below \in SUBSET Nat /\ below # {}
  <2>1. \A n \in S : n \in 1..N /\ N - n \in Nat
    OBVIOUS
  <2>2. \A b \in below : b \in Nat
    BY <2>1
  <2>3. PICK n \in S : TRUE
    OBVIOUS
  <2>4. N - n \in below
    OBVIOUS
  <2> QED
    BY <2>2, <2>4
<1>2. \E b \in below : \A d \in below : ~(d < b)
  <2>1. \E b \in below : \A d \in below : ~(<<d, b>> \in OpToRel(<, Nat))
    <3> HIDE DEF below
    <3> QED
      BY <1>1, WFMin, NatLessThanWellFounded
  <2> QED
    BY <1>1, <2>1 DEF OpToRel
<1>3. \E m \in S : \A n \in S : m >= n
  BY <1>2
<1>4. Max(S) \in S /\ \A n \in S : Max(S) >= n
  BY <1>3 DEF Max
<1> QED
  BY <1>4

LEMMA ListFacts ==
  ASSUME TypeOK
  PROVE  /\ Len(messages) \in Nat /\ DOMAIN messages = 1..Len(messages)
         /\ \A i \in 1..Len(messages) : messages[i] \in Messages
         /\ accepted \in Nat /\ lifeStart \in Nat /\ lifeStart <= accepted
         /\ Evicted \in Int /\ lifeStart + Evicted + Len(messages) = accepted
<1>1. messages \in Seq(Messages) /\ accepted \in 0..MaxAccepted /\ lifeStart \in 0..accepted
      /\ MaxAccepted \in Nat
  BY RoomAssumption DEF TypeOK, Messages, RoomAssumption
<1>2. Len(messages) \in Nat /\ DOMAIN messages = 1..Len(messages)
  BY <1>1, LenProperties
<1>3. \A i \in 1..Len(messages) : messages[i] \in Messages
  BY <1>1, ElementOfSeq
<1> QED
  BY <1>1, <1>2, <1>3 DEF Evicted

LEMMA NumbersAreAccepted ==
  ASSUME TypeOK, ListInv, NEW i \in DOMAIN messages
  PROVE  /\ messages[i].number = lifeStart + Evicted + i
         /\ messages[i].number > lifeStart /\ messages[i].number <= accepted
<1>1. /\ messages[i].number = lifeStart + Evicted + i /\ Evicted \in Nat
  BY DEF ListInv, RoomHoldsNewest
<1> QED
  BY <1>1, ListFacts

\* The page after a cursor holds the messages that follow it in the list.
LEMMA PageFollows ==
  ASSUME TypeOK, ListInv, NEW after \in Nat
  PROVE  /\ Len(Page(after)) \in Nat
         /\ Len(Page(after)) > 0 => after + Len(Page(after)) <= Len(messages)
         /\ DOMAIN Page(after) = 1..Len(Page(after))
         /\ \A i \in 1..Len(Page(after)) :
              /\ Page(after)[i] = messages[after + i]
              /\ Page(after)[i].number = lifeStart + Evicted + after + i
              /\ Page(after)[i].number \in (lifeStart + 1)..accepted
<1> DEFINE last == PageEnd(after)
           page == Page(after)
<1>1. Len(messages) \in Nat /\ DOMAIN messages = 1..Len(messages)
      /\ (\A i \in 1..Len(messages) : messages[i] \in Messages)
      /\ PageLimit \in Nat /\ Evicted \in Int /\ lifeStart \in Nat /\ accepted \in Nat
  BY ListFacts, RoomAssumption DEF RoomAssumption
<1>2. last \in Nat /\ last <= Len(messages)
  <2> DEFINE m == after + PageLimit
             n == Len(messages)
  <2>1. m \in Int /\ n \in Int /\ m >= 0 /\ n >= 0
    BY <1>1
  <2>2. last = Min({m, n})
    BY DEF PageEnd
  <2> HIDE DEF m, last
  <2>3. last = IF m <= n THEN m ELSE n
    <3> HIDE DEF n
    <3> QED
      BY <2>1, <2>2, MinOfTwo
  <2>4. n \in Nat
    BY <1>1
  <2> HIDE DEF n
  <2>5. last \in Nat /\ last <= n
    BY ONLY <2>1, <2>3, <2>4
  <2> QED
    BY <2>5 DEF n
<1>3. page = SubSeq(messages, after + 1, last)
  BY DEF Page
<1> HIDE DEF page, last
<1>4. /\ page \in Seq(Messages)
      /\ Len(page) = IF after + 1 <= last THEN last - after ELSE 0
      /\ \A i \in 1..(last - after) : page[i] = messages[after + i]
  <2>1. \A i \in (after + 1)..last : messages[i] \in Messages
    BY <1>1, <1>2
  <2> DEFINE first == after + 1
  <2>2. first \in Int /\ last \in Int
    BY <1>2
  <2>3. /\ SubSeq(messages, first, last) \in Seq(Messages)
        /\ Len(SubSeq(messages, first, last)) = IF first <= last THEN last - first + 1 ELSE 0
        /\ \A i \in 1..(last - first + 1) :
             SubSeq(messages, first, last)[i] = messages[first + i - 1]
    <3> HIDE DEF first
    <3>1. \A i \in first..last : messages[i] \in Messages
      BY <2>1 DEF first
    <3> QED
      BY ONLY <2>2, <3>1, SubSeqProperties
  <2> QED
    BY <1>2, <1>3, <2>3
<1>5. Len(page) \in Nat /\ (Len(page) > 0 => after + Len(page) <= Len(messages))
  BY <1>1, <1>2, <1>4
<1>6. DOMAIN page = 1..Len(page)
  BY <1>4, LenProperties
<1>7. ASSUME NEW i \in 1..Len(page)
      PROVE  /\ page[i] = messages[after + i]
             /\ page[i].number = lifeStart + Evicted + after + i
             /\ page[i].number \in (lifeStart + 1)..accepted
  <2>1. after + i \in DOMAIN messages /\ page[i] = messages[after + i]
    BY <1>1, <1>2, <1>4
  <2>2. messages[after + i].number = lifeStart + Evicted + (after + i)
        /\ messages[after + i].number > lifeStart /\ messages[after + i].number <= accepted
    BY <2>1, NumbersAreAccepted
  <2> QED
    BY <1>1, <2>1, <2>2
<1> QED
  BY <1>5, <1>6, <1>7 DEF page

\* What a poll adds to the numbers its client saw.
LEMMA PageNumbers ==
  ASSUME TypeOK, ListInv, NEW after \in Nat
  PROVE  {m.number : m \in ToSet(Page(after))} =
           (lifeStart + Evicted + after + 1)..(lifeStart + Evicted + after + Len(Page(after)))
<1> DEFINE page == Page(after)
           base == lifeStart + Evicted + after
<1>1. Len(page) \in Nat /\ DOMAIN page = 1..Len(page)
      /\ \A i \in 1..Len(page) : page[i].number = base + i
  BY PageFollows
<1>2. base \in Int
  BY ListFacts
<1> HIDE DEF page, base
<1>3. {m.number : m \in ToSet(page)} = {page[i].number : i \in 1..Len(page)}
  BY <1>1 DEF ToSet
<1>4. {page[i].number : i \in 1..Len(page)} = {base + i : i \in 1..Len(page)}
  BY <1>1
<1>5. {base + i : i \in 1..Len(page)} = (base + 1)..(base + Len(page))
  <2>1. ASSUME NEW n \in (base + 1)..(base + Len(page))
        PROVE  n - base \in 1..Len(page) /\ n = base + (n - base)
    BY <1>1, <1>2, <2>1
  <2>2. ASSUME NEW i \in 1..Len(page) PROVE base + i \in (base + 1)..(base + Len(page))
    BY <1>1, <1>2
  <2> QED
    BY <2>1, <2>2
<1> QED
  BY <1>3, <1>4, <1>5 DEF page, base

-----------------------------------------------------------------------------
(* Counters and the chain of limits *)

LEMMA CountedFacts ==
  ASSUME TypeOK, NEW k \in Keys
  PROVE  /\ Counted(rate[k]) \in Counters
         /\ Counted(rate[k]).count \in Nat \ {0}
         /\ now - rate[k].start >= Window =>
              Counted(rate[k]).count = 1 /\ Counted(rate[k]).start = now
         /\ ~(now - rate[k].start >= Window) =>
              /\ Counted(rate[k]).count = rate[k].count + 1
              /\ Counted(rate[k]).start = rate[k].start
<1>1. now \in 0..MaxTime /\ MaxTime \in Nat /\ Window \in Nat /\ rate[k] \in Counters
  BY RoomAssumption DEF TypeOK, RoomAssumption
<1>2. rate[k].count \in Nat /\ rate[k].start \in {-Window} \cup 0..MaxTime
  BY <1>1 DEF Counters
<1>3. CASE now - rate[k].start >= Window
  <2>1. Counted(rate[k]) = [count |-> 1, start |-> now]
    BY <1>3 DEF Counted
  <2> QED
    BY <1>1, <1>3, <2>1 DEF Counters
<1>4. CASE ~(now - rate[k].start >= Window)
  <2>1. Counted(rate[k]) = [rate[k] EXCEPT !.count = @ + 1]
    BY <1>4 DEF Counted
  <2>2. Counted(rate[k]) = [count |-> rate[k].count + 1, start |-> rate[k].start]
    BY <1>1, <2>1 DEF Counters
  <2> QED
    BY <1>2, <1>4, <2>2 DEF Counters
<1> QED
  BY <1>3, <1>4

\* The sender's counter and the room's are charged in this order: the room's
\* only if the sender's allowed the publish, and no other sender's at all.
LEMMA ChargedFacts ==
  ASSUME NEW q \in Publishes
  PROVE  /\ q.sender \in Senders /\ q.id \in Ids
         /\ Room \in Charged(q) => q.sender \in Charged(q) /\ Allowed(q.sender)
         /\ q.sender \in Charged(q) /\ Room \notin Charged(q) => ~Allowed(q.sender)
         /\ \A s \in Senders \ {q.sender} : s \notin Charged(q)
<1>1. q \in PublishRequests /\ Ips \cap Senders = {} /\ Room \notin Ips \cup Senders
      /\ NoIp \notin Keys
  BY RoomAssumption DEF RoomAssumption
<1>2. q.ip \in Ips \cup {NoIp} /\ q.sender \in Senders /\ q.id \in Ids
  BY <1>1 DEF PublishRequests
<1>3. Room # q.sender /\ Room # q.ip /\ q.ip # q.sender /\ q.ip \notin Senders
  BY <1>1, <1>2 DEF Keys
<1>4. CASE q.ip = NoIp
  <2>1. Chain(q) = <<q.sender, Room>>
    BY <1>4 DEF Chain
  <2>2. Charged(q) = {q.sender} \cup (IF Allowed(q.sender) THEN {Room} ELSE {})
    <3> DEFINE chain == <<q.sender, Room>>
               reached == {j \in DOMAIN chain : \A h \in 1..(j - 1) : Allowed(chain[h])}
    <3>1. DOMAIN chain = {1, 2} /\ chain[1] = q.sender /\ chain[2] = Room
      OBVIOUS
    <3>2. reached = {1} \cup (IF Allowed(q.sender) THEN {2} ELSE {})
      <4> HIDE DEF chain
      <4>1. 1 \in reached
        BY <3>1
      <4>2. 2 \in reached <=> Allowed(chain[1])
        BY <3>1
      <4>3. reached \subseteq {1, 2}
        BY <3>1
      <4> HIDE DEF reached
      <4>4. Allowed(chain[1]) <=> Allowed(q.sender)
        BY <3>1
      <4> QED
        BY <4>1, <4>2, <4>3, <4>4
    <3>3. Charged(q) = {chain[i] : i \in reached}
      BY <2>1 DEF Charged
    <3> HIDE DEF chain, reached
    <3> QED
      BY <3>1, <3>2, <3>3
  <2> QED
    BY <1>2, <1>3, <1>1, <2>2
<1>5. CASE q.ip # NoIp
  <2>1. Chain(q) = <<q.ip, q.sender, Room>>
    BY <1>5 DEF Chain
  <2>2. Charged(q) = {q.ip} \cup (IF Allowed(q.ip) THEN {q.sender} ELSE {})
                       \cup (IF Allowed(q.ip) /\ Allowed(q.sender) THEN {Room} ELSE {})
    <3> DEFINE chain == <<q.ip, q.sender, Room>>
               reached == {j \in DOMAIN chain : \A h \in 1..(j - 1) : Allowed(chain[h])}
    <3>1. /\ DOMAIN chain = {1, 2, 3}
          /\ chain[1] = q.ip /\ chain[2] = q.sender /\ chain[3] = Room
      OBVIOUS
    <3>2. /\ 1 \in reached /\ reached \subseteq {1, 2, 3}
          /\ 2 \in reached <=> Allowed(q.ip)
          /\ 3 \in reached <=> Allowed(q.ip) /\ Allowed(q.sender)
      <4> HIDE DEF chain
      <4>1. 1 \in reached
        BY <3>1
      <4>2. 2 \in reached <=> Allowed(chain[1])
        BY <3>1
      <4>3. 3 \in reached <=> Allowed(chain[1]) /\ Allowed(chain[2])
        <5>1. \A h \in 1..(3 - 1) : h = 1 \/ h = 2
          OBVIOUS
        <5> QED
          BY <3>1, <5>1
      <4>4. reached \subseteq {1, 2, 3}
        BY <3>1
      <4> HIDE DEF reached
      <4>5. (Allowed(chain[1]) <=> Allowed(q.ip)) /\ (Allowed(chain[2]) <=> Allowed(q.sender))
        BY <3>1
      <4> QED
        BY <4>1, <4>2, <4>3, <4>4, <4>5
    <3>3. Charged(q) = {chain[i] : i \in reached}
      BY <2>1 DEF Charged
    <3> HIDE DEF chain, reached
    <3> QED
      BY <3>1, <3>2, <3>3
  <2> QED
    BY <1>1, <1>2, <1>3, <2>2
<1> QED
  BY <1>4, <1>5

-----------------------------------------------------------------------------
(* Types *)

LEMMA TypeInitially == Init => TypeOK
<1> SUFFICES ASSUME Init PROVE TypeOK
  OBVIOUS
<1>1. MaxTime \in Nat /\ MaxAccepted \in Nat /\ MaxMessages \in Nat
  BY RoomAssumption DEF RoomAssumption
<1>2. NoCounter \in Counters
  BY DEF NoCounter, Counters
<1>3. messages \in Seq(Messages) /\ Len(messages) = 0
  BY EmptySeq DEF Init
<1> QED
  BY <1>1, <1>2, <1>3 DEF Init, TypeOK, Messages

\* What a publish makes of the list.
LEMMA PublishedList ==
  ASSUME TypeOK, ListInv, accepted < MaxAccepted, NEW id \in Ids
  PROVE  LET new == [id |-> id, number |-> accepted + 1]
             list == Trim(Append(messages, new))
             dropped == Len(messages) + 1 - Len(list) IN
         /\ list \in Seq(Messages) /\ Len(list) \in Nat /\ DOMAIN list = 1..Len(list)
         /\ dropped = IF Len(messages) + 1 > MaxMessages THEN 1 ELSE 0
         /\ Len(list) = IF Len(messages) + 1 > MaxMessages THEN MaxMessages
                        ELSE Len(messages) + 1
         /\ \A i \in 1..(Len(list) - 1) : i + dropped \in DOMAIN messages
                                         /\ list[i] = messages[i + dropped]
         /\ list[Len(list)] = new
<1> DEFINE new == [id |-> id, number |-> accepted + 1]
           longer == Append(messages, new)
           list == Trim(longer)
           n == Len(messages)
<1>1. /\ n \in Nat /\ n <= MaxMessages /\ MaxMessages \in Nat \ {0}
      /\ messages \in Seq(Messages) /\ DOMAIN messages = 1..n /\ new \in Messages
  BY ListFacts, RoomAssumption DEF RoomAssumption, TypeOK, Messages
<1> HIDE DEF new, n
<1>2. /\ longer \in Seq(Messages) /\ Len(longer) = n + 1 /\ longer[n + 1] = new
      /\ \A i \in 1..n : longer[i] = messages[i]
  BY <1>1, AppendProperties DEF n
<1>3. \A i \in 1..(n + 1) : longer[i] \in Messages
  BY <1>2, ElementOfSeq
<1> HIDE DEF longer
<1>4. CASE n + 1 > MaxMessages
  <2>1. n = MaxMessages
    BY <1>1, <1>4
  <2> DEFINE tail == SubSeq(longer, 2, n + 1)
  <2>2. list = tail
    BY <1>1, <1>2, <1>4, <2>1 DEF Trim
  <2>3. /\ tail \in Seq(Messages) /\ Len(tail) = n
        /\ \A i \in 1..n : tail[i] = longer[i + 1]
    <3> DEFINE last == n + 1
    <3>1. 2 \in Int /\ last \in Int /\ \A i \in 2..last : longer[i] \in Messages
      BY <1>1, <1>3
    <3>2. /\ SubSeq(longer, 2, last) \in Seq(Messages)
          /\ Len(SubSeq(longer, 2, last)) = IF 2 <= last THEN last - 2 + 1 ELSE 0
          /\ \A i \in 1..(last - 2 + 1) : SubSeq(longer, 2, last)[i] = longer[2 + i - 1]
      <4> HIDE DEF last
      <4> QED
        BY ONLY <3>1, SubSeqProperties
    <3> QED
      BY <1>1, <2>1, <3>2
  <2> HIDE DEF tail, list
  <2>4. DOMAIN list = 1..n /\ Len(list) = n
    BY <2>2, <2>3, LenProperties
  <2>5. \A i \in 1..(n - 1) : i + 1 \in 1..n /\ list[i] = messages[i + 1]
    BY <1>1, <1>2, <2>2, <2>3
  <2>6. list[n] = new
    BY <1>1, <1>2, <2>1, <2>2, <2>3
  <2>7. n + 1 - n = 1
    BY <1>1
  <2> QED
    BY <1>1, <1>4, <2>1, <2>2, <2>3, <2>4, <2>5, <2>6, <2>7 DEF n, new, longer, list
<1>5. CASE ~(n + 1 > MaxMessages)
  <2>1. list = longer
    BY <1>2, <1>5 DEF Trim
  <2> HIDE DEF list
  <2>2. DOMAIN list = 1..(n + 1) /\ Len(list) = n + 1
    BY <1>2, <2>1, LenProperties
  <2>3. \A i \in 1..n : i + 0 \in 1..n /\ list[i] = messages[i + 0]
    BY <1>1, <1>2, <2>1
  <2>4. n + 1 - (n + 1) = 0 /\ n + 1 - 1 = n /\ n + 1 \in Nat
    BY <1>1
  <2> QED
    BY <1>1, <1>2, <1>5, <2>1, <2>2, <2>3, <2>4 DEF n, new, longer, list
<1> QED
  BY <1>4, <1>5

LEMMA TypeKept == TypeOK /\ ListInv /\ [Next]_vars => TypeOK'
<1> SUFFICES ASSUME TypeOK, ListInv, [Next]_vars PROVE TypeOK'
  OBVIOUS
<1>0. /\ MaxTime \in Nat /\ MaxAccepted \in Nat /\ MaxMessages \in Nat \ {0}
      /\ now \in 0..MaxTime /\ accepted \in 0..MaxAccepted /\ lifeStart \in 0..accepted
  BY RoomAssumption DEF RoomAssumption, TypeOK
<1>1. CASE Tick
  BY <1>0, <1>1 DEF Tick, TypeOK, roomVars, inboxVars, pollVars
<1>2. CASE Restart
  <2>1. NoCounter \in Counters
    BY DEF NoCounter, Counters
  <2>2. messages' \in Seq(Messages) /\ Len(messages') = 0
    BY <1>2, EmptySeq DEF Restart
  <2>3. lifeStart' \in 0..accepted' /\ rate' \in [Keys -> Counters]
    BY <1>0, <1>2, <2>1 DEF Restart
  <2> QED
    BY <1>0, <1>2, <2>2, <2>3 DEF Restart, TypeOK, Messages
<1>3. ASSUME NEW q \in Publishes, Admit(q) PROVE TypeOK'
  <2>1. rate' \in [Keys -> Counters]
    <3>1. \A k \in Keys : Counted(rate[k]) \in Counters /\ rate[k] \in Counters
      BY CountedFacts DEF TypeOK
    <3> QED
      BY <1>3, <3>1 DEF Admit
  <2>2. admitted' \subseteq Publishes
    BY <1>3 DEF Admit, TypeOK
  <2> QED
    BY <1>3, <2>1, <2>2 DEF Admit, TypeOK, roomVars, inboxVars, pollVars
<1>4. ASSUME NEW q \in Publishes, PublishFails(q) PROVE TypeOK'
  BY <1>4 DEF PublishFails, TypeOK, roomVars, inboxVars, pollVars
<1>5. ASSUME NEW q \in Publishes, Publish(q) PROVE TypeOK'
  <2>1. UNCHANGED <<now, rate, inboxVars, pollVars>> /\ admitted' \subseteq Publishes
    BY <1>5 DEF Publish, TypeOK
  <2>2. CASE UNCHANGED roomVars
    BY <2>1, <2>2 DEF TypeOK, roomVars, inboxVars, pollVars
  <2>3. CASE ~UNCHANGED roomVars
    <3>1. /\ accepted < MaxAccepted /\ accepted' = accepted + 1 /\ lifeStart' = lifeStart
          /\ messages' = Trim(Append(messages, [id |-> q.id, number |-> accepted + 1]))
      BY <1>5, <2>3 DEF Publish
    <3>2. messages' \in Seq(Messages) /\ Len(messages') <= MaxMessages
      BY <1>0, <3>1, ChargedFacts, PublishedList, ListFacts
    <3>3. accepted' \in 0..MaxAccepted /\ lifeStart' \in 0..accepted'
      BY <1>0, <3>1
    <3> QED
      BY <2>1, <3>2, <3>3 DEF TypeOK, Messages, inboxVars, pollVars
  <2> QED
    BY <2>2, <2>3
<1>6. ASSUME NEW p \in Pollers, Poll(p) PROVE TypeOK'
  <2>1. cursor[p] \in Nat /\ seen[p] \subseteq 1..MaxAccepted
    BY DEF TypeOK
  <2>2. Len(Page(cursor[p])) \in Nat
    BY <2>1, PageFollows
  <2>3. cursor' \in [Pollers -> Nat]
    BY <1>6, <2>1, <2>2 DEF Poll, NextCursor, TypeOK
  <2>4. {m.number : m \in ToSet(Page(cursor[p]))} \subseteq 1..MaxAccepted
    <3> DEFINE page == Page(cursor[p])
    <3>1. DOMAIN page = 1..Len(page)
          /\ \A i \in 1..Len(page) : page[i].number \in (lifeStart + 1)..accepted
      BY <2>1, PageFollows
    <3>2. (lifeStart + 1)..accepted \subseteq 1..MaxAccepted
      BY <1>0
    <3> HIDE DEF page
    <3> QED
      BY <3>1, <3>2 DEF ToSet, page
  <2>5. seen' \in [Pollers -> SUBSET (1..MaxAccepted)]
    BY <1>6, <2>1, <2>4 DEF Poll, TypeOK
  <2> QED
    BY <1>6, <2>3, <2>5 DEF Poll, TypeOK, rateVars, roomVars, inboxVars
<1>7. ASSUME NEW c \in Consumers, FetchInbox(c) PROVE TypeOK'
  <2>1. InboxPage(c) \subseteq Ids
    <3>1. \A i \in DOMAIN messages : messages[i].id \in Ids
      BY ListFacts DEF Messages
    <3> QED
      BY <3>1 DEF InboxPage, Pending
  <2> QED
    BY <1>7, <2>1 DEF FetchInbox, TypeOK, rateVars, roomVars, pollVars
<1>8. ASSUME NEW c \in Consumers, Ack(c) PROVE TypeOK'
  BY <1>8 DEF Ack, TypeOK, rateVars, roomVars, pollVars
<1>9. CASE UNCHANGED vars
  BY <1>9 DEF TypeOK, vars, rateVars, roomVars, inboxVars, pollVars
<1> QED
  BY <1>1, <1>2, <1>3, <1>4, <1>5, <1>6, <1>7, <1>8, <1>9 DEF Next

-----------------------------------------------------------------------------
(* The list *)

LEMMA ListInitially == Init => ListInv
  BY DEF Init, ListInv, Evicted, RoomHoldsNewest

\* Only publishing and a restart touch the list.
LEMMA OthersLeaveTheRoom ==
  ASSUME [Next]_vars, ~Restart, \A q \in Publishes : ~Publish(q)
  PROVE  UNCHANGED roomVars
BY DEF Next, Tick, Admit, PublishFails, Poll, FetchInbox, Ack, vars

\* A publish that is accepted appends its message and drops at most one.
LEMMA PublishAppends ==
  ASSUME TypeOK, ListInv, NEW q \in Publishes, Publish(q), ~UNCHANGED roomVars
  PROVE  /\ lifeStart' = lifeStart /\ accepted' = accepted + 1 /\ Evicted' \in Nat
         /\ Evicted <= Evicted' /\ ListInv'
<1> DEFINE new == [id |-> q.id, number |-> accepted + 1]
           n == Len(messages)
           last == Len(messages')
           dropped == Len(messages) + 1 - Len(messages')
<1>1. /\ accepted < MaxAccepted /\ accepted' = accepted + 1 /\ lifeStart' = lifeStart
      /\ messages' = Trim(Append(messages, new)) /\ q.id \notin IdsOf(messages)
  BY DEF Publish
<1>2. q.id \in Ids
  BY ChargedFacts
<1>3. /\ last \in Nat /\ DOMAIN messages' = 1..last
      /\ dropped = IF n + 1 > MaxMessages THEN 1 ELSE 0
      /\ last = IF n + 1 > MaxMessages THEN MaxMessages ELSE n + 1
      /\ \A i \in 1..(last - 1) : i + dropped \in DOMAIN messages
                                /\ messages'[i] = messages[i + dropped]
      /\ messages'[last] = new
  BY <1>1, <1>2, PublishedList
<1>4. /\ n \in Nat /\ DOMAIN messages = 1..n /\ accepted \in Nat /\ lifeStart \in Nat
      /\ lifeStart + Evicted + n = accepted /\ Evicted \in Nat
      /\ MaxMessages \in Nat \ {0} /\ n <= MaxMessages
  BY ListFacts, RoomAssumption DEF ListInv, RoomAssumption, TypeOK
<1>5. Evicted' = accepted + 1 - lifeStart - last
  <2>1. accepted' = accepted + 1 /\ lifeStart' = lifeStart
    BY <1>1
  <2>2. Evicted' = accepted' - lifeStart' - Len(messages')
    BY DEF Evicted
  <2>3. accepted \in Nat /\ lifeStart \in Nat /\ Len(messages') \in Nat
    BY <1>3, <1>4
  <2> QED
    BY ONLY <2>1, <2>2, <2>3
<1> HIDE DEF n, last, new
<1>a. /\ n \in Nat /\ last \in Nat /\ accepted \in Nat /\ lifeStart \in Nat /\ Evicted \in Nat
      /\ lifeStart + Evicted + n = accepted
  BY <1>3, <1>4
<1>6. Evicted' = Evicted + dropped /\ Evicted' \in Nat /\ Evicted <= Evicted'
  <2>1. dropped = n + 1 - last
    BY DEF n, last
  <2>2. dropped = 0 \/ dropped = 1
    BY <1>3
  <2> HIDE DEF dropped
  <2>3. Evicted + dropped = accepted + 1 - lifeStart - last
    BY ONLY <1>a, <2>1
  <2>4. Evicted + dropped \in Nat /\ Evicted <= Evicted + dropped
    BY ONLY <1>a, <2>2
  <2> QED
    BY <1>5, <2>3, <2>4, Zenon
<1> HIDE DEF dropped
<1>7. ASSUME NEW i \in 1..last PROVE messages'[i].number = lifeStart + Evicted' + i
  <2>1. CASE i = last
    <3>1. messages'[i].number = accepted + 1
      BY <1>3, <2>1 DEF new
    <3>2. accepted + 1 = lifeStart + (accepted + 1 - lifeStart - last) + last
      BY ONLY <1>a
    <3> QED
      BY <1>5, <2>1, <3>1, <3>2, Zenon
  <2>2. CASE i # last
    <3>1. i \in 1..(last - 1)
      BY <1>3, <2>2
    <3>2. messages[i + dropped].number = lifeStart + Evicted + (i + dropped)
      BY <1>3, <3>1, NumbersAreAccepted
    <3>3. dropped \in Int
      BY <1>3
    <3>4. messages'[i].number = messages[i + dropped].number
      BY <1>3, <3>1
    <3>5. lifeStart + Evicted + (i + dropped) = lifeStart + (Evicted + dropped) + i
      BY ONLY <1>a, <3>3, i \in 1..last
    <3> QED
      BY <1>6, <3>2, <3>4, <3>5, Zenon
  <2> QED
    BY <2>1, <2>2
<1>8. ASSUME NEW i \in 1..last, NEW j \in 1..last, messages'[i].id = messages'[j].id
      PROVE  i = j
  <2>1. \A k \in 1..(last - 1) : messages'[k].id = messages[k + dropped].id
                               /\ messages'[k].id \in IdsOf(messages)
    BY <1>3 DEF IdsOf
  <2>2. messages'[last].id = q.id
    BY <1>3 DEF new
  <2>3. CASE i = last \/ j = last
    <3>1. ASSUME NEW k \in 1..last, messages'[k].id = q.id PROVE k = last
      BY <1>1, <1>3, <2>1, <3>1
    <3> QED
      BY <1>8, <2>2, <2>3, <3>1
  <2>4. CASE i # last /\ j # last
    <3>1. i \in 1..(last - 1) /\ j \in 1..(last - 1)
      BY <1>3, <2>4
    <3>2. i + dropped = j + dropped
      <4>1. messages[i + dropped].id = messages[j + dropped].id
        BY <1>8, <2>1, <3>1
      <4> QED
        BY <1>3, <3>1, <4>1 DEF ListInv, RoomHoldsNewest
    <3> QED
      BY <1>3, <3>1, <3>2
  <2> QED
    BY <2>3, <2>4
<1>9. Evicted' > 0 => last = MaxMessages
  <2>1. Evicted > 0 => n = MaxMessages
    BY DEF ListInv, RoomHoldsNewest, n
  <2> QED
    BY <1>3, <1>4, <1>6, <2>1
<1>10. RoomHoldsNewest'
  BY <1>1, <1>3, <1>7, <1>8, <1>9 DEF RoomHoldsNewest, last
<1> QED
  BY <1>1, <1>6, <1>10 DEF ListInv

LEMMA ListKept == TypeOK /\ ListInv /\ [Next]_vars => ListInv'
<1> SUFFICES ASSUME TypeOK, ListInv, [Next]_vars PROVE ListInv'
  OBVIOUS
<1>1. CASE UNCHANGED roomVars
  BY <1>1 DEF ListInv, RoomHoldsNewest, Evicted, roomVars
<1>2. CASE Restart
  <2>1. accepted \in Nat
    BY ListFacts
  <2> QED
    BY <1>2, <2>1 DEF Restart, ListInv, RoomHoldsNewest, Evicted
<1>3. ASSUME NEW q \in Publishes, Publish(q), ~UNCHANGED roomVars PROVE ListInv'
  BY <1>3, PublishAppends
<1> QED
  BY <1>1, <1>2, <1>3, OthersLeaveTheRoom

-----------------------------------------------------------------------------
(* Cursors *)

LEMMA CursorInitially == Init => CursorInv
<1> SUFFICES ASSUME Init, NEW p \in Pollers
             PROVE  cursor[p] = stale[p] + Cardinality(Got(p)) /\ seen[p] = {}
  BY DEF CursorInv
<1>1. cursor[p] = 0 /\ stale[p] = 0 /\ seen[p] = {} /\ Got(p) = {}
  BY DEF Init, Got
<1> QED
  BY <1>1, FS_EmptySet

LEMMA PollerFacts ==
  ASSUME TypeOK, NEW p \in Pollers
  PROVE  /\ cursor[p] \in Nat /\ stale[p] \in Nat /\ seen[p] \subseteq 1..MaxAccepted
         /\ MaxAccepted \in Nat /\ Got(p) \subseteq 1..MaxAccepted
         /\ IsFiniteSet(Got(p)) /\ Cardinality(Got(p)) \in Nat
<1>1. /\ cursor[p] \in Nat /\ stale[p] \in Nat /\ seen[p] \subseteq 1..MaxAccepted
      /\ MaxAccepted \in Nat
  BY RoomAssumption DEF RoomAssumption, TypeOK
<1>2. Got(p) \in SUBSET (1..MaxAccepted)
  BY <1>1 DEF Got
<1>3. IsFiniteSet(Got(p))
  <2>1. IsFiniteSet(1..MaxAccepted)
    BY <1>1, FS_Interval
  <2> QED
    BY <1>2, <2>1, FS_Subset
<1> QED
  BY <1>1, <1>2, <1>3, FS_CardinalityType

\* A poll moves the cursor by as many messages as it brings that are new.
LEMMA PollAdds ==
  ASSUME TypeOK, ListInv, CursorInv, NEW p \in Pollers, Poll(p)
  PROVE  /\ cursor'[p] = stale[p] + Cardinality(Got(p)')
         /\ \A n \in seen'[p] : n <= accepted /\ n <= lifeStart + Evicted + cursor'[p]
<1> DEFINE more == Len(Page(cursor[p]))
           base == lifeStart + Evicted + cursor[p]
           new == (base + 1)..(base + more)
<1>1. /\ cursor[p] \in Nat /\ stale[p] \in Nat /\ more \in Nat
      /\ accepted \in Nat /\ lifeStart \in Nat /\ Evicted \in Nat
      /\ lifeStart + Evicted + Len(messages) = accepted /\ Len(messages) \in Nat
      /\ more > 0 => cursor[p] + more <= Len(messages)
  BY ListFacts, PollerFacts, PageFollows DEF ListInv
<1>2. cursor'[p] = cursor[p] + more /\ seen'[p] = seen[p] \cup new /\ lifeStart' = lifeStart
  <2>1. {m.number : m \in ToSet(Page(cursor[p]))} = new
    BY <1>1, PageNumbers
  <2> HIDE DEF new
  <2> QED
    BY <2>1 DEF Poll, NextCursor, TypeOK, roomVars
<1>3. base \in Nat /\ base >= lifeStart /\ base + more = lifeStart + Evicted + (cursor[p] + more)
      /\ (more > 0 => base + more <= accepted)
  BY <1>1
<1>4. /\ \A n \in seen[p] : n \in Nat /\ n <= base /\ n <= accepted
      /\ cursor[p] = stale[p] + Cardinality(Got(p))
  BY PollerFacts DEF CursorInv
<1> HIDE DEF more, base
<1>5. IsFiniteSet(new) /\ Cardinality(new) = more
  <2> DEFINE first == base + 1
             last == base + more
  <2>0. base \in Nat /\ more \in Nat
    BY <1>1, <1>3
  <2>1. first \in Int /\ last \in Int /\ (IF first > last THEN 0 ELSE last - first + 1) = more
    BY <2>0
  <2>2. IsFiniteSet(first..last)
        /\ Cardinality(first..last) = IF first > last THEN 0 ELSE last - first + 1
    <3> HIDE DEF first, last
    <3> QED
      BY <2>1, FS_Interval
  <2> QED
    BY <2>1, <2>2
<1>6. Got(p)' = Got(p) \cup new
  <2>1. \A n \in new : n > lifeStart
    BY <1>1, <1>3
  <2> HIDE DEF new
  <2> QED
    BY <1>2, <2>1 DEF Got
<1>7. Got(p) \cap new = {}
  <2>1. \A n \in Got(p) : n \in Nat /\ n <= base
    BY <1>4 DEF Got
  <2> QED
    BY <1>3, <2>1
<1>8. \A n \in new : n <= accepted /\ n <= base + more
  BY <1>1, <1>3
<1> HIDE DEF new
<1>9. Cardinality(Got(p)') = Cardinality(Got(p)) + more
  <2> DEFINE got == Got(p)
  <2>1. IsFiniteSet(got) /\ Cardinality(got) \in Nat
    BY PollerFacts
  <2> HIDE DEF got
  <2>2. got \cap new = {} /\ Cardinality({}) = 0
    BY <1>7, FS_EmptySet DEF got
  <2>3. Cardinality(got \cup new) = Cardinality(got) + Cardinality(new) - Cardinality(got \cap new)
    BY <1>5, <2>1, FS_Union
  <2>4. Cardinality(got \cup new) = Cardinality(got) + more - 0
    BY <1>5, <2>2, <2>3
  <2>5. Cardinality(got \cup new) = Cardinality(got) + more
    BY <1>1, <2>1, <2>4
  <2> QED
    BY <1>6, <2>5 DEF got
<1>10. cursor'[p] = stale[p] + Cardinality(Got(p)')
  <2>1. Cardinality(Got(p)) \in Nat
    BY PollerFacts
  <2>2. cursor[p] + more = stale[p] + (Cardinality(Got(p)) + more)
    BY <1>1, <1>4, <2>1
  <2> QED
    BY <1>2, <1>9, <2>2
<1>11. \A n \in seen'[p] : n <= accepted /\ n <= base + more
  BY <1>1, <1>2, <1>3, <1>4, <1>8
<1>12. base + more = lifeStart + Evicted + cursor'[p]
  BY <1>2, <1>3
<1> QED
  BY <1>10, <1>11, <1>12

LEMMA CursorKept == TypeOK /\ ListInv /\ CursorInv /\ [Next]_vars => CursorInv'
<1> SUFFICES ASSUME TypeOK, ListInv, CursorInv, [Next]_vars, NEW p \in Pollers
             PROVE  /\ cursor'[p] = stale'[p] + Cardinality(Got(p)')
                    /\ \A n \in seen'[p] :
                         n <= accepted' /\ n <= lifeStart' + Evicted' + cursor'[p]
  BY DEF CursorInv
<1>1. /\ cursor[p] = stale[p] + Cardinality(Got(p)) /\ cursor[p] \in Nat
      /\ \A n \in seen[p] : n \in Nat /\ n <= accepted /\ n <= lifeStart + Evicted + cursor[p]
      /\ accepted \in Nat /\ lifeStart \in Nat /\ Evicted \in Nat
  BY PollerFacts, ListFacts DEF CursorInv, ListInv
<1>2. CASE Restart
  <2>1. /\ cursor' = cursor /\ stale' = cursor /\ seen' = seen
        /\ accepted' = accepted /\ lifeStart' = accepted
    BY <1>2 DEF Restart
  <2>2. Got(p)' = {}
    <3>1. Got(p)' = {n \in seen[p] : n > accepted}
      BY <2>1 DEF Got
    <3>2. \A n \in seen[p] : ~(n > accepted)
      BY <1>1
    <3> QED
      BY <3>1, <3>2
  <2>3. Evicted' = 0
    <3>1. Evicted' = accepted' - lifeStart' - Len(messages')
      BY DEF Evicted
    <3>2. messages' = << >> /\ Len(<< >>) = 0
      BY <1>2 DEF Restart
    <3>3. accepted - accepted - 0 = 0
      BY <1>1
    <3> QED
      BY <2>1, <3>1, <3>2, <3>3, Zenon
  <2>4. cursor[p] = cursor[p] + 0 /\ \A n \in seen[p] : n <= accepted + 0 + cursor[p]
    BY <1>1
  <2>5. Cardinality(Got(p)') = 0
    BY <2>2, FS_EmptySet
  <2> QED
    BY <1>1, <2>1, <2>3, <2>4, <2>5
<1>3. ASSUME NEW q \in Publishes, Publish(q), ~UNCHANGED roomVars
      PROVE  /\ cursor'[p] = stale'[p] + Cardinality(Got(p)')
             /\ \A n \in seen'[p] :
                  n <= accepted' /\ n <= lifeStart' + Evicted' + cursor'[p]
  <2>1. /\ lifeStart' = lifeStart /\ accepted' = accepted + 1
        /\ Evicted' \in Nat /\ Evicted <= Evicted'
    BY <1>3, PublishAppends
  <2>2. cursor' = cursor /\ stale' = stale /\ seen' = seen
    BY <1>3 DEF Publish, pollVars
  <2>3. Got(p)' = Got(p)
    BY <2>1, <2>2 DEF Got
  <2>4. \A n \in seen[p] : n <= accepted + 1 /\ n <= lifeStart + Evicted' + cursor[p]
    BY <1>1, <2>1
  <2>5. Cardinality(Got(p)') = Cardinality(Got(p))
    BY <2>3
  <2> QED
    BY <1>1, <2>1, <2>2, <2>4, <2>5
<1>4. CASE Poll(p)
  <2>1. UNCHANGED <<roomVars, stale>>
    BY <1>4 DEF Poll
  <2>2. Evicted' = Evicted
    BY <2>1 DEF roomVars, Evicted
  <2> QED
    BY <1>4, <2>1, <2>2, PollAdds DEF roomVars
<1>5. CASE UNCHANGED roomVars /\ ~Poll(p) /\ ~Restart
  <2>1. cursor'[p] = cursor[p] /\ stale'[p] = stale[p] /\ seen'[p] = seen[p]
    <3>1. ASSUME NEW r \in Pollers, Poll(r)
          PROVE  cursor'[p] = cursor[p] /\ stale'[p] = stale[p] /\ seen'[p] = seen[p]
      <4>1. r # p
        BY <1>5, <3>1
      <4> DEFINE new == {m.number : m \in ToSet(Page(cursor[r]))}
                 next == NextCursor(cursor[r])
      <4>2. /\ cursor' = [cursor EXCEPT ![r] = next] /\ stale' = stale
            /\ seen' = [seen EXCEPT ![r] = seen[r] \cup new]
        BY <3>1 DEF Poll
      <4> HIDE DEF new, next
      <4> QED
        BY <4>1, <4>2 DEF TypeOK
    <3>2. CASE UNCHANGED pollVars
      BY <3>2 DEF pollVars
    <3> QED
      BY <1>5, <3>1, <3>2 DEF Next, Tick, Admit, PublishFails, Publish, FetchInbox, Ack, vars
  <2>2. Got(p)' = Got(p) /\ Evicted' = Evicted /\ lifeStart' = lifeStart /\ accepted' = accepted
    BY <1>5, <2>1 DEF Got, Evicted, roomVars
  <2>3. Cardinality(Got(p)') = Cardinality(Got(p))
    BY <2>2
  <2> QED
    BY <1>1, <2>1, <2>2, <2>3
<1> QED
  BY <1>2, <1>3, <1>4, <1>5, OthersLeaveTheRoom

\* What the invariant says of pollers.
LEMMA CursorsFollow == TypeOK /\ ListInv /\ CursorInv => PollersFollow
<1> SUFFICES ASSUME TypeOK, ListInv, CursorInv PROVE PollersFollow
  OBVIOUS
<1>1. ASSUME NEW p \in Pollers, NEW n \in seen[p], NEW m \in ToSet(Page(cursor[p]))
      PROVE  n < m.number
  <2>1. /\ cursor[p] \in Nat /\ n \in Nat /\ n <= lifeStart + Evicted + cursor[p]
        /\ lifeStart \in Nat /\ Evicted \in Int
    BY PollerFacts, ListFacts DEF CursorInv
  <2>2. /\ DOMAIN Page(cursor[p]) = 1..Len(Page(cursor[p])) /\ Len(Page(cursor[p])) \in Nat
        /\ \A i \in 1..Len(Page(cursor[p])) :
             Page(cursor[p])[i].number = lifeStart + Evicted + cursor[p] + i
    BY <2>1, PageFollows
  <2>3. PICK i \in 1..Len(Page(cursor[p])) : m.number = lifeStart + Evicted + cursor[p] + i
    BY <2>2 DEF ToSet
  <2> QED
    BY <2>1, <2>2, <2>3
<1>2. ASSUME NEW p \in Pollers, Got(p) # {}
      PROVE  Cardinality({n \in (lifeStart + 1)..Max(Got(p)) : n \notin Got(p)})
               <= Evicted + stale[p]
  <2> DEFINE got == Got(p)
             top == Max(got)
             all == (lifeStart + 1)..top
             skipped == {n \in all : n \notin got}
  <2>1. /\ cursor[p] \in Nat /\ stale[p] \in Nat /\ lifeStart \in Nat /\ Evicted \in Int
        /\ got \in SUBSET (1..MaxAccepted) /\ MaxAccepted \in Nat /\ IsFiniteSet(got)
        /\ Cardinality(got) \in Nat /\ cursor[p] = stale[p] + Cardinality(got)
        /\ \A n \in got : n > lifeStart /\ n <= lifeStart + Evicted + cursor[p]
    BY PollerFacts, ListFacts DEF CursorInv, Got
  <2>2. got # {}
    BY <1>2
  <2> HIDE DEF got
  <2>3. top \in got /\ \A n \in got : n <= top
    BY <2>1, <2>2, MaxOfBounded
  <2> HIDE DEF top
  <2>4. /\ top \in Nat /\ lifeStart < top /\ top <= lifeStart + Evicted + cursor[p]
    BY <2>1, <2>3
  <2>5. IsFiniteSet(all) /\ Cardinality(all) = top - lifeStart
    <3> DEFINE first == lifeStart + 1
    <3>1. first \in Int /\ top \in Int
      BY <2>1, <2>4
    <3>2. IsFiniteSet(first..top)
          /\ Cardinality(first..top) = IF first > top THEN 0 ELSE top - first + 1
      <4> HIDE DEF first
      <4> QED
        BY <3>1, FS_Interval
    <3>3. ~(first > top) /\ top - first + 1 = top - lifeStart
      BY <2>1, <2>4
    <3> HIDE DEF first
    <3>4. Cardinality(first..top) = top - lifeStart
      BY <3>2, <3>3
    <3> QED
      BY <3>2, <3>4 DEF first
  <2>6. all \cap got = got
    <3>1. \A n \in got : n \in Nat /\ lifeStart < n /\ n <= top
      BY <2>1, <2>3
    <3>2. \A n \in got : n \in all
      <4>1. lifeStart \in Nat /\ top \in Nat
        BY <2>1, <2>4
      <4> QED
        BY <3>1, <4>1
    <3> HIDE DEF all
    <3> QED
      BY <3>2
  <2> HIDE DEF all
  <2>7. Cardinality(skipped) = (top - lifeStart) - Cardinality(got)
    <3>1. skipped = all \ got
      OBVIOUS
    <3>2. Cardinality(all \ got) = Cardinality(all) - Cardinality(all \cap got)
      BY <2>5, FS_Difference
    <3> QED
      BY <2>5, <2>6, <3>1, <3>2
  <2>8. (top - lifeStart) - Cardinality(got) <= Evicted + stale[p]
    BY <2>1, <2>4
  <2> QED
    BY <2>7, <2>8 DEF all, top, got
<1>3. SkippedAtMostDropped
  BY <1>2 DEF SkippedAtMostDropped, Got
<1>4. PollsMoveForward
  BY <1>1 DEF PollsMoveForward
<1> QED
  BY <1>3, <1>4 DEF PollersFollow

-----------------------------------------------------------------------------
(* Shares of the room's window *)

LEMMA KeyFacts ==
  ASSUME TypeOK, CountersInv, NEW k \in Keys
  PROVE  /\ rate[k].count \in Nat /\ rate[k].start \in Int /\ rate[k].start <= now
         /\ \/ rate[k].start = -Window /\ rate[k].count = 0
            \/ rate[k].start \in Nat /\ rate[k].count > 0
         /\ now \in 0..MaxTime /\ now \in Nat /\ Window \in Nat \ {0}
         /\ Limit[k] \in Nat \ {0}
<1>1. rate[k] \in Counters /\ now \in 0..MaxTime /\ Window \in Nat \ {0} /\ MaxTime \in Nat
      /\ Limit[k] \in Nat \ {0}
  BY RoomAssumption DEF TypeOK, RoomAssumption
<1>2. rate[k].count \in Nat /\ rate[k].start \in Int
  BY <1>1 DEF Counters
<1> QED
  BY <1>1, <1>2 DEF CountersInv

LEMMA CountersKept == TypeOK /\ CountersInv /\ [Next]_vars => CountersInv'
<1> SUFFICES ASSUME TypeOK, CountersInv, [Next]_vars, NEW k \in Keys
             PROVE  /\ rate'[k].start <= now'
                    /\ \/ rate'[k].start = -Window /\ rate'[k].count = 0
                       \/ rate'[k].start \in Nat /\ rate'[k].count > 0
  BY DEF CountersInv
<1>1. CASE Tick
  <2>1. rate' = rate /\ now' = now + 1
    BY <1>1 DEF Tick
  <2> QED
    BY <2>1, KeyFacts
<1>2. CASE Restart
  <2>1. rate'[k] = [count |-> 0, start |-> -Window] /\ now' = now
    BY <1>2 DEF Restart, NoCounter
  <2>2. -Window <= now
    BY KeyFacts
  <2> QED
    BY <2>1, <2>2
<1>3. ASSUME NEW q \in Publishes, Admit(q), k \in Charged(q)
      PROVE  rate'[k].start <= now' /\ rate'[k].start \in Nat /\ rate'[k].count > 0
  <2>1. rate'[k] = Counted(rate[k]) /\ now' = now
    BY <1>3 DEF Admit
  <2>2. CASE now - rate[k].start >= Window
    <3>1. Counted(rate[k]).count = 1 /\ Counted(rate[k]).start = now
      BY <2>2, CountedFacts
    <3> QED
      BY <2>1, <3>1, KeyFacts
  <2>3. CASE ~(now - rate[k].start >= Window)
    <3>1. /\ Counted(rate[k]).count = rate[k].count + 1
          /\ Counted(rate[k]).start = rate[k].start
      BY <2>3, CountedFacts
    <3>2. rate[k].start \in Nat
      BY <2>3, KeyFacts
    <3> QED
      BY <2>1, <3>1, <3>2, KeyFacts
  <2> QED
    BY <2>2, <2>3
<1>4. ASSUME rate'[k] = rate[k], now' = now
      PROVE  /\ rate'[k].start <= now'
             /\ \/ rate'[k].start = -Window /\ rate'[k].count = 0
                \/ rate'[k].start \in Nat /\ rate'[k].count > 0
  BY <1>4, KeyFacts
<1>5. ASSUME NEW q \in Publishes, Admit(q), k \notin Charged(q)
      PROVE  rate'[k] = rate[k] /\ now' = now
  BY <1>5 DEF Admit
<1>6. CASE UNCHANGED <<now, rate>>
  BY <1>4, <1>6
<1> QED
  BY <1>1, <1>2, <1>3, <1>4, <1>5, <1>6
  DEF Next, PublishFails, Publish, Poll, FetchInbox, Ack, vars, rateVars

LEMMA SharesFinite == IsFiniteSet(Shares)
<1> DEFINE share(s) == {s} \X (1..(2 * Limit[s] - 1))
           family == {share(s) : s \in Senders}
           of == [s \in Senders |-> share(s)]
<1>1. IsFiniteSet(Senders) /\ \A s \in Senders : Limit[s] \in Nat
  BY RoomAssumption DEF RoomAssumption, Keys
<1>2. IsFiniteSet(family)
  <2>1. of \in [Senders -> family] /\ \A x \in family : \E s \in Senders : of[s] = x
    OBVIOUS
  <2> HIDE DEF of, family
  <2>2. of \in Surjection(Senders, family)
    BY <2>1, Fun_IsSurj
  <2> QED
    BY <1>1, <2>2, FS_Surjection
<1>3. ASSUME NEW s \in Senders PROVE IsFiniteSet(share(s))
  <2> DEFINE last == 2 * Limit[s] - 1
             places == 1..last
             owner == {s}
  <2>1. last \in Int
    BY <1>1
  <2>2. IsFiniteSet(places)
    <3> HIDE DEF last
    <3> QED
      BY <2>1, FS_Interval
  <2>3. IsFiniteSet(owner)
    BY FS_Singleton
  <2>4. IsFiniteSet(owner \X places)
    <3> HIDE DEF owner, places
    <3> QED
      BY <2>2, <2>3, FS_Product
  <2> QED
    BY <2>4
<1>4. \A x \in family : IsFiniteSet(x)
  BY <1>3
<1>5. Shares = UNION family
  BY DEF Shares
<1> HIDE DEF family
<1> QED
  BY <1>2, <1>4, <1>5, FS_UNION

LEMMA TakenFinite ==
  /\ IsFiniteSet(TakenShares) /\ Cardinality(TakenShares) \in Nat
  /\ Cardinality(TakenShares) <= Cardinality(Shares)
<1>1. TakenShares \in SUBSET Shares
  BY DEF TakenShares
<1> QED
  BY <1>1, SharesFinite, FS_Subset, FS_CardinalityType

LEMMA ShareBounds ==
  ASSUME NEW limit \in Nat \ {0}, NEW count \in Nat, NEW start \in Int, NEW opened \in Int
  PROVE  /\ ShareOf(count, start, opened, limit) \in Int
         /\ ShareOf(count, start, opened, limit) <= 2 * limit - 1
         /\ ShareOf(count, start, opened, limit) <= ShareOf(count + 1, start, opened, limit)
<1>1. Window \in Nat \ {0}
  BY RoomAssumption DEF RoomAssumption
<1> QED
  BY <1>1 DEF ShareOf

LEMMA SharesInitially == Init => SharesInv
<1> SUFFICES ASSUME Init PROVE SharesInv
  OBVIOUS
<1>1. rate[Room].count = 0
  BY DEF Init, NoCounter, Keys
<1> QED
  BY <1>1, TakenFinite DEF SharesInv

\* When no sender's part of the window shrinks, what was taken stays taken.
LEMMA TakenGrows ==
  ASSUME TypeOK, TypeOK', CountersInv, CountersInv',
         \A s \in Senders : InWindow(s) <= InWindow(s)'
  PROVE  TakenShares \subseteq TakenShares'
<1>1. ASSUME NEW s \in Senders PROVE InWindow(s) \in Int /\ InWindow(s)' \in Int
  <2>1. s \in Keys /\ Room \in Keys
    BY DEF Keys
  <2>2. /\ Limit[s] \in Nat \ {0} /\ rate[s].count \in Nat /\ rate[s].start \in Int
        /\ rate[Room].start \in Int
    BY <2>1, KeyFacts
  <2>3. rate'[s].count \in Nat /\ rate'[s].start \in Int /\ rate'[Room].start \in Int
    <3>1. \A k \in Keys : rate'[k] \in Counters
      BY DEF TypeOK
    <3> QED
      BY <2>1, <3>1, RoomAssumption DEF Counters, RoomAssumption, TypeOK
  <2> QED
    BY <2>2, <2>3, ShareBounds DEF InWindow
<1>2. ASSUME NEW x \in TakenShares PROVE x \in TakenShares'
  <2>1. x \in Shares /\ x[2] <= InWindow(x[1])
    BY <1>2 DEF TakenShares
  <2>2. x[1] \in Senders /\ x[2] \in Int
    <3>1. PICK s \in Senders : x \in {s} \X (1..(2 * Limit[s] - 1))
      BY <2>1 DEF Shares
    <3> QED
      BY <3>1
  <2>3. x[2] <= InWindow(x[1])'
    <3> DEFINE s == x[1]
    <3>1. InWindow(s) <= InWindow(s)' /\ InWindow(s) \in Int /\ InWindow(s)' \in Int
      BY <1>1, <2>2
    <3> QED
      BY <2>1, <2>2, <3>1
  <2> QED
    BY <2>1, <2>3 DEF TakenShares
<1> QED
  BY <1>2

\* A publish that is charged to the room is charged to its sender first, who
\* has one more of the room's window then, or the window's first.
LEMMA ShareOfPublish ==
  ASSUME TypeOK, CountersInv, NEW q \in Publishes, Admit(q), Room \in Charged(q)
  PROVE  LET s == q.sender IN
         /\ InWindow(s)' \in 1..(2 * Limit[s] - 1)
         /\ now - rate[Room].start >= Window => rate'[Room].count = 1
         /\ ~(now - rate[Room].start >= Window) =>
              /\ rate'[Room].count = rate[Room].count + 1
              /\ rate'[Room].start = rate[Room].start
              /\ InWindow(s) < InWindow(s)'
<1> DEFINE s == q.sender
           c == rate[s].count
           st == rate[s].start
           r == rate[Room].start
           c2 == rate'[s].count
           st2 == rate'[s].start
           r2 == rate'[Room].start
           limit == Limit[s]
<1>1. s \in Senders /\ s \in Charged(q) /\ Allowed(s)
  BY ChargedFacts
<1>2. s \in Keys /\ Room \in Keys
  BY <1>1 DEF Keys
<1>3. rate'[s] = Counted(rate[s]) /\ rate'[Room] = Counted(rate[Room])
  BY <1>1, <1>2 DEF Admit
<1>4. /\ c \in Nat /\ st \in Int /\ r \in Int /\ now \in Nat /\ Window \in Nat \ {0}
      /\ limit \in Nat \ {0} /\ st <= now /\ r <= now
      /\ (st = -Window /\ c = 0) \/ (st \in Nat /\ c > 0)
  BY <1>2, KeyFacts
<1>5. /\ c2 \in Nat /\ c2 <= limit
      /\ now - st >= Window => c2 = 1 /\ st2 = now
      /\ ~(now - st >= Window) => c2 = c + 1 /\ st2 = st
  BY <1>1, <1>2, <1>3, CountedFacts DEF Allowed
<1>6. /\ now - r >= Window => rate'[Room].count = 1 /\ r2 = now
      /\ ~(now - r >= Window) => rate'[Room].count = rate[Room].count + 1 /\ r2 = r
  BY <1>2, <1>3, CountedFacts
<1>7. InWindow(s) = ShareOf(c, st, r, limit) /\ InWindow(s)' = ShareOf(c2, st2, r2, limit)
  <2>1. (q.sender)' = q.sender
    OBVIOUS
  <2> QED
    BY DEF InWindow
<1> HIDE DEF c, st, r, c2, st2, r2, limit
<1>8. ShareOf(c2, st2, r2, limit) \in 1..(2 * limit - 1)
  <2>1. CASE now - st >= Window
    BY <1>4, <1>5, <1>6, <2>1 DEF ShareOf
  <2>2. CASE ~(now - st >= Window)
    BY <1>4, <1>5, <1>6, <2>2 DEF ShareOf
  <2> QED
    BY <2>1, <2>2
<1>9. ~(now - r >= Window) => ShareOf(c, st, r, limit) < ShareOf(c2, st2, r2, limit)
  <2>1. CASE now - st >= Window
    BY <1>4, <1>5, <1>6, <2>1 DEF ShareOf
  <2>2. CASE ~(now - st >= Window)
    BY <1>4, <1>5, <1>6, <2>2 DEF ShareOf
  <2> QED
    BY <2>1, <2>2
<1> QED
  BY <1>6, <1>7, <1>8, <1>9 DEF r, r2, limit

LEMMA SharesKept ==
  TypeOK /\ TypeOK' /\ CountersInv /\ CountersInv' /\ SharesInv /\ [Next]_vars => SharesInv'
<1> SUFFICES ASSUME TypeOK, TypeOK', CountersInv, CountersInv', SharesInv, [Next]_vars
             PROVE  SharesInv'
  OBVIOUS
<1>0. /\ IsFiniteSet(TakenShares) /\ Cardinality(TakenShares) \in Nat
      /\ IsFiniteSet(TakenShares') /\ Cardinality(TakenShares') \in Nat
  <2>1. TakenShares \in SUBSET Shares /\ TakenShares' \in SUBSET Shares
    BY DEF TakenShares
  <2> QED
    BY <2>1, SharesFinite, FS_Subset, FS_CardinalityType
<1>1. ASSUME UNCHANGED rate PROVE SharesInv'
  <2>1. \A s \in Senders : InWindow(s)' = InWindow(s)
    BY <1>1 DEF InWindow
  <2>2. TakenShares' = TakenShares
    <3>1. \A x \in Shares : x[1] \in Senders
      BY DEF Shares
    <3> QED
      BY <2>1, <3>1 DEF TakenShares
  <2>3. Cardinality(TakenShares') = Cardinality(TakenShares)
    BY <2>2
  <2> QED
    BY <1>1, <2>3 DEF SharesInv
<1>2. CASE Restart
  <2>1. rate'[Room].count = 0
    BY <1>2 DEF Restart, NoCounter, Keys
  <2> QED
    BY <1>0, <2>1 DEF SharesInv
<1>3. ASSUME NEW q \in Publishes, Admit(q) PROVE SharesInv'
  <2>1. Room \in Keys /\ rate[Room].count \in Nat /\ rate[Room].start \in Int
    BY KeyFacts DEF Keys
  <2>2. \A t \in Senders \ {q.sender} : t \in Keys /\ rate'[t] = rate[t]
    BY <1>3, ChargedFacts DEF Admit, Keys
  <2>3. \A t \in Senders : /\ t \in Keys /\ Limit[t] \in Nat \ {0} /\ InWindow(t) \in Int
                         /\ rate[t].count \in Nat /\ rate[t].start \in Int
    <3> SUFFICES ASSUME NEW t \in Senders
                 PROVE  /\ t \in Keys /\ Limit[t] \in Nat \ {0} /\ InWindow(t) \in Int
                        /\ rate[t].count \in Nat /\ rate[t].start \in Int
      OBVIOUS
    <3>1. /\ t \in Keys /\ Limit[t] \in Nat \ {0} /\ rate[t].count \in Nat
          /\ rate[t].start \in Int
      BY KeyFacts DEF Keys
    <3> QED
      BY <2>1, <3>1, ShareBounds DEF InWindow
  <2>4. q.sender \in Senders
    BY ChargedFacts
  <2>5. CASE Room \in Charged(q) /\ now - rate[Room].start >= Window
    <3>1. rate'[Room].count = 1 /\ InWindow(q.sender)' \in 1..(2 * Limit[q.sender] - 1)
      BY <1>3, <2>5, ShareOfPublish
    <3>2. <<q.sender, 1>> \in TakenShares'
      <4>1. 1 \in 1..(2 * Limit[q.sender] - 1) /\ 1 <= InWindow(q.sender)'
        BY <2>3, <2>4, <3>1
      <4>2. <<q.sender, 1>> \in Shares
        BY <2>4, <4>1 DEF Shares
      <4> QED
        BY <4>1, <4>2 DEF TakenShares
    <3>3. Cardinality(TakenShares') # 0
      BY <1>0, <3>2, FS_EmptySet
    <3> QED
      BY <1>0, <3>1, <3>3 DEF SharesInv
  <2>6. CASE Room \in Charged(q) /\ ~(now - rate[Room].start >= Window)
    <3> DEFINE mine == InWindow(q.sender)'
               new == <<q.sender, mine>>
    <3>1. /\ rate'[Room].count = rate[Room].count + 1 /\ rate'[Room].start = rate[Room].start
          /\ mine \in 1..(2 * Limit[q.sender] - 1) /\ InWindow(q.sender) < mine
      BY <1>3, <2>6, ShareOfPublish
    <3>2. mine \in Int
      BY <2>3, <2>4, <3>1
    <3>3. \A t \in Senders : InWindow(t) <= InWindow(t)'
      <4>1. \A t \in Senders \ {q.sender} : InWindow(t)' = InWindow(t)
        BY <2>2, <3>1 DEF InWindow
      <4>2. \A t \in Senders \ {q.sender} : InWindow(t) <= InWindow(t)'
        BY <2>3, <4>1
      <4>3. InWindow(q.sender) <= InWindow(q.sender)'
        BY <2>3, <2>4, <3>1, <3>2
      <4> QED
        BY <4>2, <4>3
    <3>4. TakenShares \subseteq TakenShares'
      BY <3>3, TakenGrows
    <3>5. new \in TakenShares'
      <4>1. new \in Shares
        BY <2>4, <3>1 DEF Shares
      <4>2. mine <= InWindow(q.sender)'
        BY <3>2
      <4> QED
        BY <4>1, <4>2 DEF TakenShares
    <3>6. new \notin TakenShares
      <4>1. ~(mine <= InWindow(q.sender))
        BY <2>3, <2>4, <3>1, <3>2
      <4> QED
        BY <4>1 DEF TakenShares
    <3> HIDE DEF new, mine
    <3>7. Cardinality(TakenShares \cup {new}) = Cardinality(TakenShares) + 1
          /\ IsFiniteSet(TakenShares \cup {new})
      BY <1>0, <3>6, FS_AddElement
    <3>8. TakenShares \cup {new} \in SUBSET TakenShares'
      BY <3>4, <3>5
    <3>9. Cardinality(TakenShares) + 1 <= Cardinality(TakenShares')
      BY <1>0, <3>7, <3>8, FS_Subset
    <3> QED
      BY <1>0, <2>1, <3>1, <3>9 DEF SharesInv
  <2>7. CASE Room \notin Charged(q)
    <3>1. rate'[Room] = rate[Room]
      BY <1>3, <2>1, <2>7 DEF Admit
    <3>2. InWindow(q.sender) <= InWindow(q.sender)'
      <4>1. CASE q.sender \notin Charged(q)
        <5>1. rate'[q.sender] = rate[q.sender]
          BY <1>3, <2>3, <2>4, <4>1 DEF Admit
        <5>2. InWindow(q.sender)' = InWindow(q.sender)
          BY <3>1, <5>1 DEF InWindow
        <5> QED
          BY <2>3, <2>4, <5>2
      <4>2. CASE q.sender \in Charged(q)
        <5> DEFINE s == q.sender
        <5>1. ~Allowed(s) /\ rate'[s] = Counted(rate[s]) /\ s \in Senders /\ s \in Keys
          BY <1>3, <2>3, <2>4, <2>7, <4>2, ChargedFacts DEF Admit
        <5>2. rate'[s].count = rate[s].count + 1 /\ rate'[s].start = rate[s].start
          BY <2>3, <5>1, CountedFacts DEF Allowed
        <5>3. InWindow(s)' = ShareOf(rate[s].count + 1, rate[s].start, rate[Room].start, Limit[s])
          BY <3>1, <5>2 DEF InWindow
        <5> QED
          BY <2>1, <2>3, <5>1, <5>3, ShareBounds DEF InWindow
      <4> QED
        BY <4>1, <4>2
    <3>3. \A t \in Senders : InWindow(t) <= InWindow(t)'
      <4>1. \A t \in Senders \ {q.sender} : InWindow(t)' = InWindow(t)
        BY <2>2, <3>1 DEF InWindow
      <4>2. \A t \in Senders \ {q.sender} : InWindow(t) <= InWindow(t)'
        BY <2>3, <4>1
      <4> QED
        BY <3>2, <4>2
    <3>4. TakenShares \in SUBSET TakenShares'
      BY <3>3, TakenGrows
    <3>5. Cardinality(TakenShares) <= Cardinality(TakenShares')
      BY <1>0, <3>4, FS_Subset
    <3> QED
      BY <1>0, <2>1, <3>1, <3>5 DEF SharesInv
  <2> QED
    BY <2>5, <2>6, <2>7
<1> QED
  BY <1>1, <1>2, <1>3
  DEF Next, Tick, PublishFails, Publish, Poll, FetchInbox, Ack, vars, rateVars

LEMMA TakenWithinShares == TypeOK /\ SharesInv => SendersShareTheRoom
<1> SUFFICES ASSUME TypeOK, SharesInv PROVE SendersShareTheRoom
  OBVIOUS
<1>1. rate[Room].count \in Nat
  <2>1. rate[Room] \in Counters
    BY DEF TypeOK, Keys
  <2> QED
    BY <2>1 DEF Counters
<1>2. Cardinality(Shares) \in Nat
  BY SharesFinite, FS_CardinalityType
<1> QED
  BY <1>1, <1>2, TakenFinite DEF SharesInv, SendersShareTheRoom

-----------------------------------------------------------------------------
(* RelayRoom: the theorems *)

LEMMA CountersInitially == Init => CountersInv
<1> SUFFICES ASSUME Init, NEW k \in Keys
             PROVE  /\ rate[k].start <= now
                    /\ \/ rate[k].start = -Window /\ rate[k].count = 0
                       \/ rate[k].start \in Nat /\ rate[k].count > 0
  BY DEF CountersInv
<1>1. rate[k].start = -Window /\ rate[k].count = 0 /\ now = 0
  BY DEF Init, NoCounter
<1>2. -Window <= 0
  BY RoomAssumption DEF RoomAssumption
<1> QED
  BY <1>1, <1>2

LEMMA Inductive == Spec => []RoomInv
<1>1. Init => RoomInv
  BY TypeInitially, ListInitially, CursorInitially, CountersInitially, SharesInitially
  DEF RoomInv
<1>2. RoomInv /\ [Next]_vars => RoomInv'
  <2> SUFFICES ASSUME RoomInv, [Next]_vars PROVE RoomInv'
    OBVIOUS
  <2>1. TypeOK' /\ ListInv' /\ CursorInv' /\ CountersInv'
    BY TypeKept, ListKept, CursorKept, CountersKept DEF RoomInv
  <2> QED
    BY <2>1, SharesKept DEF RoomInv
<1> QED
  BY <1>1, <1>2, PTL DEF Spec

\* The variables have their types: the room never holds more than its limit
\* of messages, whatever publishes wait for their signature checks.
THEOREM RoomTyped == Spec => []TypeOK
<1>1. RoomInv => TypeOK
  BY DEF RoomInv
<1> QED
  BY <1>1, Inductive, PTL

\* The room holds the newest messages since its start, in the order of their
\* acceptance and each id once (publishIntoRoom).
THEOREM NewestHeld == Spec => []RoomHoldsNewest
<1>1. RoomInv => RoomHoldsNewest
  BY DEF RoomInv, ListInv
<1> QED
  BY <1>1, Inductive, PTL

\* A poller that passes on its next_cursor gets the messages forward and once,
\* and skips no more than were dropped and its old cursor passes over
\* (pollFromRoom).
THEOREM PollersKeepUp == Spec => []PollersFollow
<1>1. RoomInv => PollersFollow
  BY CursorsFollow DEF RoomInv
<1> QED
  BY <1>1, Inductive, PTL

\* No sender uses up the room's publishes, whatever it sends: the counters are
\* asked in the order address, sender, room.
THEOREM SharesKeptApart == Spec => []SendersShareTheRoom
<1>1. RoomInv => SendersShareTheRoom
  BY TakenWithinShares DEF RoomInv
<1> QED
  BY <1>1, Inductive, PTL

-----------------------------------------------------------------------------
(* WorkerRooms: the invariant *)

\* What the peer of a push under way may count on is still to be forwarded or
\* is kept by the object of its room.
DueIsKept(p) ==
  push[p].stage = "forwarding" =>
    /\ push[p].due \subseteq Due(push[p].entries, push[p].query)
    /\ \A e \in push[p].due : e \in push[p].left \/ e \in held[RoomOf[e]]

RoomsInv ==
  /\ WorkerTypeOK
  /\ \A e \in acknowledged : RoomOf[e] \in Rooms
  /\ AcknowledgedIsPolled
  /\ \A p \in Pushers : DueIsKept(p)

-----------------------------------------------------------------------------
(* WorkerRooms: its operators *)

\* A service takes no message of an invalid room.
LEMMA TakesValid ==
  ASSUME NEW S \in SUBSET Entries
  PROVE  Takes(S) \subseteq {e \in Entries : RoomOf[e] # NoRoom}
BY DEF Takes

\* A peer counts on messages of its push only, and on none that is rejected.
LEMMA DueIsValid ==
  ASSUME NEW S \in SUBSET Entries, NEW q \in Rooms \cup {NoRoom}
  PROVE  Due(S, q) \subseteq S \ Rejected /\ \A e \in Due(S, q) : RoomOf[e] \in Rooms
BY RoomsAssumption DEF RoomsAssumption, Due, AllValid

\* An object that is sent a group is the one polled for every message of it
\* the peer counts on, and takes it unless the group ends there.
LEMMA GroupsGoHome ==
  ASSUME WorkerTypeOK, NEW p \in Pushers, NEW g \in Groups(p)
  PROVE  /\ g[1] \in Rooms
         /\ g[2] \in SUBSET push[p].left
         /\ \A e \in Due(push[p].entries, push[p].query) \cap g[2] :
              RoomOf[e] = g[1] /\ (e \notin Ending => e \in Takes(g[2]))
<1>1. push[p] \in Pushes /\ push[p].left \subseteq push[p].entries
  BY DEF WorkerTypeOK
<1>2. push[p].entries \in SUBSET Entries /\ push[p].query \in Rooms \cup {NoRoom}
  BY <1>1 DEF Pushes
<1>3. Main \in Rooms /\ NoRoom \notin Rooms /\ RoomOf \in [Entries -> Rooms \cup {NoRoom}]
  BY RoomsAssumption DEF RoomsAssumption
<1>4. CASE push[p].query # NoRoom
  BY <1>1, <1>2, <1>3, <1>4 DEF Groups, Due, Takes
<1>5. CASE push[p].query = NoRoom /\ ~AllValid(push[p].entries)
  BY <1>1, <1>2, <1>3, <1>5 DEF Groups, Due, Takes
<1>6. CASE push[p].query = NoRoom /\ AllValid(push[p].entries)
  <2>1. PICK d \in {RoomOf[e] : e \in push[p].left} :
          g = <<d, {e \in push[p].left : RoomOf[e] = d}>>
    BY <1>6 DEF Groups
  <2>2. d \in Rooms
    BY <2>1, <1>1, <1>2, <1>3, <1>6 DEF AllValid
  <2>3. \A e \in g[2] : e \in Entries /\ RoomOf[e] = d
    BY <2>1, <1>1, <1>2
  <2>4. ASSUME NEW e \in Due(push[p].entries, push[p].query) \cap g[2], e \notin Ending
        PROVE  e \in Takes(g[2])
    BY <2>2, <2>3, <2>4, <1>2, <1>3, DueIsValid DEF Takes
  <2>5. g[1] = d /\ g[2] \subseteq push[p].left
    BY <2>1
  <2> QED
    BY <2>2, <2>3, <2>4, <2>5
<1> QED
  BY <1>4, <1>5, <1>6

-----------------------------------------------------------------------------
(* WorkerRooms: the steps *)

LEMMA InitInv == WorkerInit => RoomsInv
<1> SUFFICES ASSUME WorkerInit PROVE RoomsInv
  OBVIOUS
<1>1. MaxFaults \in Nat
  BY RoomsAssumption DEF RoomsAssumption
<1>2. NoPush \in Pushes
  BY DEF NoPush, Pushes
<1>3. WorkerTypeOK
  BY <1>1, <1>2 DEF WorkerInit, WorkerTypeOK, NoPush
<1>4. \A p \in Pushers : DueIsKept(p)
  BY DEF WorkerInit, DueIsKept, NoPush
<1> QED
  BY <1>3, <1>4 DEF WorkerInit, RoomsInv, AcknowledgedIsPolled

\* A call with one message that an object of its room answers.
LEMMA DeliverKeepsInv ==
  ASSUME RoomsInv, NEW d \in Rooms, NEW e \in Entries, NEW mayCount \in BOOLEAN,
         mayCount => d = RoomOf[e],
         Deliver(d, e, mayCount)
  PROVE  RoomsInv'
<1>1. held' \in [Rooms -> SUBSET {x \in Entries : RoomOf[x] # NoRoom}]
  BY DEF RoomsInv, WorkerTypeOK, Deliver
<1>2. \A x \in Rooms : held[x] \subseteq held'[x]
  BY DEF RoomsInv, WorkerTypeOK, Deliver
<1>3. mayCount => e \in held'[RoomOf[e]]
  BY DEF RoomsInv, WorkerTypeOK, Deliver
<1>4. WorkerTypeOK'
  BY <1>1 DEF RoomsInv, WorkerTypeOK, Deliver
<1>5. \A x \in acknowledged' : RoomOf[x] \in Rooms /\ x \in held'[RoomOf[x]]
  BY <1>2, <1>3 DEF RoomsInv, AcknowledgedIsPolled, Deliver
<1>6. ASSUME NEW p \in Pushers PROVE DueIsKept(p)'
  <2>1. push[p].stage = "forwarding" =>
          \A x \in push[p].due : RoomOf[x] \in Rooms
    BY DueIsValid DEF RoomsInv, WorkerTypeOK, Pushes, DueIsKept
  <2> QED
    BY <1>2, <2>1 DEF RoomsInv, DueIsKept, Deliver
<1> QED
  BY <1>4, <1>5, <1>6 DEF RoomsInv, AcknowledgedIsPolled

LEMMA PublishKeepsInv ==
  ASSUME RoomsInv, NEW e \in Entries, RoutedPublish(e)
  PROVE  RoomsInv'
<1>1. RoomOf[e] \in Rooms /\ Deliver(RoomOf[e], e, TRUE)
  BY RoomsAssumption DEF RoomsAssumption, RoutedPublish
<1> QED
  BY <1>1, DeliverKeepsInv

LEMMA CallbackKeepsInv ==
  ASSUME RoomsInv, NEW e \in Entries, NEW query \in Rooms \cup {NoRoom},
         Callback(e, query)
  PROVE  RoomsInv'
<1> DEFINE d == IF query = NoRoom THEN RoomOf[e] ELSE query
           may == query \in {NoRoom, RoomOf[e]}
<1>1. d \in Rooms /\ may \in BOOLEAN /\ (may => d = RoomOf[e])
  BY RoomsAssumption DEF RoomsAssumption, Callback, Deliver
<1>2. Deliver(d, e, may)
  BY DEF Callback
<1> QED
  BY <1>1, <1>2, DeliverKeepsInv

LEMMA WebhookKeepsInv ==
  ASSUME RoomsInv, NEW e \in Entries, NEW query \in Rooms \cup {NoRoom},
         Webhook(e, query)
  PROVE  RoomsInv'
<1> DEFINE d == IF query = NoRoom THEN Main ELSE query
           may == query = RoomOf[e]
<1>1. d \in Rooms /\ may \in BOOLEAN /\ (may => d = RoomOf[e])
  BY RoomsAssumption DEF RoomsAssumption, Webhook, Deliver
<1>2. Deliver(d, e, may)
  BY DEF Webhook
<1> QED
  BY <1>1, <1>2, DeliverKeepsInv

\* A push that begins, or begins anew, has all its entries still to forward.
LEMMA StartKeepsInv ==
  ASSUME RoomsInv, NEW p \in Pushers, NEW r \in Pushes,
         r.left = r.entries, r.due = Due(r.entries, r.query),
         push' = [push EXCEPT ![p] = r],
         UNCHANGED <<held, faults, acknowledged>>
  PROVE  RoomsInv'
<1>1. r.due \subseteq r.entries
  BY DueIsValid DEF Pushes
<1>2. WorkerTypeOK'
  BY <1>1 DEF RoomsInv, WorkerTypeOK
<1>3. DueIsKept(p)'
  BY <1>1 DEF RoomsInv, WorkerTypeOK, DueIsKept
<1>4. ASSUME NEW o \in Pushers \ {p} PROVE DueIsKept(o)'
  BY DEF RoomsInv, WorkerTypeOK, DueIsKept
<1> QED
  BY <1>2, <1>3, <1>4 DEF RoomsInv, AcknowledgedIsPolled

LEMMA BeginKeepsInv ==
  ASSUME RoomsInv, NEW p \in Pushers, NEW S \in SUBSET Entries,
         NEW q \in Rooms \cup {NoRoom}, BeginPush(p, S, q)
  PROVE  RoomsInv'
<1> DEFINE r == [stage |-> "forwarding", query |-> q, entries |-> S, left |-> S,
                 due |-> Due(S, q)]
<1>1. Due(S, q) \subseteq S
  BY DueIsValid
<1>2. r \in Pushes
  BY <1>1 DEF Pushes
<1>3. push' = [push EXCEPT ![p] = r] /\ UNCHANGED <<held, faults, acknowledged>>
  BY DEF BeginPush
<1>4. r.left = r.entries /\ r.due = Due(r.entries, r.query)
  OBVIOUS
<1> HIDE DEF r
<1> QED
  BY <1>2, <1>3, <1>4, StartKeepsInv

LEMMA RetryKeepsInv ==
  ASSUME RoomsInv, NEW p \in Pushers, Retry(p)
  PROVE  RoomsInv'
<1> DEFINE D == Due(push[p].entries, push[p].query)
           r == [push[p] EXCEPT !.stage = "forwarding", !.left = push[p].entries,
                                !.due = D]
<1>1. push[p] \in Pushes
  BY DEF RoomsInv, WorkerTypeOK
<1>2. D \in SUBSET Entries
  BY <1>1, DueIsValid DEF Pushes
<1>3. push' = [push EXCEPT ![p] = r] /\ UNCHANGED <<held, faults, acknowledged>>
  BY DEF Retry
<1> HIDE DEF D
<1>4. r \in Pushes
  BY <1>1, <1>2 DEF Pushes
<1>5. /\ r.entries = push[p].entries /\ r.query = push[p].query
      /\ r.left = push[p].entries /\ r.due = D
  BY <1>1 DEF Pushes
<1>6. r.left = r.entries /\ r.due = Due(r.entries, r.query)
  BY <1>5 DEF D
<1> HIDE DEF r
<1> QED
  BY <1>3, <1>4, <1>6, StartKeepsInv

\* More of the messages in the objects, and everything else as it was, but for
\* the push of one peer.
LEMMA OthersKeepDue ==
  ASSUME RoomsInv, NEW p \in Pushers, NEW o \in Pushers \ {p},
         \A d \in Rooms : held[d] \subseteq held'[d],
         push'[o] = push[o]
  PROVE  DueIsKept(o)'
<1>1. push[o].stage = "forwarding" => \A x \in push[o].due : RoomOf[x] \in Rooms
  BY DueIsValid DEF RoomsInv, WorkerTypeOK, Pushes, DueIsKept
<1> QED
  BY <1>1 DEF RoomsInv, DueIsKept

LEMMA ForwardKeepsInv ==
  ASSUME RoomsInv, NEW p \in Pushers, Forward(p)
  PROVE  RoomsInv'
<1>1. PICK g \in Groups(p) : g[2] \cap Ending = {} /\ Forwarded(p, g[1], g[2], g[2])
  BY DEF Forward
<1> DEFINE d == g[1]
           G == g[2]
<1>2. /\ d \in Rooms /\ G \in SUBSET push[p].left
      /\ \A e \in Due(push[p].entries, push[p].query) \cap G :
           RoomOf[e] = d /\ e \in Takes(G)
  BY <1>1, GroupsGoHome DEF RoomsInv
<1>3. /\ push \in [Pushers -> Pushes] /\ push[p] \in Pushes
      /\ push[p].left \subseteq push[p].entries /\ push[p].due \subseteq push[p].entries
      /\ held \in [Rooms -> SUBSET {x \in Entries : RoomOf[x] # NoRoom}]
  BY DEF RoomsInv, WorkerTypeOK
<1>4. push[p].entries \in SUBSET Entries /\ push[p].query \in Rooms \cup {NoRoom}
  BY <1>3 DEF Pushes
<1>5. Takes(G) \subseteq {x \in Entries : RoomOf[x] # NoRoom}
  BY <1>2, <1>3, <1>4, TakesValid
<1> HIDE DEF d, G
<1>6. held' = [held EXCEPT ![d] = held[d] \cup Takes(G)]
  BY <1>1 DEF Forwarded, d, G
<1>7. /\ held' \in [Rooms -> SUBSET {x \in Entries : RoomOf[x] # NoRoom}]
      /\ \A x \in Rooms : held[x] \subseteq held'[x]
      /\ Takes(G) \subseteq held'[d]
  BY <1>2, <1>3, <1>5, <1>6
<1>8. push[p].stage = "forwarding"
  BY DEF Forward
<1>9. /\ push[p].due \subseteq Due(push[p].entries, push[p].query)
      /\ \A e \in push[p].due : RoomOf[e] \in Rooms
      /\ \A e \in push[p].due : e \in push[p].left \/ e \in held[RoomOf[e]]
  BY <1>4, <1>8, DueIsValid DEF RoomsInv, DueIsKept
<1>10. \A e \in push[p].due : e \in push[p].left \ G \/ e \in held'[RoomOf[e]]
  BY <1>2, <1>7, <1>9
<1>11. ASSUME NEW o \in Pushers \ {p}, push'[o] = push[o] PROVE DueIsKept(o)'
  BY <1>7, <1>11, OthersKeepDue
<1>12. \A e \in acknowledged : RoomOf[e] \in Rooms /\ e \in held'[RoomOf[e]]
  BY <1>7 DEF RoomsInv, AcknowledgedIsPolled
<1>13. faults' = faults
  BY DEF Forward
<1>14. CASE /\ push[p].left # G
            /\ push' = [push EXCEPT ![p].left = push[p].left \ G]
            /\ UNCHANGED acknowledged
  <2>1. push' \in [Pushers -> Pushes]
    BY <1>3, <1>14 DEF Pushes
  <2>2. WorkerTypeOK'
    BY <2>1, <1>3, <1>7, <1>13, <1>14 DEF RoomsInv, WorkerTypeOK
  <2>3. DueIsKept(p)'
    BY <1>3, <1>9, <1>10, <1>14 DEF DueIsKept, Pushes
  <2>4. \A o \in Pushers \ {p} : DueIsKept(o)'
    BY <1>3, <1>11, <1>14
  <2> QED
    BY <2>2, <2>3, <2>4, <1>12, <1>14 DEF RoomsInv, AcknowledgedIsPolled
<1>15. CASE /\ push[p].left = G
            /\ push' = [push EXCEPT ![p] = NoPush]
            /\ acknowledged' = acknowledged \cup push[p].due
  <2>1. push' \in [Pushers -> Pushes]
    BY <1>3, <1>15 DEF Pushes, NoPush
  <2>2. acknowledged' \subseteq Entries
    BY <1>3, <1>4, <1>15 DEF RoomsInv, WorkerTypeOK
  <2>3. WorkerTypeOK'
    BY <2>1, <2>2, <1>3, <1>7, <1>13, <1>15 DEF RoomsInv, WorkerTypeOK, NoPush
  <2>4. \A e \in acknowledged' : RoomOf[e] \in Rooms /\ e \in held'[RoomOf[e]]
    BY <1>9, <1>10, <1>12, <1>15
  <2>5. DueIsKept(p)'
    BY <1>3, <1>15 DEF DueIsKept, NoPush
  <2>6. \A o \in Pushers \ {p} : DueIsKept(o)'
    BY <1>3, <1>11, <1>15
  <2> QED
    BY <2>3, <2>4, <2>5, <2>6 DEF RoomsInv, AcknowledgedIsPolled
<1> QED
  BY <1>1, <1>14, <1>15 DEF Forwarded, G

LEMMA FailureKeepsInv ==
  ASSUME RoomsInv, NEW p \in Pushers, ForwardFails(p) \/ ForwardEnds(p)
  PROVE  RoomsInv'
<1>1. PICK g \in Groups(p) : Broken(p, g)
  BY DEF ForwardFails, ForwardEnds
<1>0. PICK S \in SUBSET g[2] :
        held' = [held EXCEPT ![g[1]] = held[g[1]] \cup Takes(S)]
  BY <1>1 DEF Broken
<1>2. /\ push \in [Pushers -> Pushes] /\ push[p] \in Pushes
      /\ push[p].left \subseteq push[p].entries
      /\ held \in [Rooms -> SUBSET {x \in Entries : RoomOf[x] # NoRoom}]
  BY DEF RoomsInv, WorkerTypeOK
<1>3. g[1] \in Rooms /\ g[2] \in SUBSET push[p].left
  BY GroupsGoHome DEF RoomsInv
<1>4. Takes(S) \subseteq {x \in Entries : RoomOf[x] # NoRoom}
  BY <1>2, <1>3, TakesValid DEF Pushes
<1>5. /\ held' \in [Rooms -> SUBSET {x \in Entries : RoomOf[x] # NoRoom}]
      /\ \A x \in Rooms : held[x] \subseteq held'[x]
  BY <1>0, <1>2, <1>3, <1>4
<1>6. push' = [push EXCEPT ![p].stage = "failed"] /\ UNCHANGED acknowledged
  BY <1>1 DEF Broken
<1>7. push' \in [Pushers -> Pushes]
  BY <1>2, <1>6 DEF Pushes
<1>8. faults' \in 0..MaxFaults
  BY RoomsAssumption DEF RoomsAssumption, RoomsInv, WorkerTypeOK, ForwardFails, ForwardEnds, Fault
<1>9. WorkerTypeOK'
  BY <1>2, <1>5, <1>6, <1>7, <1>8 DEF RoomsInv, WorkerTypeOK, Pushes
<1>10. DueIsKept(p)'
  BY <1>2, <1>6 DEF DueIsKept, Pushes
<1>11. \A o \in Pushers \ {p} : DueIsKept(o)'
  BY <1>2, <1>5, <1>6, OthersKeepDue
<1> QED
  BY <1>5, <1>6, <1>9, <1>10, <1>11 DEF RoomsInv, AcknowledgedIsPolled

\* Nobody counts any more on what the object that restarts has lost.
LEMMA RestartKeepsInv ==
  ASSUME RoomsInv, NEW d \in Rooms, RestartObject(d)
  PROVE  RoomsInv'
<1>1. /\ push \in [Pushers -> Pushes]
      /\ held \in [Rooms -> SUBSET {x \in Entries : RoomOf[x] # NoRoom}]
  BY DEF RoomsInv, WorkerTypeOK
<1>2. held' = [held EXCEPT ![d] = {}]
      /\ acknowledged' = {e \in acknowledged : RoomOf[e] # d}
  BY DEF RestartObject
<1>3. ASSUME NEW p \in Pushers
      PROVE  push'[p] = [push[p] EXCEPT !.due =
                 {e \in push[p].due : RoomOf[e] # d \/ e \in push[p].left}]
  BY DEF RestartObject
<1>4. ASSUME NEW p \in Pushers
      PROVE  /\ push'[p] \in Pushes
             /\ push'[p].stage = push[p].stage
             /\ push'[p].query = push[p].query
             /\ push'[p].entries = push[p].entries
             /\ push'[p].left = push[p].left
             /\ push'[p].due = {e \in push[p].due : RoomOf[e] # d \/ e \in push[p].left}
  <2> DEFINE D == {e \in push[p].due : RoomOf[e] # d \/ e \in push[p].left}
  <2>1. push'[p] = [push[p] EXCEPT !.due = D]
    BY <1>3, <1>4
  <2>2. D \subseteq push[p].due
    OBVIOUS
  <2>3. push[p] \in Pushes
    BY <1>1, <1>4
  <2> HIDE DEF D
  <2>4. push'[p] \in Pushes
    BY <2>1, <2>2, <2>3 DEF Pushes
  <2>5. push'[p].due = D
    BY <2>1, <2>3 DEF Pushes
  <2> QED
    BY <2>1, <2>3, <2>4, <2>5 DEF D, Pushes
<1>5. push' \in [Pushers -> Pushes]
  BY <1>4 DEF RestartObject
<1>6. faults' \in 0..MaxFaults
  BY RoomsAssumption DEF RoomsAssumption, RoomsInv, WorkerTypeOK, RestartObject, Fault
<1>7. held' \in [Rooms -> SUBSET {x \in Entries : RoomOf[x] # NoRoom}]
  BY <1>1, <1>2
<1>8. WorkerTypeOK'
  BY <1>2, <1>4, <1>5, <1>6, <1>7 DEF RoomsInv, WorkerTypeOK
<1>9. \A x \in Rooms \ {d} : held'[x] = held[x]
  BY <1>1, <1>2
<1>10. \A e \in acknowledged' : RoomOf[e] \in Rooms /\ e \in held'[RoomOf[e]]
  BY <1>2, <1>9 DEF RoomsInv, AcknowledgedIsPolled
<1>11. ASSUME NEW p \in Pushers PROVE DueIsKept(p)'
  <2>1. push[p].stage = "forwarding" =>
          /\ push[p].due \subseteq Due(push[p].entries, push[p].query)
          /\ \A e \in push[p].due : RoomOf[e] \in Rooms
          /\ \A e \in push[p].due : e \in push[p].left \/ e \in held[RoomOf[e]]
    BY <1>1, DueIsValid DEF RoomsInv, Pushes, DueIsKept
  <2> QED
    BY <2>1, <1>4, <1>9 DEF DueIsKept
<1> QED
  BY <1>8, <1>10, <1>11 DEF RoomsInv, AcknowledgedIsPolled

LEMMA NextKeepsInv == RoomsInv /\ [WorkerNext]_workerVars => RoomsInv'
<1> SUFFICES ASSUME RoomsInv, [WorkerNext]_workerVars PROVE RoomsInv'
  OBVIOUS
<1>1. CASE \E e \in Entries : RoutedPublish(e)
  BY <1>1, PublishKeepsInv
<1>2. CASE \E e \in Entries, query \in Rooms \cup {NoRoom} :
             Callback(e, query) \/ Webhook(e, query)
  BY <1>2, CallbackKeepsInv, WebhookKeepsInv
<1>3. CASE \E p \in Pushers, S \in Batches, query \in Rooms \cup {NoRoom} :
             BeginPush(p, S, query)
  BY <1>3, BeginKeepsInv, RoomsAssumption DEF RoomsAssumption
<1>4. CASE \E p \in Pushers : Forward(p) \/ ForwardFails(p) \/ ForwardEnds(p) \/ Retry(p)
  BY <1>4, ForwardKeepsInv, FailureKeepsInv, RetryKeepsInv
<1>5. CASE \E d \in Rooms : RestartObject(d)
  BY <1>5, RestartKeepsInv
<1>6. CASE UNCHANGED workerVars
  BY <1>6 DEF workerVars, RoomsInv, WorkerTypeOK, AcknowledgedIsPolled, DueIsKept
<1> QED
  BY <1>1, <1>2, <1>3, <1>4, <1>5, <1>6 DEF WorkerNext

-----------------------------------------------------------------------------
(* WorkerRooms: the theorems *)

LEMMA Invariance == WorkerSpec => []RoomsInv
<1> QED
  BY InitInv, NextKeepsInv, PTL DEF WorkerSpec

\* Calls, pushes, failures and restarts keep every variable of the Worker's
\* objects in its type, and no object keeps a message of an invalid room.
THEOREM RoomsTyped == WorkerSpec => []WorkerTypeOK
<1>1. RoomsInv => WorkerTypeOK
  BY DEF RoomsInv
<1> QED
  BY <1>1, Invariance, PTL

\* What the Worker answered 200 is kept by the object that polls of its room
\* reach, until that object restarts, for any split of a push over objects and
\* any failure on the way (routeCacheExchangePushByEntryRoom).
THEOREM AcknowledgedKept == WorkerSpec => []AcknowledgedIsPolled
<1>1. RoomsInv => AcknowledgedIsPolled
  BY DEF RoomsInv
<1> QED
  BY <1>1, Invariance, PTL

=============================================================================
