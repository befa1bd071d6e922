------------------------ MODULE IssueProjection_proofs ------------------------
(***************************************************************************)
(* Proofs about IssueProjection, for any envelopes, policy, page and room  *)
(* size, retries and failures: the types, that followers get the events in *)
(* order and miss none, that a puller in step stays so, and that a         *)
(* snapshot is not older than the stored events.                           *)
(***************************************************************************)
EXTENDS IssueProjection, FiniteSetTheorems, FunctionTheorems, SequenceTheorems,
        WellFoundedInduction, TLAPS

\* The running task has taken its cursor.
Taken == task.phase \in {"event", "snapshot", "record"}
\* The cursor the running task would take now.
Upcoming == NextCursor(Current(record), Head(queue).hint)
\* The event is of a task that is over.
Over(x) == ~(Busy /\ x.number = Number)

TypeInv ==
  /\ TypeOK /\ IsFiniteSet(events) /\ IsFiniteSet(sync.page)
  /\ Taken => task.cursor > 0

\* The tasks that are not in the queue any more.
Done == accepted - Len(queue)

\* The queue holds the tasks of the last acceptances, in their order.
QueueInv ==
  /\ Len(queue) <= accepted
  /\ \A k \in DOMAIN queue : queue[k].number = Done + k

\* Events are of tasks that are over or that run.
EventInv ==
  \A x \in events : /\ x.number <= Done + (IF Busy THEN 1 ELSE 0)
                    /\ ~Over(x) => x.envelope = Envelope

\* The record is at the events of tasks that are over, and the cursor of the
\* running task beyond it and not behind the events it left behind.
CursorInv ==
  sound =>
    /\ \A x \in events : Over(x) => x.cursor <= record
    /\ \A x \in events : ~Over(x) =>
         x.cursor <= (IF Taken THEN task.cursor ELSE Upcoming)
    /\ Taken => record < task.cursor

\* What memory and the follower's call know is not ahead of what the running
\* task ends with; at its first attempt, of the record.
MemoryInv ==
  sound =>
    /\ ~Taken /\ task.attempt = 0 =>
         memory <= record /\ (sync.busy => sync.current <= record)
    /\ ~Taken /\ task.attempt > 0 => (sync.busy => sync.current <= Upcoming)
    /\ Taken => memory <= task.cursor /\ (sync.busy => sync.current <= task.cursor)
    /\ Taken /\ task.attempt = 0 => task.cursor <= NextCursor(record, Head(queue).hint)
    /\ Taken /\ task.attempt > 0 => task.cursor <= memory

\* The follower's cursor is that of an event it has, and the page under way
\* holds all up to its last entry.
FollowInv ==
  sound =>
    /\ follower.after = 0
       \/ \E x \in events : x.cursor = follower.after /\ x.number \in follower.seen
    /\ sync.busy =>
         /\ sync.page \subseteq events
         /\ \A y \in sync.page :
              /\ follower.after < y.cursor
              /\ \A x \in events : follower.after < x.cursor /\ x.cursor <= y.cursor =>
                   \E z \in sync.page : z.number = x.number

\* e is not newer than the snapshot of its issue, but for the source.
Covered(e) ==
  LET f == snapshots[e.issue] IN
  (\A d \in Envelopes : d.issue = e.issue => d.at # NoTime)
    => /\ f # None
       /\ e.at > f.at => /\ Policy # "last_write"
                         /\ f.source = Policy /\ e.source # Policy

SnapshotInv ==
  sound =>
    /\ \A x \in events : Over(x) => Covered(x.envelope)
    /\ Busy /\ task.phase = "record" => Covered(Envelope)

\* A puller's position is in the list.
PullerInv == puller.after <= Cardinality(issues)

ProjectionInv ==
  /\ TypeInv /\ QueueInv /\ EventInv /\ EventsInOrder /\ CursorInv /\ MemoryInv
  /\ FollowInv /\ FollowerMissesNothing /\ SnapshotInv

-----------------------------------------------------------------------------
(* Operators *)

LEMMA MaxOfTwo ==
  ASSUME NEW m \in Int, NEW n \in Int
  PROVE  Max({m, n}) = IF m >= n THEN m ELSE n
<1> DEFINE most == IF m >= n THEN m ELSE n
<1>1. most \in {m, n} /\ \A y \in {m, n} : most >= y
  OBVIOUS
<1>2. \A x \in {m, n} : (\A y \in {m, n} : x >= y) => x = most
  OBVIOUS
<1> QED
  BY <1>1, <1>2 DEF Max

\* A non-empty set of numbers has its least.
LEMMA LeastOf ==
  ASSUME NEW S \in SUBSET Nat, S # {}
  PROVE  \E m \in S : \A n \in S : m <= n
<1>1. \E m \in S : \A n \in S : ~(<<n, m>> \in OpToRel(<, Nat))
  BY WFMin, NatLessThanWellFounded
<1>2. \E m \in S : \A n \in S : ~(n < m)
  BY <1>1 DEF OpToRel
<1> QED
  BY <1>2

\* A finite non-empty set of numbers has its greatest.
LEMMA MaxOfFinite ==
  ASSUME NEW S \in SUBSET Nat, IsFiniteSet(S), S # {}
  PROVE  Max(S) \in S /\ \A n \in S : n <= Max(S)
<1> DEFINE above(n) == {m \in S : n < m}
           sizes == {Cardinality(above(n)) : n \in S}
<1>1. \A n \in S : IsFiniteSet(above(n)) /\ Cardinality(above(n)) \in Nat
  BY FS_Subset, FS_CardinalityType
<1>2. sizes \in SUBSET Nat /\ sizes # {}
  BY <1>1
<1>3. PICK m \in S : \A n \in S : Cardinality(above(m)) <= Cardinality(above(n))
  <2>1. PICK c \in sizes : \A d \in sizes : c <= d
    <3> HIDE DEF sizes
    <3> QED
      BY <1>2, LeastOf
  <2> QED
    BY <2>1
<1>4. ASSUME NEW n \in S PROVE n <= m
  <2> SUFFICES ASSUME m < n PROVE FALSE
    BY m \in Nat, n \in Nat
  <2> HIDE DEF sizes
  <2>1. above(n) \subseteq above(m) /\ n \in above(m) /\ n \notin above(n)
    <3>1. m < n /\ ~(n < n) /\ \A k \in S : n < k => m < k
      OBVIOUS
    <3> QED
      BY <3>1
  <2>2. Cardinality(above(n)) <= Cardinality(above(m)) /\ Cardinality(above(n)) # Cardinality(above(m))
    BY <1>1, <2>1, FS_Subset
  <2> QED
    BY <1>1, <1>3, <2>2
<1> QED
  BY <1>4 DEF Max

\* currentIssueCursor and nextIssueCursor
LEMMA CursorFacts ==
  ASSUME memory \in Nat
  PROVE  /\ \A read \in Nat :
              Current(read) = (IF memory >= read THEN memory ELSE read) /\ Current(read) \in Nat
         /\ \A current, hint \in Nat :
              /\ NextCursor(current, hint) = IF current >= hint - 1 THEN current + 1 ELSE hint
              /\ NextCursor(current, hint) \in Nat \ {0}
BY MaxOfTwo DEF Current, NextCursor

LEMMA EnvelopeFacts ==
  /\ IsFiniteSet(Envelopes) /\ Ids \subseteq Nat \ {0}
  /\ \A e \in Envelopes : e.id \in Ids /\ e.at \in Nat /\ e.issue \in Issues
                          /\ e.id # 0 /\ e # None
  /\ \A d, e \in Envelopes : d.id = e.id => d = e
BY ProjectionAssumption DEF ProjectionAssumption, Ids, Issues, None

\* A page holds what stands before its entries.
LEMMA PageFacts ==
  ASSUME NEW E \in SUBSET Events, IsFiniteSet(E),
         NEW x \in E, NEW y \in Page(E), KeyBefore(x, y)
  PROVE  x \in Page(E)
<1> DEFINE before(z) == {w \in E : KeyBefore(w, z)}
<1>1. before(x) \subseteq before(y)
  <2> SUFFICES ASSUME NEW w \in E, KeyBefore(w, x) PROVE KeyBefore(w, y)
    OBVIOUS
  <2>1. y \in E
    BY DEF Page
  <2>2. /\ w.cursor \in Nat /\ x.cursor \in Nat /\ y.cursor \in Nat
        /\ w.envelope.id \in Nat /\ x.envelope.id \in Nat /\ y.envelope.id \in Nat
    BY <2>1, EnvelopeFacts DEF Events
  <2> QED
    BY <2>2 DEF KeyBefore
<1>2. IsFiniteSet(before(y)) /\ IsFiniteSet(before(x))
  BY FS_Subset
<1>3. Cardinality(before(x)) <= Cardinality(before(y))
  BY <1>1, <1>2, FS_Subset
<1>4. Cardinality(before(x)) \in Nat /\ Cardinality(before(y)) \in Nat
  BY <1>2, FS_CardinalityType
<1>5. Cardinality(before(y)) < Limit
  BY DEF Page
<1>6. Limit \in Nat
  BY ProjectionAssumption DEF ProjectionAssumption
<1>7. Cardinality(before(x)) < Limit
  BY <1>3, <1>4, <1>5, <1>6
<1> QED
  BY <1>7 DEF Page

LEMMA PageWithin == \A E : Page(E) \subseteq E
BY DEF Page

\* The queue's tasks, the first of which runs.
LEMMA QueueFacts ==
  ASSUME TypeOK
  PROVE  /\ Len(queue) \in Nat /\ DOMAIN queue = 1..Len(queue) /\ accepted \in Nat
         /\ queue \in Seq([envelope : Envelopes, number : Nat, hint : Nat])
         /\ \A k \in DOMAIN queue : queue[k].envelope \in Envelopes /\ queue[k].number \in Nat
         /\ Busy <=> Len(queue) > 0
         /\ Busy => /\ Head(queue) = queue[1] /\ Len(Tail(queue)) = Len(queue) - 1
                    /\ Tail(queue) \in Seq([envelope : Envelopes, number : Nat, hint : Nat])
                    /\ \A k \in 1..(Len(queue) - 1) : Tail(queue)[k] = queue[k + 1]
                    /\ Envelope \in Envelopes /\ Number \in Nat /\ Head(queue).hint \in Nat
<1>1. queue \in Seq([envelope : Envelopes, number : Nat, hint : Nat]) /\ accepted \in Nat
  <2>1. accepted \in 0..MaxAccepted /\ MaxAccepted \in Nat
    BY ProjectionAssumption DEF TypeOK, ProjectionAssumption
  <2> QED
    BY <2>1 DEF TypeOK
<1>2. Len(queue) \in Nat /\ DOMAIN queue = 1..Len(queue)
  BY <1>1, LenProperties
<1>3. \A k \in DOMAIN queue : queue[k] \in [envelope : Envelopes, number : Nat, hint : Nat]
  BY <1>1, <1>2, ElementOfSeq
<1>4. Busy <=> Len(queue) > 0
  BY <1>1, <1>2, EmptySeq DEF Busy
<1>5. Busy => /\ Head(queue) = queue[1] /\ Len(Tail(queue)) = Len(queue) - 1
              /\ Tail(queue) \in Seq([envelope : Envelopes, number : Nat, hint : Nat])
              /\ \A k \in 1..(Len(queue) - 1) : Tail(queue)[k] = queue[k + 1]
  BY <1>1, HeadTailProperties DEF Busy
<1>6. Busy => Envelope \in Envelopes /\ Number \in Nat /\ Head(queue).hint \in Nat
  BY <1>2, <1>3, <1>4, <1>5 DEF Envelope, Number
<1> QED
  BY <1>1, <1>2, <1>3, <1>4, <1>5, <1>6

-----------------------------------------------------------------------------
(* Types *)

LEMMA Bounds ==
  /\ MaxRetries \in Nat /\ Limit \in Nat \ {0} /\ MaxTrouble \in Nat
  /\ MaxMessages \in Nat \ {0} /\ MaxAccepted \in Nat
BY ProjectionAssumption DEF ProjectionAssumption

LEMMA StartTyped == Start \in [phase : Phases, attempt : 0..MaxRetries, cursor : Nat]
                    /\ Start.phase = "envelope" /\ Start.attempt = 0
BY Bounds DEF Start, Phases

\* The event that the running task writes.
NewEvent == [cursor |-> task.cursor, envelope |-> Envelope, number |-> Number]

\* What a put leaves in the cache.
LEMMA WriteTyped ==
  ASSUME TypeInv, Write
  PROVE  /\ issues' \subseteq Ids /\ issues \subseteq issues'
         /\ events' \subseteq Events
         /\ IsFiniteSet(events')
         /\ DOMAIN snapshots' = Issues
         /\ \A i \in Issues : snapshots'[i] \in {e \in Envelopes : e.issue = i} \cup {None}
         /\ record' \in Nat
<1>1. Busy /\ Envelope \in Envelopes
  BY QueueFacts DEF TypeInv, Write, At
<1>2. CASE At("envelope") /\ WriteEnvelope
  BY <1>1, <1>2, EnvelopeFacts DEF TypeInv, TypeOK, WriteEnvelope
<1>3. CASE At("event") /\ WriteEvent
  <2>1. task.cursor \in Nat \ {0}
    BY <1>3 DEF TypeInv, TypeOK, At, Taken
  <2>2. /\ events' \subseteq events \cup {NewEvent} /\ NewEvent \in Events
        /\ UNCHANGED <<issues, snapshots, record>>
    BY <1>1, <1>3, <2>1, QueueFacts DEF TypeInv, WriteEvent, NewEvent, Events
  <2>3. IsFiniteSet(events \cup {NewEvent})
    BY FS_AddElement DEF TypeInv
  <2>4. IsFiniteSet(events')
    BY <2>2, <2>3, FS_Subset
  <2> QED
    BY <2>2, <2>4 DEF TypeInv, TypeOK
<1>4. CASE At("snapshot") /\ WriteSnapshot
  <2>1. /\ DOMAIN snapshots = Issues
        /\ \A i \in Issues : snapshots[i] \in {e \in Envelopes : e.issue = i} \cup {None}
    BY DEF TypeInv, TypeOK
  <2>2. snapshots' = [snapshots EXCEPT ![Envelope.issue] = Envelope]
    BY <1>4 DEF WriteSnapshot
  <2>3. DOMAIN snapshots' = Issues
        /\ \A i \in Issues : snapshots'[i] = IF i = Envelope.issue THEN Envelope ELSE snapshots[i]
    BY <2>1, <2>2
  <2> QED
    BY <1>1, <1>4, <2>1, <2>3 DEF TypeInv, TypeOK, WriteSnapshot
<1>5. CASE At("record") /\ WriteRecord
  BY <1>5 DEF TypeInv, TypeOK, WriteRecord
<1> QED
  BY <1>2, <1>3, <1>4, <1>5 DEF Write

\* A task that goes on, ends or starts again.
LEMMA TaskTyped ==
  ASSUME TypeInv, Busy, Continue \/ GoTo("record") \/ Retry
  PROVE  /\ queue' \in Seq([envelope : Envelopes, number : Nat, hint : Nat])
         /\ task' \in [phase : Phases, attempt : 0..MaxRetries, cursor : Nat]
         /\ queue' = << >> => task' = Start
<1>1. /\ queue \in Seq([envelope : Envelopes, number : Nat, hint : Nat]) /\ queue # << >>
      /\ task \in [phase : Phases, attempt : 0..MaxRetries, cursor : Nat]
  BY DEF TypeInv, TypeOK, Busy
<1>2. ASSUME NEW p \in Phases, GoTo(p)
      PROVE  queue' = queue /\ task' \in [phase : Phases, attempt : 0..MaxRetries, cursor : Nat]
  BY <1>1, <1>2 DEF GoTo
<1>3. ASSUME Settle
      PROVE  queue' \in Seq([envelope : Envelopes, number : Nat, hint : Nat]) /\ task' = Start
  BY <1>3, QueueFacts DEF Settle, TypeInv
<1>4. ASSUME Retry, ~Settle
      PROVE  queue' = queue /\ task' \in [phase : Phases, attempt : 0..MaxRetries, cursor : Nat]
  <2>1. task.attempt < MaxRetries /\ task' = [Start EXCEPT !.attempt = task.attempt + 1]
        /\ queue' = queue
    BY <1>4 DEF Retry
  <2>2. task.attempt + 1 \in 0..MaxRetries
    BY <1>1, <2>1, Bounds
  <2> QED
    BY <2>1, <2>2, StartTyped
<1> QED
  BY <1>1, <1>2, <1>3, <1>4, StartTyped DEF Continue, Phases

\* A task that had its cursor keeps it, or has none.
LEMMA CursorKept ==
  ASSUME TypeInv, Continue \/ (GoTo("record") /\ At("snapshot")) \/ Retry
  PROVE  Taken' => task.phase # "cursor" /\ Taken /\ task'.cursor = task.cursor
                   /\ task'.attempt = task.attempt /\ queue' = queue
<1>1. task \in [phase : Phases, attempt : 0..MaxRetries, cursor : Nat]
  BY DEF TypeInv, TypeOK
<1>2. CASE Settle
  BY <1>2, StartTyped DEF Settle, Taken
<1>3. CASE Retry /\ ~Settle
  <2>1. task' = [Start EXCEPT !.attempt = task.attempt + 1]
    BY <1>3 DEF Retry
  <2> QED
    BY <2>1, StartTyped DEF Taken
<1>4. CASE At("envelope") /\ GoTo("cursor")
  BY <1>1, <1>4 DEF GoTo, Taken
<1>5. CASE \/ At("event") /\ GoTo("snapshot")
           \/ At("snapshot") /\ GoTo("record")
  BY <1>1, <1>5 DEF GoTo, Taken, At
<1> QED
  BY <1>2, <1>3, <1>4, <1>5 DEF Continue

LEMMA PutTyped == ASSUME TypeInv, Put PROVE TypeInv'
<1>1. Busy /\ Write /\ Continue
  BY DEF Put, Writes, At
<1>2. UNCHANGED <<memory, sync, follower, puller, room, accepted, trouble, sound>>
  BY DEF Put, readerVars, roomVars
<1> QED
  BY <1>1, <1>2, WriteTyped, TaskTyped, CursorKept DEF TypeInv, TypeOK, Taken

LEMMA PutFailsTyped == ASSUME TypeInv, PutFails PROVE TypeInv'
<1>1. Busy /\ Retry /\ Trouble /\ (Write \/ UNCHANGED cacheVars)
  BY DEF PutFails, Writes, At
<1>2. UNCHANGED <<memory, sync, follower, puller, room, accepted>>
  BY DEF PutFails, readerVars, roomVars
<1>3. trouble' \in 0..MaxTrouble
  BY <1>1, Bounds DEF Trouble, TypeInv, TypeOK
<1>4. sound' \in BOOLEAN
  BY <1>1 DEF Retry, TypeInv, TypeOK
<1>5. /\ issues' \subseteq Ids
      /\ events' \subseteq Events
      /\ IsFiniteSet(events')
      /\ DOMAIN snapshots' = Issues
      /\ \A i \in Issues : snapshots'[i] \in {e \in Envelopes : e.issue = i} \cup {None}
      /\ record' \in Nat
  <2>1. CASE Write
    BY <2>1, WriteTyped
  <2>2. CASE UNCHANGED cacheVars
    BY <2>2 DEF TypeInv, TypeOK, cacheVars
  <2> QED
    BY <1>1, <2>1, <2>2
<1> QED
  BY <1>1, <1>2, <1>3, <1>4, <1>5, TaskTyped, CursorKept DEF TypeInv, TypeOK, Taken

LEMMA SnapshotTyped == ASSUME TypeInv, KeepSnapshot \/ SnapshotUnread PROVE TypeInv'
<1>1. At("snapshot") /\ Busy /\ GoTo("record")
  BY DEF KeepSnapshot, SnapshotUnread, At
<1>2. UNCHANGED <<memory, sync, follower, puller, room, accepted>>
  BY DEF KeepSnapshot, SnapshotUnread, readerVars, roomVars
<1>3. trouble' \in 0..MaxTrouble
  BY Bounds DEF KeepSnapshot, SnapshotUnread, Trouble, TypeInv, TypeOK
<1>6. sound' \in BOOLEAN
  BY Zenon DEF KeepSnapshot, SnapshotUnread, TypeInv, TypeOK
<1>4. UNCHANGED cacheVars \/ Write
  BY DEF KeepSnapshot, SnapshotUnread, Write
<1>5. /\ issues' \subseteq Ids
      /\ events' \subseteq Events
      /\ IsFiniteSet(events')
      /\ DOMAIN snapshots' = Issues
      /\ \A i \in Issues : snapshots'[i] \in {e \in Envelopes : e.issue = i} \cup {None}
      /\ record' \in Nat
  <2>1. CASE Write
    BY <2>1, WriteTyped
  <2>2. CASE UNCHANGED cacheVars
    BY <2>2 DEF TypeInv, TypeOK, cacheVars
  <2> QED
    BY <1>4, <2>1, <2>2
<1> QED
  BY <1>1, <1>2, <1>3, <1>5, <1>6, TaskTyped, CursorKept DEF TypeInv, TypeOK, Taken

LEMMA TakeTyped == ASSUME TypeInv, TakeCursor PROVE TypeInv'
<1>1. Busy /\ Head(queue).hint \in Nat /\ queue # << >>
  BY QueueFacts DEF TakeCursor, At, TypeInv, Busy
<1>2. memory \in Nat /\ record \in Nat /\ Current(record) \in Nat /\ Current(0) \in Nat
  BY CursorFacts DEF TypeInv, TypeOK
<1>3. memory' \in Nat \ {0}
  BY <1>1, <1>2, CursorFacts DEF TakeCursor
<1>4. trouble' \in 0..MaxTrouble
  BY Bounds DEF TakeCursor, Trouble, TypeInv, TypeOK
<1>6. sound' \in BOOLEAN
  BY Zenon DEF TakeCursor, TypeInv, TypeOK
<1>5. /\ task' \in [phase : Phases, attempt : 0..MaxRetries, cursor : Nat]
      /\ task'.cursor > 0
  <2>1. task' = [task EXCEPT !.phase = "event", !.cursor = memory']
    BY DEF TakeCursor
  <2>2. task \in [phase : Phases, attempt : 0..MaxRetries, cursor : Nat]
    BY DEF TypeInv, TypeOK
  <2>3. task' = [phase |-> "event", attempt |-> task.attempt, cursor |-> memory']
    BY <2>1, <2>2
  <2> QED
    BY <1>3, <2>2, <2>3 DEF Phases
<1> QED
  BY <1>1, <1>3, <1>4, <1>5, <1>6
  DEF TakeCursor, TypeInv, TypeOK, cacheVars, readerVars, roomVars, Taken

LEMMA SyncTyped == ASSUME TypeInv, Sync PROVE TypeInv'
<1>1. memory \in Nat /\ record \in Nat /\ Current(record) \in Nat /\ Current(0) \in Nat
  BY CursorFacts DEF TypeInv, TypeOK
<1>2. events \subseteq Events /\ IsFiniteSet(events)
  BY DEF TypeInv, TypeOK
<1>3. sync' \in [busy : BOOLEAN, page : SUBSET Events, current : Nat] /\ IsFiniteSet(sync'.page)
  <2>1. ASSUME NEW new \in SUBSET events, NEW c \in Nat,
               sync' = [busy |-> TRUE, page |-> Page(new), current |-> c]
        PROVE  /\ sync' \in [busy : BOOLEAN, page : SUBSET Events, current : Nat]
               /\ IsFiniteSet(sync'.page)
    <3>1. Page(new) \subseteq events /\ sync'.page = Page(new)
      BY <2>1, PageWithin
    <3> QED
      BY <1>2, <2>1, <3>1, FS_Subset
  <2>2. \E new \in SUBSET events, c \in Nat :
          sync' = [busy |-> TRUE, page |-> Page(new), current |-> c]
    <3> DEFINE new == {x \in events : x.cursor > follower.after}
    <3>1. new \in SUBSET events /\ \A x \in new : new \ {x} \in SUBSET events
      OBVIOUS
    <3> QED
      BY <1>1, <3>1 DEF Sync
  <2> QED
    BY <2>1, <2>2
<1>4. trouble' \in 0..MaxTrouble
  <2>1. trouble' = trouble \/ Trouble
    BY DEF Sync
  <2> QED
    BY <2>1, Bounds DEF Trouble, TypeInv, TypeOK
<1>5. sound' \in BOOLEAN
  BY Zenon DEF Sync, TypeInv, TypeOK
<1> QED
  BY <1>3, <1>4, <1>5 DEF Sync, TypeInv, TypeOK, cacheVars, queueVars, roomVars, Taken

\* The last entry of a page.
LEMMA LastOfPage ==
  ASSUME TypeInv, sync.page # {}
  PROVE  \E y \in sync.page : NextAfter(sync.page) = y.cursor
                                /\ \A x \in sync.page : x.cursor <= y.cursor
<1> DEFINE cursors == {x.cursor : x \in sync.page}
<1>1. \A x \in sync.page : x.cursor \in Nat
  BY DEF TypeInv, TypeOK, Events
<1>2. IsFiniteSet(sync.page)
  BY DEF TypeInv
<1>3. IsFiniteSet(cursors)
  <2> DEFINE of == [x \in sync.page |-> x.cursor]
  <2>1. of \in Surjection(sync.page, cursors)
    BY DEF Surjection
  <2> HIDE DEF of, cursors
  <2> QED
    BY <1>2, <2>1, FS_Surjection
<1>4. cursors \in SUBSET Nat /\ cursors # {}
  BY <1>1
<1>5. Max(cursors) \in cursors /\ \A n \in cursors : n <= Max(cursors)
  <2> HIDE DEF cursors
  <2> QED
    BY <1>3, <1>4, MaxOfFinite
<1>6. NextAfter(sync.page) = Max(cursors)
  BY DEF NextAfter
<1> QED
  BY <1>5, <1>6

LEMMA AnswerTyped == ASSUME TypeInv, SyncAnswer PROVE TypeInv'
<1>1. /\ follower \in [after : Nat, seen : SUBSET Nat]
      /\ \A x \in sync.page : x.cursor \in Nat /\ x.number \in Nat
  BY DEF TypeInv, TypeOK, Events
<1>2. NextAfter(sync.page) \in Nat
  <2>1. CASE sync.page = {}
    BY <1>1, <2>1 DEF NextAfter
  <2>2. CASE sync.page # {}
    BY <1>1, <2>2, LastOfPage
  <2> QED
    BY <2>1, <2>2
<1>3. follower' \in [after : Nat, seen : SUBSET Nat]
  <2>1. {x.number : x \in sync.page} \subseteq Nat
    BY <1>1
  <2> QED
    BY <1>1, <1>2, <2>1 DEF SyncAnswer
<1>4. sync' \in [busy : BOOLEAN, page : SUBSET Events, current : Nat] /\ IsFiniteSet(sync'.page)
  BY FS_EmptySet DEF SyncAnswer, NoSync
<1>5. memory' \in Nat
  BY DEF SyncAnswer, TypeInv, TypeOK
<1>6. sound' \in BOOLEAN
  BY DEF SyncAnswer
<1> QED
  BY <1>3, <1>4, <1>5, <1>6 DEF SyncAnswer, TypeInv, TypeOK, cacheVars, queueVars, roomVars, Taken

\* The room keeps its limit.
LEMMA RoomTyped ==
  ASSUME TypeInv, NEW m \in Envelopes \cup {Other}, room' = Trim(Append(room, m))
  PROVE  room' \in Seq(Envelopes \cup {Other}) /\ Len(room') <= MaxMessages /\ Len(room') \in Nat
<1> DEFINE M == Envelopes \cup {Other}
           l == Append(room, m)
<1>1. room \in Seq(M) /\ Len(room) <= MaxMessages /\ Len(room) \in Nat /\ m \in M
  BY LenProperties DEF TypeInv, TypeOK
<1>2. l \in Seq(M) /\ Len(l) = Len(room) + 1
  <2> HIDE DEF M
  <2> QED
    BY <1>1, AppendProperties
<1> HIDE DEF M, l
<1>3. Trim(l) \in Seq(M) /\ Len(Trim(l)) <= MaxMessages /\ Len(Trim(l)) \in Nat
  <2>1. CASE Len(l) > MaxMessages
    <3> DEFINE i == Len(l) - MaxMessages + 1
    <3>1. i \in 1..(Len(l) + 1) /\ Len(l) \in 0..Len(l) /\ i \in Int
      BY <1>1, <1>2, <2>1, Bounds
    <3>2. Trim(l) = SubSeq(l, i, Len(l))
      BY <2>1 DEF Trim
    <3>3. SubSeq(l, i, Len(l)) \in Seq(M)
          /\ Len(SubSeq(l, i, Len(l))) = IF i <= Len(l) THEN Len(l) - i + 1 ELSE 0
      <4> HIDE DEF i
      <4>1. \A k \in i..Len(l) : l[k] \in M
        BY <1>2, <3>1, ElementOfSeq
      <4> QED
        BY <1>2, <3>1, <4>1, SubSeqProperties
    <3> QED
      BY <1>1, <1>2, <2>1, <3>2, <3>3, Bounds
  <2>2. CASE ~(Len(l) > MaxMessages)
    BY <1>1, <1>2, <2>2, Bounds DEF Trim
  <2> QED
    BY <2>1, <2>2
<1> QED
  BY <1>3 DEF M, l

LEMMA PublishTyped ==
  ASSUME TypeInv, NEW e \in Envelopes, Publish(e)
  PROVE  /\ TypeInv' /\ accepted' = accepted + 1
         /\ \E t : /\ t \in [envelope : Envelopes, number : Nat, hint : Nat]
                   /\ queue' = Append(queue, t) /\ t.envelope = e /\ t.number = accepted + 1
<1> DEFINE T == [envelope : Envelopes, number : Nat, hint : Nat]
           t == [envelope |-> e, number |-> accepted', hint |-> Len(room')]
<1>1. /\ room' \in Seq(Envelopes \cup {Other}) /\ Len(room') <= MaxMessages
      /\ Len(room') \in Nat
  BY RoomTyped DEF Publish
<1>2. accepted' \in 0..MaxAccepted /\ accepted' \in Nat /\ accepted' = accepted + 1
  <2>1. accepted \in 0..MaxAccepted /\ accepted < MaxAccepted /\ accepted' = accepted + 1
    BY DEF Publish, TypeInv, TypeOK
  <2> QED
    BY <2>1, Bounds
<1>3. t \in T /\ t.envelope = e /\ t.number = accepted + 1
  BY <1>1, <1>2
<1>4. queue \in Seq(T) /\ queue' = Append(queue, t)
  BY DEF Publish, TypeInv, TypeOK
<1>5. queue' \in Seq(T) /\ queue' # << >>
  <2> HIDE DEF T, t
  <2> QED
    BY <1>3, <1>4, AppendProperties
<1>6. queue' \in Seq([envelope : Envelopes, number : Nat, hint : Nat])
  BY <1>5
<1> HIDE DEF T, t
<1>7. TypeInv'
  BY <1>1, <1>2, <1>5, <1>6 DEF Publish, TypeInv, TypeOK, cacheVars, readerVars, Taken
<1> QED
  BY <1>2, <1>3, <1>4, <1>7 DEF T

LEMMA IdsFinite == IsFiniteSet(Ids)
<1> DEFINE of == [e \in Envelopes |-> e.id]
<1>1. of \in Surjection(Envelopes, Ids)
  BY DEF Surjection, Ids
<1> QED
  BY <1>1, FS_Surjection, EnvelopeFacts

\* The ids of the stored envelopes and the place of an entry.
LEMMA ListFacts ==
  ASSUME TypeInv
  PROVE  /\ issues \subseteq Nat /\ IsFiniteSet(issues) /\ Cardinality(issues) \in Nat
         /\ \A id : /\ IsFiniteSet({j \in issues : j < id})
                    /\ Listed(id) = Cardinality({j \in issues : j < id})
                    /\ Listed(id) \in Nat
         /\ \A id \in issues : Listed(id) < Cardinality(issues)
         /\ \A a \in Nat : /\ PullPage(a) \subseteq issues /\ IsFiniteSet(PullPage(a))
                           /\ Cardinality(PullPage(a)) \in Nat
<1>1. issues \subseteq Ids /\ issues \subseteq Nat
  BY EnvelopeFacts DEF TypeInv, TypeOK
<1>2. IsFiniteSet(issues)
  BY <1>1, IdsFinite, FS_Subset
<1>3. Cardinality(issues) \in Nat
  BY <1>2, FS_CardinalityType
<1>4. \A id : IsFiniteSet({j \in issues : j < id}) /\ Listed(id) = Cardinality({j \in issues : j < id})
              /\ Listed(id) \in Nat
  BY <1>2, FS_Subset, FS_CardinalityType DEF Listed
<1>5. ASSUME NEW id \in issues PROVE Listed(id) < Cardinality(issues)
  <2> DEFINE before == {j \in issues : j < id}
  <2>1. before \subseteq issues /\ id \in issues /\ id \notin before
    BY <1>1
  <2> HIDE DEF before
  <2>2. Cardinality(before) <= Cardinality(issues) /\ Cardinality(before) # Cardinality(issues)
    BY <1>2, <2>1, FS_Subset
  <2>3. Listed(id) = Cardinality(before) /\ Cardinality(before) \in Nat
    BY <1>4 DEF before
  <2> QED
    BY <1>3, <2>2, <2>3
<1>6. \A a \in Nat : PullPage(a) \subseteq issues /\ IsFiniteSet(PullPage(a))
                     /\ Cardinality(PullPage(a)) \in Nat
  BY <1>2, FS_Subset, FS_CardinalityType DEF PullPage
<1> QED
  BY <1>1, <1>2, <1>3, <1>4, <1>5, <1>6

LEMMA PullTyped == ASSUME TypeInv, Pull \/ PullUnread PROVE TypeInv'
<1>1. puller \in [after : Nat, got : SUBSET Ids] /\ issues \subseteq Ids
  BY DEF TypeInv, TypeOK
<1>2. puller' \in [after : Nat, got : SUBSET Ids]
  <2>1. PICK lost : puller' = [after |-> puller.after + Cardinality(PullPage(puller.after)),
                               got |-> puller.got \cup (PullPage(puller.after) \ lost)]
    BY DEF Pull, PullUnread, Pulled
  <2>2. PullPage(puller.after) \subseteq Ids /\ Cardinality(PullPage(puller.after)) \in Nat
    BY <1>1, ListFacts
  <2> QED
    BY <1>1, <2>1, <2>2
<1>3. trouble' \in 0..MaxTrouble
  BY Bounds DEF Pull, PullUnread, Trouble, TypeInv, TypeOK
<1>4. UNCHANGED <<cacheVars, memory, queueVars, sync, follower, roomVars, sound>>
  BY DEF Pull, PullUnread, Pulled
<1> QED
  BY <1>2, <1>3, <1>4 DEF TypeInv, TypeOK, cacheVars, queueVars, roomVars, Taken

LEMMA OthersTyped == ASSUME TypeInv, PublishOther \/ Restart \/ UNCHANGED vars PROVE TypeInv'
<1>1. CASE PublishOther
  <2>1. room' \in Seq(Envelopes \cup {Other}) /\ Len(room') <= MaxMessages
    BY <1>1, RoomTyped DEF PublishOther
  <2>2. UNCHANGED <<cacheVars, memory, queueVars, readerVars, accepted, trouble, sound>>
    BY <1>1 DEF PublishOther
  <2> QED
    BY <2>1, <2>2 DEF TypeInv, TypeOK, cacheVars, queueVars, readerVars, Taken
<1>2. CASE Restart
  <2>4. trouble \in 0..MaxTrouble /\ trouble < MaxTrouble /\ trouble' = trouble + 1
    BY <1>2 DEF Restart, Trouble, TypeInv, TypeOK
  <2>5. sound' \in BOOLEAN
    BY <1>2, Zenon DEF Restart
  <2>1. trouble' \in 0..MaxTrouble /\ sound' \in BOOLEAN
    BY <2>4, <2>5, Bounds
  <2>2. /\ queue' = << >> /\ queue' \in Seq([envelope : Envelopes, number : Nat, hint : Nat])
        /\ room' \in Seq(Envelopes \cup {Other}) /\ Len(room') = 0
    BY <1>2 DEF Restart
  <2>3. sync' \in [busy : BOOLEAN, page : SUBSET Events, current : Nat] /\ IsFiniteSet(sync'.page)
    BY <1>2, FS_EmptySet DEF Restart, NoSync
  <2> QED
    BY <1>2, <2>1, <2>2, <2>3, StartTyped, Bounds DEF Restart, TypeInv, TypeOK, cacheVars, Taken
<1>3. CASE UNCHANGED vars
  BY <1>3 DEF vars, cacheVars, queueVars, readerVars, roomVars, TypeInv, TypeOK, Taken
<1> QED
  BY <1>1, <1>2, <1>3

LEMMA TypeInitially == Init => TypeInv
<1> SUFFICES ASSUME Init PROVE TypeInv
  OBVIOUS
<1>1. IsFiniteSet(events) /\ IsFiniteSet(sync.page)
  BY FS_EmptySet DEF Init, NoSync
<1>2. sync \in [busy : BOOLEAN, page : SUBSET Events, current : Nat]
  BY DEF Init, NoSync
<1>3. /\ queue \in Seq([envelope : Envelopes, number : Nat, hint : Nat])
      /\ room \in Seq(Envelopes \cup {Other}) /\ Len(room) = 0
  BY DEF Init
<1> QED
  BY <1>1, <1>2, <1>3, StartTyped, Bounds DEF Init, TypeInv, TypeOK, Taken

LEMMA TypeKept == TypeInv /\ [Next]_vars => TypeInv'
BY PutTyped, PutFailsTyped, SnapshotTyped, TakeTyped, SyncTyped, AnswerTyped, PublishTyped,
   PullTyped, OthersTyped
DEF Next, TaskStep, SyncStep

-----------------------------------------------------------------------------
(* The queue *)

\* The running task is the one after those that are over.
LEMMA DoneFacts ==
  ASSUME TypeInv, QueueInv
  PROVE  /\ Done \in Nat /\ accepted \in Nat /\ Len(queue) \in Nat /\ accepted = Done + Len(queue)
         /\ DOMAIN queue = 1..Len(queue) /\ (Busy <=> Len(queue) > 0)
         /\ Busy => Number \in Nat /\ Number = Done + 1
<1>1. /\ Len(queue) \in Nat /\ accepted \in Nat /\ DOMAIN queue = 1..Len(queue)
      /\ Busy <=> Len(queue) > 0
      /\ Busy => Head(queue) = queue[1]
  BY QueueFacts DEF TypeInv
<1>2. Len(queue) <= accepted /\ \A k \in DOMAIN queue : queue[k].number = Done + k
  BY DEF QueueInv
<1>3. Done \in Nat /\ accepted = Done + Len(queue)
  BY <1>1, <1>2 DEF Done
<1>4. Busy => Number = Done + 1
  BY <1>1, <1>2 DEF Number
<1> QED
  BY <1>1, <1>3, <1>4

\* A step leaves the queue, ends its first task, adds one, or is a restart.
LEMMA QueueSteps ==
  ASSUME [Next]_vars
  PROVE  /\ sound' => sound = TRUE
         /\ \/ UNCHANGED <<queue, accepted>>
            \/ Busy /\ Settle /\ UNCHANGED accepted /\ (sound' => At("record"))
            \/ \E e \in Envelopes : Publish(e)
            \/ Restart
<1>1. CASE \E e \in Envelopes : Publish(e)
  BY <1>1 DEF Publish
<1>2. CASE Put
  BY <1>2 DEF Put, Writes, At, Continue, GoTo, roomVars
<1>3. CASE PutFails
  BY <1>3 DEF PutFails, Writes, At, Retry, roomVars
<1>4. CASE KeepSnapshot \/ TakeCursor \/ SnapshotUnread
  BY <1>4 DEF KeepSnapshot, TakeCursor, SnapshotUnread, GoTo, roomVars
<1>5. CASE Sync \/ SyncAnswer
  BY <1>5 DEF Sync, SyncAnswer, queueVars, roomVars
<1>6. CASE Restart
  BY <1>6 DEF Restart
<1>7. CASE PublishOther \/ Pull \/ PullUnread
  BY <1>7 DEF PublishOther, Pull, PullUnread, Pulled, queueVars, roomVars
<1>8. CASE UNCHANGED vars
  BY <1>8 DEF vars, queueVars, roomVars
<1> QED
  BY <1>1, <1>2, <1>3, <1>4, <1>5, <1>6, <1>7, <1>8 DEF Next, TaskStep, SyncStep

LEMMA PublishFacts ==
  ASSUME TypeInv, NEW e \in Envelopes, Publish(e)
  PROVE  /\ accepted' = accepted + 1
         /\ Len(queue') = Len(queue) + 1 /\ DOMAIN queue' = 1..(Len(queue) + 1)
         /\ queue'[Len(queue) + 1].number = accepted + 1
         /\ \A k \in DOMAIN queue : queue'[k] = queue[k]
         /\ queue' # << >> /\ Busy' /\ Head(queue') = queue'[1]
         /\ Busy => Head(queue') = Head(queue)
<1>1. PICK t : /\ t \in [envelope : Envelopes, number : Nat, hint : Nat]
               /\ queue' = Append(queue, t) /\ t.number = accepted + 1
  BY PublishTyped
<1>2. accepted' = accepted + 1
  BY PublishTyped
<1> DEFINE T == [envelope : Envelopes, number : Nat, hint : Nat]
<1>3. queue \in Seq(T) /\ t \in T
  BY <1>1 DEF TypeInv, TypeOK
<1>4. Len(queue') = Len(queue) + 1 /\ queue'[Len(queue) + 1] = t
      /\ \A k \in DOMAIN queue : queue'[k] = queue[k]
  <2> HIDE DEF T
  <2> QED
    BY <1>1, <1>3
<1>5. DOMAIN queue' = 1..(Len(queue) + 1) /\ queue' # << >> /\ Head(queue') = queue'[1]
  <2> HIDE DEF T
  <2> QED
    BY <1>1, <1>3
<1>6. Busy => Head(queue') = Head(queue)
  BY <1>4, <1>5, QueueFacts DEF TypeInv
<1> QED
  BY <1>1, <1>2, <1>4, <1>5, <1>6 DEF Busy

\* A task that is over leaves the queue.
LEMMA SettleFacts ==
  ASSUME TypeInv, Busy, Settle
  PROVE  /\ Len(queue') = Len(queue) - 1 /\ DOMAIN queue' = 1..(Len(queue) - 1) /\ Len(queue) > 0
         /\ \A k \in 1..(Len(queue) - 1) : queue'[k] = queue[k + 1]
<1>1. queue' = Tail(queue) /\ Tail(queue) \in Seq([envelope : Envelopes, number : Nat, hint : Nat])
  BY QueueFacts DEF Settle, TypeInv
<1> QED
  BY <1>1, QueueFacts, LenProperties DEF TypeInv

LEMMA QueueKept ==
  ASSUME TypeInv, QueueInv, [Next]_vars
  PROVE  QueueInv'
<1>1. /\ Done \in Nat /\ accepted \in Nat /\ Len(queue) \in Nat /\ accepted = Done + Len(queue)
      /\ DOMAIN queue = 1..Len(queue)
      /\ \A k \in DOMAIN queue : queue[k].number = Done + k
  BY DoneFacts DEF QueueInv
<1>2. CASE UNCHANGED <<queue, accepted>>
  BY <1>2 DEF QueueInv, Done
<1>3. CASE Busy /\ Settle /\ UNCHANGED accepted
  <2>1. /\ Len(queue') = Len(queue) - 1 /\ DOMAIN queue' = 1..(Len(queue) - 1)
        /\ \A k \in 1..(Len(queue) - 1) : queue'[k] = queue[k + 1]
    BY <1>3, SettleFacts
  <2>2. Done' = Done + 1
    BY <1>1, <1>3, <2>1 DEF Done
  <2>3. ASSUME NEW k \in DOMAIN queue' PROVE queue'[k].number = Done' + k
    <3>1. k \in 1..(Len(queue) - 1) /\ k + 1 \in DOMAIN queue
      BY <1>1, <2>1
    <3>2. queue'[k] = queue[k + 1] /\ queue[k + 1].number = Done + (k + 1)
      BY <1>1, <2>1, <3>1
    <3> QED
      BY <1>1, <2>2, <3>1, <3>2
  <2> QED
    BY <1>1, <1>3, <2>1, <2>3 DEF QueueInv
<1>4. CASE \E e \in Envelopes : Publish(e)
  <2>1. /\ accepted' = accepted + 1
        /\ Len(queue') = Len(queue) + 1 /\ DOMAIN queue' = 1..(Len(queue) + 1)
        /\ queue'[Len(queue) + 1].number = accepted + 1
        /\ \A k \in DOMAIN queue : queue'[k] = queue[k]
    BY <1>4, PublishFacts
  <2>2. Done' = Done
    BY <1>1, <2>1 DEF Done
  <2>3. ASSUME NEW k \in DOMAIN queue' PROVE queue'[k].number = Done' + k
    <3>1. CASE k = Len(queue) + 1
      BY <1>1, <2>1, <2>2, <3>1
    <3>2. CASE k \in DOMAIN queue
      BY <1>1, <2>1, <2>2, <3>2
    <3> QED
      BY <1>1, <2>1, <3>1, <3>2
  <2> QED
    BY <1>1, <2>1, <2>3 DEF QueueInv
<1>5. CASE Restart
  <2>1. Len(queue') = 0 /\ DOMAIN queue' = {} /\ accepted' = accepted
    BY <1>5 DEF Restart
  <2> QED
    BY <1>1, <2>1 DEF QueueInv
<1> QED
  BY <1>2, <1>3, <1>4, <1>5, QueueSteps

\* What a step does to the tasks that are over.
LEMMA DoneMoves ==
  ASSUME TypeInv, QueueInv, [Next]_vars
  PROVE  \/ UNCHANGED <<queue, accepted>> /\ Done' = Done
         \/ Busy /\ Settle /\ Done' = Done + 1 /\ (sound' => At("record"))
         \/ Done' = Done /\ accepted' = accepted + 1 /\ Busy' /\ (Busy => Head(queue') = Head(queue))
            /\ Len(queue') = Len(queue) + 1
         \/ ~Busy' /\ Done' = accepted /\ (sound' => ~Busy)
<1>1. Len(queue) \in Nat /\ accepted \in Nat
  BY DoneFacts
<1>2. CASE UNCHANGED <<queue, accepted>>
  BY <1>2 DEF Done
<1>3. CASE Busy /\ Settle /\ UNCHANGED accepted /\ (sound' => At("record"))
  <2>1. Len(queue') = Len(queue) - 1 /\ accepted' = accepted
    BY <1>3, SettleFacts
  <2>2. Done' = Done + 1
    BY <1>1, <2>1 DEF Done
  <2> QED
    BY <1>3, <2>2
<1>4. CASE \E e \in Envelopes : Publish(e)
  <2>1. /\ accepted' = accepted + 1 /\ Len(queue') = Len(queue) + 1 /\ Busy'
        /\ Busy => Head(queue') = Head(queue)
    BY <1>4, PublishFacts
  <2>2. Done' = Done
    BY <1>1, <2>1 DEF Done
  <2> QED
    BY <2>1, <2>2
<1>5. CASE Restart
  <2>1. queue' = << >> /\ Len(queue') = 0 /\ accepted' = accepted
    BY <1>5 DEF Restart
  <2>2. Done' = accepted /\ ~Busy'
    BY <1>1, <2>1 DEF Done, Busy
  <2>3. sound' => ~Busy
    BY <1>5, Zenon DEF Restart
  <2> QED
    BY <2>2, <2>3
<1> QED
  BY <1>2, <1>3, <1>4, <1>5, QueueSteps

LEMMA NextDone ==
  ASSUME TypeInv', QueueInv'
  PROVE  Done' \in Nat /\ (Busy' => Number' = Done' + 1)
<1>1. queue' \in Seq([envelope : Envelopes, number : Nat, hint : Nat])
      /\ accepted' \in 0..MaxAccepted
  BY DEF TypeInv, TypeOK
<1>2. Len(queue') \in Nat /\ DOMAIN queue' = 1..Len(queue')
  BY <1>1, LenProperties
<1>3. Len(queue') <= accepted' /\ \A k \in DOMAIN queue' : queue'[k].number = Done' + k
  BY DEF QueueInv
<1>4. Done' \in Nat
  BY <1>1, <1>2, <1>3, Bounds DEF Done
<1>5. Busy' => Head(queue') = queue'[1] /\ Len(queue') > 0
  BY <1>1, <1>2, EmptySeq, HeadTailProperties DEF Busy
<1>6. Busy' => Number' = Done' + 1
  BY <1>2, <1>3, <1>5 DEF Number
<1> QED
  BY <1>4, <1>6

\* A task, once over, stays over, and is over after its last write.
LEMMA OverStays ==
  ASSUME TypeInv, QueueInv, EventInv, [Next]_vars, TypeInv', QueueInv', NEW x \in events
  PROVE  /\ x.number <= Done' + (IF Busy' THEN 1 ELSE 0)
         /\ ~Over(x)' => /\ ~Over(x) /\ Busy /\ Head(queue') = Head(queue)
                          /\ Len(queue') >= Len(queue)
         /\ sound' /\ Over(x)' => Over(x) \/ At("record")
<1>1. /\ x.number \in Nat /\ Done \in Nat /\ Done' \in Nat /\ accepted = Done + Len(queue)
      /\ Len(queue) \in Nat
      /\ x.number <= Done + (IF Busy THEN 1 ELSE 0)
      /\ Busy => Number = Done + 1 /\ Len(queue) > 0
      /\ ~Busy => Len(queue) = 0
      /\ Busy' => Number' = Done' + 1
  <2>1. x.number \in Nat
    BY DEF TypeInv, TypeOK, Events
  <2>2. Done' \in Nat /\ (Busy' => Number' = Done' + 1)
    BY NextDone
  <2> QED
    BY <2>1, <2>2, DoneFacts DEF EventInv
<1>2. CASE UNCHANGED <<queue, accepted>> /\ Done' = Done
  BY <1>1, <1>2 DEF Over, Busy, Number
<1>3. CASE Busy /\ Settle /\ Done' = Done + 1 /\ (sound' => At("record"))
  <2>1. x.number <= Done' /\ Over(x)'
    BY <1>1, <1>3 DEF Over
  <2> QED
    BY <1>1, <1>3, <2>1
<1>4. CASE Done' = Done /\ accepted' = accepted + 1 /\ Busy' /\ (Busy => Head(queue') = Head(queue))
           /\ Len(queue') = Len(queue) + 1
  <2>1. CASE Busy
    BY <1>1, <1>4, <2>1 DEF Over, Number
  <2>2. CASE ~Busy
    BY <1>1, <1>4, <2>2 DEF Over
  <2> QED
    BY <2>1, <2>2
<1>5. CASE ~Busy' /\ Done' = accepted /\ (sound' => ~Busy)
  BY <1>1, <1>5 DEF Over
<1> QED
  BY <1>2, <1>3, <1>4, <1>5, DoneMoves

-----------------------------------------------------------------------------
(* Events and their order *)

\* Only the running task adds an event, under the cursor it has.
LEMMA EventsChange ==
  ASSUME [Next]_vars, TypeInv
  PROVE  \/ events' = events
         \/ /\ At("event") /\ Taken /\ Busy /\ WriteEvent
            /\ UNCHANGED <<record, memory, sync, follower, accepted>>
            /\ queue' = queue \/ Settle
            /\ sound' => /\ queue' = queue
                         /\ \/ task' = [task EXCEPT !.phase = "snapshot"]
                            \/ task' = [Start EXCEPT !.attempt = task.attempt + 1]
<1>1. CASE Put
  <2>1. CASE At("event")
    BY <1>1, <2>1 DEF Put, Write, Continue, At, WriteEvent, GoTo, Taken, readerVars, roomVars
  <2>2. CASE ~At("event")
    BY <1>1, <2>2 DEF Put, Write, WriteEnvelope, WriteSnapshot, WriteRecord
  <2> QED
    BY <2>1, <2>2
<1>2. CASE PutFails
  <2>1. /\ queue' = queue \/ Settle
        /\ sound' => task' = [Start EXCEPT !.attempt = task.attempt + 1] /\ queue' = queue
    BY <1>2 DEF PutFails, Retry
  <2>2. CASE At("event") /\ Write
    BY <1>2, <2>1, <2>2 DEF PutFails, Write, At, WriteEvent, Taken, readerVars, roomVars
  <2>3. CASE ~At("event") /\ Write
    BY <2>3 DEF Write, WriteEnvelope, WriteSnapshot, WriteRecord
  <2>4. CASE UNCHANGED cacheVars
    BY <2>4 DEF cacheVars
  <2> QED
    BY <1>2, <2>2, <2>3, <2>4 DEF PutFails
<1> QED
  BY <1>1, <1>2 DEF Next, TaskStep, SyncStep, Publish, PublishOther, KeepSnapshot, TakeCursor,
     SnapshotUnread, WriteSnapshot, Sync, SyncAnswer, Pull, PullUnread, Pulled, Restart, vars,
     cacheVars

\* While no trouble is met, the only event that is written again is the same one.
LEMMA EventAdded ==
  ASSUME TypeInv, EventInv, CursorInv, sound, Taken, Busy, WriteEvent
  PROVE  events' = events \cup {NewEvent}
<1>1. ASSUME NEW x \in events, x.cursor = task.cursor, x.envelope = Envelope
      PROVE  x = NewEvent
  <2>1. x \in Events /\ x.cursor \in Nat /\ record \in Nat
    BY DEF TypeInv, TypeOK, Events
  <2>2. ~Over(x)
    BY <1>1, <2>1 DEF CursorInv
  <2>3. x.number = Number
    BY <2>2 DEF Over
  <2>4. x = [cursor |-> x.cursor, envelope |-> x.envelope, number |-> x.number]
    BY <2>1 DEF Events
  <2> QED
    BY <1>1, <2>3, <2>4 DEF NewEvent
<1>2. events' = {x \in events : ~(x.cursor = task.cursor /\ x.envelope = Envelope)} \cup {NewEvent}
  BY DEF WriteEvent, NewEvent
<1> QED
  BY <1>1, <1>2

LEMMA EventKept ==
  ASSUME TypeInv, QueueInv, EventInv, [Next]_vars, QueueInv', TypeInv'
  PROVE  EventInv'
<1> SUFFICES ASSUME NEW x \in events'
             PROVE  /\ x.number <= Done' + (IF Busy' THEN 1 ELSE 0)
                    /\ ~Over(x)' => x.envelope = Envelope'
  BY DEF EventInv
<1>1. CASE x \in events
  <2>1. x.number <= Done' + (IF Busy' THEN 1 ELSE 0)
    BY <1>1, OverStays
  <2>2. ~Over(x)' => ~Over(x) /\ Head(queue') = Head(queue)
    BY <1>1, OverStays
  <2> QED
    BY <1>1, <2>1, <2>2 DEF EventInv, Envelope
<1>2. CASE x \notin events
  <2>1. At("event") /\ Busy /\ WriteEvent /\ UNCHANGED accepted /\ (queue' = queue \/ Settle)
    BY <1>2, EventsChange
  <2>2. x = NewEvent /\ x.number = Number /\ x.envelope = Envelope
    BY <1>2, <2>1 DEF WriteEvent, NewEvent
  <2>3. Done \in Nat /\ Number = Done + 1 /\ Done' \in Nat /\ (Busy' => Number' = Done' + 1)
    <3>1. Done' \in Nat /\ (Busy' => Number' = Done' + 1)
      BY NextDone
    <3> QED
      BY <2>1, <3>1, DoneFacts
  <2>4. CASE queue' = queue
    BY <2>1, <2>2, <2>3, <2>4 DEF Busy, Done, Envelope
  <2>5. CASE Settle
    <3>1. Done' = Done + 1
      BY <2>1, <2>5, SettleFacts, DoneFacts DEF Done
    <3> QED
      BY <2>2, <2>3, <3>1 DEF Over
  <2> QED
    BY <2>1, <2>4, <2>5
<1> QED
  BY <1>1, <1>2

LEMMA OrderKept ==
  ASSUME TypeInv, QueueInv, EventInv, CursorInv, EventsInOrder, [Next]_vars
  PROVE  EventsInOrder'
<1> SUFFICES ASSUME sound', NEW x \in events', NEW y \in events', x.number < y.number
             PROVE  x.cursor < y.cursor
  BY DEF EventsInOrder
<1>1. sound
  BY QueueSteps
<1>2. CASE x \in events /\ y \in events
  BY <1>1, <1>2 DEF EventsInOrder
<1>3. CASE events' # events
  <2>1. At("event") /\ Taken /\ Busy /\ events' = events \cup {NewEvent}
    BY <1>1, <1>3, EventsChange, EventAdded
  <2>2. NewEvent.number = Number /\ NewEvent.cursor = task.cursor /\ Number = Done + 1 /\ Done \in Nat
    BY <2>1, DoneFacts DEF NewEvent
  <2>3. \A z \in events : /\ z.number \in Nat /\ z.number <= Number
                          /\ z.number < Number => z.cursor < task.cursor
    <3> SUFFICES ASSUME NEW z \in events
                 PROVE  /\ z.number \in Nat /\ z.number <= Number
                        /\ z.number < Number => z.cursor < task.cursor
      OBVIOUS
    <3>1. z.number \in Nat /\ z.cursor \in Nat /\ record \in Nat /\ task.cursor \in Nat
      BY DEF TypeInv, TypeOK, Events
    <3>2. z.number <= Done + 1
      BY <2>1 DEF EventInv
    <3>3. Over(z) => z.cursor <= record /\ record < task.cursor
      BY <1>1, <2>1 DEF CursorInv
    <3>4. z.number < Number => Over(z)
      BY <2>2, <3>1 DEF Over
    <3> QED
      BY <2>2, <3>1, <3>2, <3>3, <3>4
  <2>4. x \in events \/ x = NewEvent
    BY <2>1
  <2>5. y \in events \/ y = NewEvent
    BY <2>1
  <2>6. CASE x = NewEvent
    BY <2>2, <2>3, <2>5, <2>6
  <2>7. CASE x \in events /\ y = NewEvent
    BY <2>2, <2>3, <2>7
  <2> QED
    BY <1>2, <2>4, <2>5, <2>6, <2>7
<1> QED
  BY <1>2, <1>3

-----------------------------------------------------------------------------
(* The cursor *)

LEMMA NumberFacts ==
  ASSUME TypeInv
  PROVE  /\ memory \in Nat /\ record \in Nat /\ task.cursor \in Nat
         /\ task.attempt \in 0..MaxRetries /\ task.attempt \in Nat
         /\ task \in [phase : Phases, attempt : 0..MaxRetries, cursor : Nat]
         /\ sync \in [busy : BOOLEAN, page : SUBSET Events, current : Nat]
         /\ \A x \in events : x.cursor \in Nat \ {0} /\ x.number \in Nat /\ x.envelope \in Envelopes
         /\ ~Busy => ~Taken /\ task.attempt = 0
         /\ \A read \in Nat : Current(read) = (IF memory >= read THEN memory ELSE read)
         /\ Busy => /\ Upcoming \in Nat /\ memory < Upcoming /\ record < Upcoming
                    /\ Head(queue).hint \in Nat /\ Head(queue).hint <= Upcoming
                    /\ NextCursor(record, Head(queue).hint) \in Nat
                    /\ NextCursor(record, Head(queue).hint) <= Upcoming
                    /\ memory <= record => Upcoming = NextCursor(record, Head(queue).hint)
<1>1. /\ memory \in Nat /\ record \in Nat
      /\ task \in [phase : Phases, attempt : 0..MaxRetries, cursor : Nat]
      /\ \A x \in events : x.cursor \in Nat \ {0} /\ x.number \in Nat /\ x.envelope \in Envelopes
      /\ sync \in [busy : BOOLEAN, page : SUBSET Events, current : Nat]
      /\ MaxRetries \in Nat
  BY Bounds DEF TypeInv, TypeOK, Events
<1>2. ~Busy => task = Start
  BY DEF TypeInv, TypeOK, Busy
<1>3. \A read \in Nat : Current(read) = (IF memory >= read THEN memory ELSE read)
  BY <1>1, CursorFacts
<1>4. ASSUME Busy
      PROVE  /\ Upcoming \in Nat /\ memory < Upcoming /\ record < Upcoming
             /\ Head(queue).hint \in Nat /\ Head(queue).hint <= Upcoming
             /\ NextCursor(record, Head(queue).hint) \in Nat
             /\ NextCursor(record, Head(queue).hint) <= Upcoming
             /\ memory <= record => Upcoming = NextCursor(record, Head(queue).hint)
  <2> DEFINE h == Head(queue).hint
  <2>1. h \in Nat
    BY <1>4, QueueFacts DEF TypeInv
  <2>2. Current(record) \in Nat
    BY <1>1, CursorFacts
  <2> HIDE DEF h
  <2>3. /\ NextCursor(record, h) = IF record >= h - 1 THEN record + 1 ELSE h
        /\ NextCursor(Current(record), h)
             = IF Current(record) >= h - 1 THEN Current(record) + 1 ELSE h
    BY <1>1, <2>1, <2>2, CursorFacts
  <2>4. Upcoming = NextCursor(Current(record), h)
    BY DEF Upcoming, h
  <2> QED
    BY <1>1, <1>3, <2>1, <2>3, <2>4 DEF h
<1> QED
  BY <1>1, <1>2, <1>3, <1>4, StartTyped DEF Taken

CursorsInv == CursorInv /\ MemoryInv

LEMMA TakeKeepsCursors ==
  ASSUME ProjectionInv, TakeCursor, sound', TypeInv'
  PROVE  CursorsInv'
<1>1. /\ sound /\ At("cursor") /\ Busy /\ memory' = Upcoming
      /\ task' = [task EXCEPT !.phase = "event", !.cursor = memory']
      /\ UNCHANGED <<cacheVars, queue, sync>>
  BY DEF TakeCursor, Upcoming, At, readerVars
<1>2. TypeInv /\ CursorInv /\ MemoryInv
  BY DEF ProjectionInv
<1>3. /\ task'.cursor = Upcoming /\ task'.attempt = task.attempt /\ Taken' /\ ~Taken
  BY <1>1, <1>2, NumberFacts DEF Taken, At
<1>4. CursorInv'
  <2>1. \A x \in events : Over(x)' = Over(x)
    BY <1>1 DEF Over, Busy, Number
  <2> QED
    BY <1>1, <1>2, <1>3, <2>1, NumberFacts DEF CursorInv, cacheVars
<1>5. sync.busy => sync.current <= Upcoming
  BY <1>1, <1>2, <1>3, NumberFacts DEF MemoryInv
<1>6. task.attempt = 0 => memory <= record
  BY <1>1, <1>2, <1>3 DEF MemoryInv
<1>7. MemoryInv'
  BY <1>1, <1>2, <1>3, <1>5, <1>6, NumberFacts DEF MemoryInv, cacheVars
<1> QED
  BY <1>4, <1>7 DEF CursorsInv

LEMMA SyncKeepsCursors ==
  ASSUME ProjectionInv, Sync \/ SyncAnswer, sound', TypeInv'
  PROVE  CursorsInv'
<1>1. sound /\ UNCHANGED <<cacheVars, queue, task>>
  BY DEF Sync, SyncAnswer, queueVars
<1>2. TypeInv /\ CursorInv /\ MemoryInv
  BY DEF ProjectionInv
<1>3. /\ Taken' = Taken /\ (Busy' <=> Busy) /\ Head(queue') = Head(queue)
      /\ \A x \in events : Over(x)' = Over(x)
      /\ events' = events /\ record' = record /\ task' = task
  BY <1>1 DEF Over, Busy, Number, Taken, cacheVars
<1>4. CASE Sync
  <2>1. memory' = memory /\ ~sync.busy
        /\ (sync'.current = Current(record) \/ sync'.current = Current(0))
    <3>1. memory' = memory /\ ~sync.busy
      BY <1>4 DEF Sync
    <3>2. PICK P : \/ sync' = [busy |-> TRUE, page |-> P, current |-> Current(record)]
                   \/ sync' = [busy |-> TRUE, page |-> P, current |-> Current(0)]
      BY <1>4, Zenon DEF Sync
    <3> QED
      BY <3>1, <3>2
  <2>2. Upcoming' = Upcoming
    BY <1>3, <2>1 DEF Upcoming, Current
  <2>3. CursorInv'
    BY <1>1, <1>2, <1>3, <2>1, <2>2 DEF CursorInv
  <2>4. sync'.current <= memory \/ sync'.current <= record
    BY <1>2, <2>1, NumberFacts
  <2>5. sync'.current \in Nat
    BY DEF TypeInv, TypeOK
  <2>6. Taken => memory <= task.cursor /\ record < task.cursor
    BY <1>1, <1>2 DEF MemoryInv, CursorInv
  <2>7. ~Taken /\ task.attempt = 0 => memory <= record
    BY <1>1, <1>2 DEF MemoryInv
  <2>8. /\ Taken => sync'.current <= task.cursor
        /\ ~Taken /\ task.attempt = 0 => sync'.current <= record
        /\ ~Taken /\ task.attempt > 0 => sync'.current <= Upcoming
    BY <1>2, <2>4, <2>5, <2>6, <2>7, NumberFacts
  <2>9. MemoryInv'
    BY <1>1, <1>2, <1>3, <2>1, <2>2, <2>8 DEF MemoryInv
  <2> QED
    BY <2>3, <2>9 DEF CursorsInv
<1>5. CASE SyncAnswer
  <2>1. /\ sync.busy /\ memory' = sync.current /\ ~sync'.busy
        /\ task.attempt > 0 => sync.current >= memory
    BY <1>5 DEF SyncAnswer, NoSync
  <2>2. sync.current \in Nat
    BY <1>2, NumberFacts
  <2>3. ~Taken /\ task.attempt = 0 => memory <= record /\ memory' <= record
    BY <1>1, <1>2, <2>1 DEF MemoryInv
  <2>4. Busy => Upcoming' \in Nat /\ NextCursor(Current(record), Head(queue).hint) = Upcoming
               /\ Upcoming' = NextCursor(IF sync.current >= record THEN sync.current ELSE record,
                                         Head(queue).hint)
    <3>1. Current(record)' = IF sync.current >= record THEN sync.current ELSE record
      BY <1>2, <1>3, <2>1, <2>2, NumberFacts, MaxOfTwo DEF Current
    <3>2. Upcoming' = NextCursor(Current(record)', Head(queue).hint)
      BY <1>3 DEF Upcoming
    <3>3. Busy => Head(queue).hint \in Nat
      BY <1>2, NumberFacts
    <3>4. Current(record)' \in Nat
      BY <1>2, <2>2, <3>1, NumberFacts
    <3> QED
      BY <1>2, <3>1, <3>2, <3>3, <3>4, NumberFacts, CursorFacts DEF Upcoming
  <2>5. Busy /\ ~Taken => Upcoming' >= Upcoming
    <3> SUFFICES ASSUME Busy, ~Taken PROVE Upcoming' >= Upcoming
      OBVIOUS
    <3> DEFINE h == Head(queue).hint
               a == Current(record)
               c == IF sync.current >= record THEN sync.current ELSE record
    <3>1. h \in Nat /\ c \in Nat /\ a \in Nat /\ memory \in Nat
          /\ a = IF memory >= record THEN memory ELSE record
      BY <1>2, <2>2, NumberFacts
    <3>2. c >= a
      BY <1>2, <2>1, <2>2, <2>3, <3>1, NumberFacts
    <3>3. Upcoming = NextCursor(a, h) /\ Upcoming' = NextCursor(c, h)
      BY <2>4
    <3> HIDE DEF a, c, h
    <3>4. NextCursor(c, h) >= NextCursor(a, h)
      <4>1. /\ NextCursor(a, h) = IF a >= h - 1 THEN a + 1 ELSE h
            /\ NextCursor(c, h) = IF c >= h - 1 THEN c + 1 ELSE h
            /\ NextCursor(a, h) \in Nat /\ NextCursor(c, h) \in Nat
        BY <1>2, <3>1, CursorFacts, NumberFacts
      <4>2. \A k, l, g \in Nat :
              k >= l => (IF k >= g - 1 THEN k + 1 ELSE g) >= (IF l >= g - 1 THEN l + 1 ELSE g)
        OBVIOUS
      <4>3. (IF c >= h - 1 THEN c + 1 ELSE h) >= (IF a >= h - 1 THEN a + 1 ELSE h)
        BY <3>1, <3>2, <4>2
      <4> QED
        BY <4>1, <4>3, Zenon
    <3> QED
      BY <3>3, <3>4
  <2>6. CursorInv'
    <3>1. ASSUME NEW x \in events, ~Over(x)
          PROVE  x.cursor <= IF Taken THEN task.cursor ELSE Upcoming'
      <4>1. Busy /\ x.cursor \in Nat /\ Upcoming \in Nat
        BY <1>2, <3>1, NumberFacts DEF Over
      <4>2. x.cursor <= IF Taken THEN task.cursor ELSE Upcoming
        BY <1>1, <1>2, <3>1 DEF CursorInv
      <4> QED
        BY <2>4, <2>5, <4>1, <4>2
    <3> QED
      BY <1>1, <1>2, <1>3, <3>1 DEF CursorInv
  <2>7. Taken => memory' <= task.cursor
    BY <1>1, <1>2, <2>1 DEF MemoryInv
  <2>8. Taken /\ task.attempt > 0 => task.cursor <= memory'
    BY <1>1, <1>2, <2>1, <2>2, NumberFacts DEF MemoryInv
  <2>9. MemoryInv'
    BY <1>1, <1>2, <1>3, <2>1, <2>3, <2>7, <2>8 DEF MemoryInv
  <2> QED
    BY <2>6, <2>9 DEF CursorsInv
<1> QED
  BY <1>4, <1>5

\* Nothing the cursors depend on changes.
LEMMA SameCursors ==
  ASSUME CursorsInv, sound, UNCHANGED <<events, record, memory, queue, sync>>,
         Taken' <=> Taken, task'.attempt = task.attempt, task'.cursor = task.cursor
  PROVE  CursorsInv'
<1>1. Upcoming' = Upcoming /\ \A x : Over(x)' = Over(x)
  BY DEF Upcoming, Current, Over, Busy, Number
<1>2. Head(queue') = Head(queue)
  OBVIOUS
<1> QED
  BY <1>1, <1>2 DEF CursorsInv, CursorInv, MemoryInv

LEMMA PutKeepsCursors ==
  ASSUME ProjectionInv, Put \/ KeepSnapshot, sound', [Next]_vars, TypeInv', QueueInv'
  PROVE  CursorsInv'
<1>1. sound /\ UNCHANGED <<memory, sync>>
  BY QueueSteps DEF Put, KeepSnapshot, readerVars
<1>2. TypeInv /\ QueueInv /\ EventInv /\ CursorInv /\ MemoryInv /\ CursorsInv
  BY DEF ProjectionInv, CursorsInv
<1>3. CASE \/ Put /\ (At("envelope") \/ At("snapshot"))
           \/ KeepSnapshot
  <2>1. UNCHANGED <<events, record, queue>> /\ (GoTo("cursor") \/ GoTo("record"))
        /\ (GoTo("cursor") => At("envelope")) /\ (GoTo("record") => At("snapshot"))
    BY <1>3, NumberFacts, <1>2
    DEF Put, KeepSnapshot, Write, Continue, At, WriteEnvelope, WriteSnapshot, GoTo, cacheVars
  <2>2. (Taken' <=> Taken) /\ task'.attempt = task.attempt /\ task'.cursor = task.cursor
    BY <1>2, <2>1, NumberFacts DEF GoTo, Taken, At
  <2> QED
    BY <1>1, <1>2, <2>1, <2>2, SameCursors
<1>4. CASE Put /\ At("event")
  <2>1. /\ events' = events \cup {NewEvent} /\ UNCHANGED <<record, queue>>
        /\ task' = [task EXCEPT !.phase = "snapshot"]
    <3>1. /\ WriteEvent /\ Busy /\ Taken /\ UNCHANGED <<record, queue>>
          /\ task' = [task EXCEPT !.phase = "snapshot"]
      BY <1>4 DEF Put, Write, Continue, At, WriteEvent, GoTo, Taken
    <3> QED
      BY <1>1, <1>2, <3>1, EventAdded
  <2>2. Taken /\ Taken' /\ task'.attempt = task.attempt /\ task'.cursor = task.cursor
        /\ Busy
    BY <1>2, <1>4, <2>1, NumberFacts DEF Taken, At
  <2>3. \A x : Over(x)' = Over(x)
    BY <2>1 DEF Over, Busy, Number
  <2>4. ~Over(NewEvent) /\ NewEvent.cursor = task.cursor /\ task.cursor \in Nat
    BY <1>2, <2>2, NumberFacts DEF Over, NewEvent
  <2>5. CursorInv'
    <3>1. ASSUME NEW x \in events'
          PROVE  /\ Over(x) => x.cursor <= record
                 /\ ~Over(x) => x.cursor <= task.cursor
      <4>1. CASE x \in events
        BY <1>1, <1>2, <2>2, <4>1 DEF CursorInv
      <4>2. CASE x = NewEvent
        BY <2>4, <4>2
      <4> QED
        BY <2>1, <4>1, <4>2
    <3> QED
      BY <1>1, <1>2, <2>1, <2>2, <2>3, <3>1 DEF CursorInv
  <2>6. MemoryInv'
    BY <1>1, <1>2, <2>1, <2>2 DEF MemoryInv
  <2> QED
    BY <2>5, <2>6 DEF CursorsInv
<1>5. CASE Put /\ At("record")
  <2>1. events' = events /\ record' = task.cursor /\ Settle /\ task' = Start /\ Taken /\ ~Taken'
    BY <1>5, StartTyped DEF Put, Write, Continue, At, WriteRecord, Settle, Taken
  <2>2. \A x \in events : Over(x)'
    <3> SUFFICES ASSUME NEW x \in events PROVE Over(x)'
      OBVIOUS
    <3>1. /\ Busy /\ Len(queue) \in Nat /\ Len(queue') = Len(queue) - 1
      BY <1>2, <1>5, <2>1, SettleFacts, QueueFacts DEF At, TypeInv
    <3>2. ~Over(x)' => Len(queue') >= Len(queue)
      BY <1>2, OverStays
    <3> QED
      BY <3>1, <3>2
  <2>3. \A x \in events : x.cursor <= record'
    BY <1>1, <1>2, <2>1, NumberFacts DEF CursorInv
  <2>4. memory <= record' /\ (sync.busy => sync.current <= record') /\ task'.attempt = 0
    BY <1>1, <1>2, <2>1, StartTyped DEF MemoryInv
  <2>5. CursorInv'
    BY <2>1, <2>2, <2>3 DEF CursorInv
  <2>6. MemoryInv'
    BY <1>1, <2>1, <2>4 DEF MemoryInv
  <2> QED
    BY <2>5, <2>6 DEF CursorsInv
<1> QED
  BY <1>3, <1>4, <1>5 DEF Put, Writes

LEMMA NextCursorGrows ==
  ASSUME memory \in Nat, NEW a \in Nat, NEW b \in Nat, NEW h \in Nat, a <= b
  PROVE  NextCursor(a, h) <= NextCursor(b, h)
<1>1. /\ NextCursor(a, h) = IF a >= h - 1 THEN a + 1 ELSE h
      /\ NextCursor(b, h) = IF b >= h - 1 THEN b + 1 ELSE h
  BY CursorFacts
<1>2. (IF a >= h - 1 THEN a + 1 ELSE h) <= (IF b >= h - 1 THEN b + 1 ELSE h)
  OBVIOUS
<1> QED
  BY <1>1, <1>2, Zenon

LEMMA FailureKeepsCursors ==
  ASSUME ProjectionInv, PutFails, sound', [Next]_vars, TypeInv'
  PROVE  CursorsInv'
<1>1. /\ sound /\ UNCHANGED <<memory, sync, queue>> /\ Busy
      /\ task' = [Start EXCEPT !.attempt = task.attempt + 1]
  BY QueueSteps DEF PutFails, Retry, Writes, At, readerVars
<1>2. TypeInv /\ QueueInv /\ EventInv /\ CursorInv /\ MemoryInv
  BY DEF ProjectionInv
<1>3. ~Taken' /\ task'.attempt = task.attempt + 1 /\ task'.attempt > 0
      /\ task.attempt \in Nat
  BY <1>1, <1>2, StartTyped, NumberFacts DEF Taken, Start
<1>4. /\ record' = record \/ (record' = task.cursor /\ Taken)
      /\ events' = events \/ (events' = events \cup {NewEvent} /\ Taken)
      /\ record <= record'
  <2>1. CASE Write
    <3>3. \/ UNCHANGED <<record, events>>
          \/ record' = record /\ WriteEvent /\ Taken
          \/ record' = task.cursor /\ events' = events /\ Taken
      BY <2>1 DEF Write, At, WriteEnvelope, WriteEvent, WriteSnapshot, WriteRecord, Taken
    <3>1. \/ UNCHANGED <<record, events>>
          \/ record' = record /\ events' = events \cup {NewEvent} /\ Taken
          \/ record' = task.cursor /\ events' = events /\ Taken
      BY <1>1, <1>2, <3>3, EventAdded
    <3>2. Taken => record < task.cursor
      BY <1>1, <1>2 DEF CursorInv
    <3> QED
      BY <1>2, <3>1, <3>2, NumberFacts
  <2>2. CASE UNCHANGED cacheVars
    BY <1>2, <2>2, NumberFacts DEF cacheVars
  <2> QED
    BY <2>1, <2>2 DEF PutFails
<1>5. Upcoming \in Nat /\ Upcoming' \in Nat /\ Upcoming <= Upcoming'
  <2> DEFINE h == Head(queue).hint
             a == Current(record)
             b == Current(record)'
  <2>1. h \in Nat /\ a \in Nat /\ b \in Nat /\ record' \in Nat /\ memory \in Nat
        /\ record \in Nat
    <3>1. record' \in Nat /\ b = Current(record')
      BY <1>1 DEF TypeInv, TypeOK, Current
    <3> QED
      BY <1>1, <1>2, <3>1, NumberFacts, CursorFacts
  <2>2. a = (IF memory >= record THEN memory ELSE record)
        /\ b = (IF memory >= record' THEN memory ELSE record')
    BY <1>1, <1>2, <2>1, NumberFacts, MaxOfTwo DEF Current
  <2>3. Upcoming = NextCursor(a, h) /\ Upcoming' = NextCursor(b, h)
    BY <1>1 DEF Upcoming
  <2> HIDE DEF a, b, h
  <2>4. a <= b
    BY <1>4, <2>1, <2>2
  <2> QED
    BY <2>1, <2>3, <2>4, NextCursorGrows, CursorFacts
<1>6. Taken => task.cursor <= Upcoming
  <2>1. task.attempt = 0 \/ task.attempt > 0
    BY <1>3
  <2> QED
    BY <1>1, <1>2, <2>1, NumberFacts DEF MemoryInv
<1>7. \A x : Over(x)' = Over(x)
  BY <1>1 DEF Over, Busy, Number
<1>8. CursorInv'
  <2>1. ASSUME NEW x \in events'
        PROVE  (Over(x) => x.cursor <= record') /\ (~Over(x) => x.cursor <= Upcoming')
    <3>1. CASE x \in events
      <4>1. x.cursor \in Nat /\ record \in Nat /\ task.cursor \in Nat /\ record' \in Nat
        BY <1>2, <3>1, NumberFacts DEF TypeInv, TypeOK
      <4>2. Over(x) => x.cursor <= record
        BY <1>1, <1>2, <3>1 DEF CursorInv
      <4>3. ~Over(x) => x.cursor <= (IF Taken THEN task.cursor ELSE Upcoming)
        BY <1>1, <1>2, <3>1 DEF CursorInv
      <4> QED
        BY <1>4, <1>5, <1>6, <4>1, <4>2, <4>3
    <3>2. CASE x = NewEvent /\ Taken
      <4>1. ~Over(x) /\ x.cursor = task.cursor
        BY <1>1, <3>2 DEF Over, NewEvent
      <4> QED
        BY <1>2, <1>5, <1>6, <3>2, <4>1, NumberFacts
    <3> QED
      BY <1>4, <3>1, <3>2
  <2> QED
    BY <1>3, <1>7, <2>1 DEF CursorInv
<1>9. sync.busy => sync.current <= Upcoming'
  <2>1. /\ Taken => (sync.busy => sync.current <= task.cursor)
        /\ ~Taken /\ task.attempt = 0 => (sync.busy => sync.current <= record)
        /\ ~Taken /\ task.attempt > 0 => (sync.busy => sync.current <= Upcoming)
    BY <1>1, <1>2 DEF MemoryInv
  <2>2. record < Upcoming /\ record \in Nat /\ sync.current \in Nat /\ task.cursor \in Nat
        /\ (task.attempt = 0 \/ task.attempt > 0)
    BY <1>1, <1>2, <1>3, NumberFacts
  <2> QED
    BY <1>5, <1>6, <2>1, <2>2
<1>10. MemoryInv'
  BY <1>1, <1>3, <1>9 DEF MemoryInv
<1> QED
  BY <1>8, <1>10 DEF CursorsInv

LEMMA PublishKeepsCursors ==
  ASSUME ProjectionInv, sound', [Next]_vars, TypeInv', QueueInv', NEW e \in Envelopes, Publish(e)
  PROVE  CursorsInv'
<1>1. TypeInv /\ QueueInv /\ EventInv /\ CursorInv /\ MemoryInv /\ CursorsInv /\ sound
  BY QueueSteps DEF ProjectionInv, CursorsInv
<1>2. UNCHANGED <<events, record, memory, task, sync>> /\ Taken' = Taken
  BY DEF Publish, cacheVars, readerVars, Taken
<1>3. \A x \in events : ~Over(x)' => ~Over(x)
  BY <1>1, OverStays
<1>4. CASE Busy
  <2>1. Head(queue') = Head(queue) /\ Busy'
    BY <1>1, <1>4, PublishFacts
  <2>2. Upcoming' = Upcoming /\ \A x : Over(x)' = Over(x)
    BY <1>2, <1>4, <2>1 DEF Upcoming, Current, Over, Number
  <2> QED
    BY <1>1, <1>2, <2>1, <2>2 DEF CursorsInv, CursorInv, MemoryInv
<1>5. CASE ~Busy
  <2>1. ~Taken /\ task.attempt = 0 /\ \A x \in events : Over(x)
    BY <1>1, <1>5, NumberFacts DEF Over
  <2> QED
    BY <1>1, <1>2, <1>3, <2>1 DEF CursorsInv, CursorInv, MemoryInv
<1> QED
  BY <1>4, <1>5

LEMMA OthersKeepCursors ==
  ASSUME ProjectionInv, sound', [Next]_vars,
         PublishOther \/ Pull \/ PullUnread \/ Restart \/ UNCHANGED vars
  PROVE  CursorsInv'
<1>1. TypeInv /\ CursorInv /\ MemoryInv /\ CursorsInv /\ sound
  BY QueueSteps DEF ProjectionInv, CursorsInv
<1>2. CASE Restart
  <2>1. /\ UNCHANGED <<events, record>> /\ queue' = << >> /\ ~Busy /\ memory' = 0
        /\ task' = Start /\ ~Taken' /\ task'.attempt = 0 /\ ~sync'.busy
    BY <1>2, StartTyped DEF Restart, cacheVars, NoSync, Taken
  <2>2. record \in Nat /\ \A x \in events : Over(x) /\ Over(x)'
    BY <1>1, <2>1, NumberFacts DEF Over, Busy
  <2> QED
    BY <1>1, <2>1, <2>2 DEF CursorsInv, CursorInv, MemoryInv
<1>3. CASE PublishOther \/ Pull \/ PullUnread \/ UNCHANGED vars
  <2>1. UNCHANGED <<events, record, memory, queue, task, sync>>
    BY <1>3 DEF PublishOther, Pull, PullUnread, Pulled, vars, cacheVars, queueVars, readerVars
  <2> QED
    BY <1>1, <2>1, SameCursors DEF Taken
<1> QED
  BY <1>2, <1>3

LEMMA CursorsKept == ASSUME ProjectionInv, [Next]_vars, TypeInv', QueueInv' PROVE CursorsInv'
<1>1. CASE ~sound'
  BY <1>1 DEF CursorsInv, CursorInv, MemoryInv
<1>2. CASE SnapshotUnread
  BY <1>2, <1>1 DEF SnapshotUnread
<1> QED
  BY <1>1, <1>2, TakeKeepsCursors, SyncKeepsCursors, PutKeepsCursors, FailureKeepsCursors,
     PublishKeepsCursors, OthersKeepCursors DEF Next, TaskStep, SyncStep

-----------------------------------------------------------------------------
(* What a follower has *)

FollowedInv == FollowInv /\ FollowerMissesNothing

\* An event beyond the record is of the running task.
LEMMA BeyondRecord ==
  ASSUME TypeInv, CursorInv, sound, Taken, NEW x \in events, x.cursor >= task.cursor
  PROVE  x.number = Number
<1>1. record < task.cursor /\ (Over(x) => x.cursor <= record)
  BY DEF CursorInv
<1>2. record \in Nat /\ task.cursor \in Nat /\ x.cursor \in Nat
  BY NumberFacts
<1>3. ~Over(x)
  BY <1>1, <1>2
<1> QED
  BY <1>3 DEF Over

LEMMA EventFollowed ==
  ASSUME ProjectionInv, sound, Taken, events' = events \cup {NewEvent},
         UNCHANGED <<sync, follower>>
  PROVE  FollowedInv'
<1>1. TypeInv /\ CursorInv /\ FollowInv /\ FollowerMissesNothing
  BY DEF ProjectionInv
<1>2. /\ follower.after \in Nat /\ task.cursor \in Nat /\ task.cursor > 0
      /\ \A x \in events : x.cursor \in Nat
      /\ sync.busy => sync.page \subseteq events
      /\ NewEvent.cursor = task.cursor /\ NewEvent.number = Number
  BY <1>1, NumberFacts DEF TypeInv, TypeOK, NewEvent, FollowInv
<1>3. NewEvent.cursor <= follower.after => NewEvent.number \in follower.seen
  <2> SUFFICES ASSUME task.cursor <= follower.after PROVE Number \in follower.seen
    BY <1>2
  <2>1. PICK w \in events : w.cursor = follower.after /\ w.number \in follower.seen
    BY <1>1, <1>2 DEF FollowInv
  <2> QED
    BY <1>1, <2>1, BeyondRecord
<1>4. ASSUME sync.busy, NEW y \in sync.page, task.cursor <= y.cursor
      PROVE  y.number = NewEvent.number
  BY <1>1, <1>2, <1>4, BeyondRecord
<1>5. FollowerMissesNothing'
  BY <1>1, <1>3 DEF FollowerMissesNothing
<1>6. follower.after = 0 \/ \E x \in events' : x.cursor = follower.after /\ x.number \in follower.seen
  BY <1>1 DEF FollowInv
<1>7. ASSUME sync.busy, NEW y \in sync.page, NEW x \in events',
             follower.after < x.cursor, x.cursor <= y.cursor
      PROVE  \E z \in sync.page : z.number = x.number
  <2>1. CASE x \in events
    BY <1>1, <1>7, <2>1 DEF FollowInv
  <2>2. CASE x = NewEvent
    BY <1>2, <1>4, <1>7, <2>2
  <2> QED
    BY <2>1, <2>2
<1>8. sync.busy => /\ sync.page \subseteq events'
                   /\ \A y \in sync.page : follower.after < y.cursor
  BY <1>1 DEF FollowInv
<1>9. FollowInv'
  BY <1>6, <1>7, <1>8 DEF FollowInv
<1> QED
  BY <1>5, <1>9 DEF FollowedInv

\* Events of one cursor are of one acceptance.
LEMMA OneNumber ==
  ASSUME TypeInv, EventsInOrder, sound, NEW x \in events, NEW y \in events, x.cursor = y.cursor
  PROVE  x.number = y.number
<1>1. x.cursor \in Nat /\ x.number \in Nat /\ y.number \in Nat
  BY NumberFacts
<1>2. ~(x.number < y.number) /\ ~(y.number < x.number)
  BY <1>1 DEF EventsInOrder
<1> QED
  BY <1>1, <1>2

LEMMA SyncFollowed ==
  ASSUME ProjectionInv, Sync, sound'
  PROVE  FollowedInv'
<1>1. TypeInv /\ EventsInOrder /\ FollowInv /\ FollowerMissesNothing /\ sound
  BY DEF ProjectionInv, Sync
<1>2. events' = events /\ follower' = follower
  BY DEF Sync, cacheVars
<1> DEFINE new == {x \in events : x.cursor > follower.after}
<1>3. sync'.page = Page(new)
  <2>1. \E c : sync' = [busy |-> TRUE, page |-> Page(new), current |-> c]
    BY Zenon DEF Sync
  <2> QED
    BY <2>1
<1>4. /\ new \in SUBSET Events /\ IsFiniteSet(new)
      /\ \A x \in events : x.cursor \in Nat
      /\ follower.after \in Nat
  BY <1>1, FS_Subset, EnvelopeFacts, NumberFacts DEF TypeInv, TypeOK
<1>5. ASSUME NEW y \in Page(new), NEW x \in events,
             follower.after < x.cursor, x.cursor <= y.cursor
      PROVE  \E z \in Page(new) : z.number = x.number
  <2>1. y \in new /\ y \in events /\ x \in new
    BY <1>4, <1>5, PageWithin
  <2>2. CASE x.cursor < y.cursor
    <3> HIDE DEF new
    <3> QED
      BY <1>4, <2>1, <2>2, PageFacts DEF KeyBefore
  <2>3. CASE x.cursor = y.cursor
    BY <1>1, <2>1, <2>3, OneNumber
  <2> QED
    BY <1>4, <1>5, <2>1, <2>2, <2>3
<1>6. \A y \in Page(new) : follower.after < y.cursor
  <2>1. \A y \in Page(new) : y \in new
    BY PageWithin
  <2> QED
    BY <1>4, <2>1
<1>7. FollowInv'
  <2>1. Page(new) \subseteq events
    BY PageWithin
  <2> HIDE DEF new
  <2> QED
    BY <1>1, <1>2, <1>3, <1>5, <1>6, <2>1 DEF FollowInv
<1> QED
  BY <1>1, <1>2, <1>7 DEF FollowedInv, FollowerMissesNothing

LEMMA AnswerFollowed ==
  ASSUME ProjectionInv, SyncAnswer, sound'
  PROVE  FollowedInv'
<1>1. TypeInv /\ FollowInv /\ FollowerMissesNothing /\ sound
  BY DEF ProjectionInv, SyncAnswer
<1>2. /\ events' = events /\ sync.busy /\ ~sync'.busy
      /\ follower'.after = NextAfter(sync.page)
      /\ follower'.seen = follower.seen \cup {x.number : x \in sync.page}
  BY DEF SyncAnswer, cacheVars, NoSync
<1>3. /\ follower.after \in Nat /\ \A x \in events : x.cursor \in Nat
      /\ sync.page \subseteq events
  BY <1>1, <1>2, NumberFacts DEF TypeInv, TypeOK, FollowInv
<1>4. CASE sync.page = {}
  <2>1. follower'.after = follower.after /\ follower.seen \subseteq follower'.seen
    BY <1>2, <1>4 DEF NextAfter
  <2> QED
    BY <1>1, <1>2, <2>1 DEF FollowedInv, FollowInv, FollowerMissesNothing
<1>5. CASE sync.page # {}
  <2>1. PICK y \in sync.page : follower'.after = y.cursor
    BY <1>1, <1>2, <1>5, LastOfPage
  <2>2. ASSUME NEW x \in events, x.cursor <= y.cursor PROVE x.number \in follower'.seen
    <3>1. CASE x.cursor <= follower.after
      BY <1>1, <1>2, <3>1 DEF FollowerMissesNothing
    <3>2. CASE follower.after < x.cursor
      <4>1. PICK z \in sync.page : z.number = x.number
        BY <1>1, <1>2, <2>2, <3>2 DEF FollowInv
      <4> QED
        BY <1>2, <4>1
    <3> QED
      BY <1>3, <3>1, <3>2
  <2>3. y \in events /\ y.number \in follower'.seen
    BY <1>2, <1>3
  <2> QED
    BY <1>2, <2>1, <2>2, <2>3 DEF FollowedInv, FollowInv, FollowerMissesNothing
<1> QED
  BY <1>4, <1>5

LEMMA FollowKept == ASSUME ProjectionInv, [Next]_vars PROVE FollowedInv'
<1>1. CASE ~sound'
  BY <1>1 DEF FollowedInv, FollowInv, FollowerMissesNothing
<1>2. CASE sound' /\ Sync
  BY <1>2, SyncFollowed
<1>3. CASE sound' /\ SyncAnswer
  BY <1>3, AnswerFollowed
<1>4. CASE sound' /\ Restart
  <2>1. UNCHANGED <<events, follower>> /\ ~sync'.busy
    BY <1>4 DEF Restart, cacheVars, NoSync
  <2>2. sound
    BY <1>4, QueueSteps
  <2> QED
    BY <2>1, <2>2 DEF ProjectionInv, FollowedInv, FollowInv, FollowerMissesNothing
<1>5. CASE sound' /\ ~Sync /\ ~SyncAnswer /\ ~Restart
  <2>1. UNCHANGED <<sync, follower>> /\ sound
    BY <1>5, QueueSteps DEF Next, TaskStep, SyncStep, Put, PutFails, KeepSnapshot, TakeCursor,
       SnapshotUnread, Publish, PublishOther, Pull, PullUnread, Pulled, readerVars, vars
  <2>2. CASE events' = events
    BY <2>1, <2>2 DEF ProjectionInv, FollowedInv, FollowInv, FollowerMissesNothing
  <2>3. CASE events' # events
    BY <1>5, <2>1, <2>3, EventsChange, EventAdded, EventFollowed DEF ProjectionInv
  <2> QED
    BY <2>2, <2>3
<1> QED
  BY <1>1, <1>2, <1>3, <1>4, <1>5

-----------------------------------------------------------------------------
(* Snapshots *)

\* A snapshot that replaces another covers what that one covered.
LEMMA Supersedes ==
  ASSUME TypeInv, NEW g \in Envelopes,
         snapshots[g.issue] = None \/ Replaces(g, snapshots[g.issue]),
         snapshots' = [snapshots EXCEPT ![g.issue] = g]
  PROVE  Covered(g)' /\ \A e \in Envelopes : Covered(e) => Covered(e)'
<1>1. /\ DOMAIN snapshots = Issues
      /\ \A i \in Issues : snapshots[i] \in {e \in Envelopes : e.issue = i} \cup {None}
  BY DEF TypeInv, TypeOK
<1>2. \A i \in Issues : snapshots'[i] = IF i = g.issue THEN g ELSE snapshots[i]
  BY <1>1
<1>3. g.at \in Nat /\ g # None /\ g.issue \in Issues
  BY EnvelopeFacts
<1>4. Covered(g)'
  BY <1>2, <1>3 DEF Covered
<1>5. ASSUME NEW e \in Envelopes, Covered(e), e.issue # g.issue
      PROVE  Covered(e)'
  <2>1. snapshots'[e.issue] = snapshots[e.issue]
    BY <1>2, <1>5, EnvelopeFacts
  <2> QED
    BY <1>5, <2>1 DEF Covered
<1>6. ASSUME NEW e \in Envelopes, Covered(e), e.issue = g.issue,
             \A d \in Envelopes : d.issue = e.issue => d.at # NoTime
      PROVE  e.at > g.at => Policy # "last_write" /\ g.source = Policy /\ e.source # Policy
  <2> DEFINE f == snapshots[g.issue]
  <2>1. f # None /\ f \in Envelopes /\ f.issue = g.issue
    BY <1>1, <1>3, <1>6 DEF Covered
  <2>2. e.at > f.at => Policy # "last_write" /\ f.source = Policy /\ e.source # Policy
    BY <1>6 DEF Covered
  <2>3. ~Older(g, f) /\ (Policy # "last_write" /\ f.source = Policy => g.source = Policy)
    BY <2>1 DEF Replaces
  <2>4. f.at \in Nat /\ e.at \in Nat /\ g.at >= f.at
    <3>1. f.at \in Nat /\ e.at \in Nat
      BY <2>1, EnvelopeFacts
    <3>2. f.at # NoTime /\ g.at # NoTime
      BY <1>6, <2>1
    <3> QED
      BY <1>3, <2>3, <3>1, <3>2 DEF Older
  <2> HIDE DEF f
  <2> QED
    BY <1>3, <2>2, <2>3, <2>4
<1>7. ASSUME NEW e \in Envelopes, Covered(e), e.issue = g.issue
      PROVE  Covered(e)'
  <2>1. snapshots'[e.issue] = g
    BY <1>2, <1>3, <1>7
  <2> QED
    BY <1>3, <1>6, <1>7, <2>1 DEF Covered
<1> QED
  BY <1>4, <1>5, <1>7

\* A snapshot that stays covers the envelope it is kept from.
LEMMA KeptCovers ==
  ASSUME TypeInv, Busy, KeepsSnapshot
  PROVE  Covered(Envelope)
<1> DEFINE e == Envelope
           f == snapshots[e.issue]
<1>1. e \in Envelopes /\ e.at \in Nat /\ e.issue \in Issues
  BY QueueFacts, EnvelopeFacts DEF TypeInv
<1>2. f # None /\ f \in Envelopes /\ ~Replaces(e, f)
  BY <1>1 DEF KeepsSnapshot, TypeInv, TypeOK
<1>3. f.at \in Nat
  BY <1>2, EnvelopeFacts
<1>4. e.at > f.at => Policy # "last_write" /\ f.source = Policy /\ e.source # Policy
  BY <1>1, <1>2, <1>3 DEF Replaces, Older
<1> QED
  BY <1>2, <1>4 DEF Covered

\* What is covered stays so.
LEMMA CoverStays ==
  ASSUME TypeInv, [Next]_vars, sound', NEW e \in Envelopes, Covered(e)
  PROVE  Covered(e)'
<1>1. CASE snapshots' = snapshots
  BY <1>1 DEF Covered
<1>2. CASE snapshots' # snapshots
  <2>1. Put \/ PutFails
    BY <1>2 DEF Next, TaskStep, SyncStep, Publish, PublishOther, KeepSnapshot, TakeCursor,
       SnapshotUnread, Sync, SyncAnswer, Pull, PullUnread, Pulled, Restart, vars, cacheVars
  <2>2. At("snapshot") /\ WriteSnapshot /\ Writes
    BY <1>2, <2>1 DEF Put, PutFails, Write, WriteEnvelope, WriteEvent, WriteRecord, cacheVars
  <2>3. Envelope \in Envelopes
    BY <2>2, QueueFacts DEF At, TypeInv
  <2>4. snapshots[Envelope.issue] = None \/ Replaces(Envelope, snapshots[Envelope.issue])
    BY <2>2 DEF Writes, At, KeepsSnapshot
  <2> QED
    BY <2>2, <2>3, <2>4, Supersedes DEF WriteSnapshot
<1> QED
  BY <1>1, <1>2

\* At the last write the running task's envelope is covered.
LEMMA RunningCovered ==
  ASSUME ProjectionInv, [Next]_vars, sound', Busy', task'.phase = "record"
  PROVE  Covered(Envelope)'
<1>1. TypeInv /\ SnapshotInv /\ sound
  BY QueueSteps DEF ProjectionInv
<1>2. CASE Put
  <2>1. task.phase = "snapshot"
    BY <1>1, <1>2, StartTyped, NumberFacts DEF Put, Continue, At, GoTo, Settle
  <2>2. /\ At("snapshot") /\ WriteSnapshot /\ queue' = queue /\ Busy
        /\ snapshots[Envelope.issue] = None \/ Replaces(Envelope, snapshots[Envelope.issue])
    BY <1>2, <2>1 DEF Put, Write, Writes, Continue, At, GoTo, KeepsSnapshot
  <2>3. Envelope \in Envelopes /\ Envelope' = Envelope
    BY <1>1, <2>2, QueueFacts DEF TypeInv, Envelope
  <2>4. \A g : g = Envelope => Covered(g)'
    BY <1>1, <2>2, <2>3, Supersedes DEF WriteSnapshot
  <2> QED
    BY <2>3, <2>4 DEF Covered
<1>3. CASE KeepSnapshot
  <2>1. Busy /\ KeepsSnapshot /\ UNCHANGED <<queue, snapshots>>
    BY <1>3 DEF KeepSnapshot, At, GoTo, cacheVars
  <2> QED
    BY <1>1, <2>1, KeptCovers DEF Covered, Envelope
<1>4. CASE PutFails \/ TakeCursor \/ SnapshotUnread \/ Restart
  <2>1. CASE PutFails
    BY <2>1, StartTyped DEF PutFails, Retry, Start
  <2>2. CASE TakeCursor
    BY <1>1, <2>2, NumberFacts DEF TakeCursor
  <2> QED
    BY <1>4, <2>1, <2>2, StartTyped DEF SnapshotUnread, Restart
<1>5. CASE \/ \E e \in Envelopes : Publish(e)
           \/ PublishOther \/ Pull \/ PullUnread \/ SyncStep \/ UNCHANGED vars
  <2>1. UNCHANGED <<snapshots, task>>
    BY <1>5 DEF Publish, PublishOther, Pull, PullUnread, Pulled, SyncStep, Sync, SyncAnswer, vars,
       cacheVars, queueVars
  <2>2. Busy
    BY <1>1, <2>1, StartTyped DEF TypeInv, TypeOK, Busy
  <2>3. Head(queue') = Head(queue)
    <3>1. ASSUME NEW e \in Envelopes, Publish(e) PROVE Head(queue') = Head(queue)
      BY <1>1, <2>2, <3>1, PublishFacts
    <3>2. CASE PublishOther \/ Pull \/ PullUnread \/ SyncStep \/ UNCHANGED vars
      BY <3>2 DEF PublishOther, Pull, PullUnread, Pulled, SyncStep, Sync, SyncAnswer, vars, queueVars
    <3> QED
      BY <1>5, <3>1, <3>2
  <2> QED
    BY <1>1, <2>1, <2>2, <2>3 DEF SnapshotInv, Covered, Envelope
<1> QED
  BY <1>2, <1>3, <1>4, <1>5 DEF Next, TaskStep, SyncStep

LEMMA SnapshotKept ==
  ASSUME ProjectionInv, [Next]_vars, TypeInv', QueueInv'
  PROVE  SnapshotInv'
<1> SUFFICES ASSUME sound' PROVE SnapshotInv'
  BY DEF SnapshotInv
<1>1. TypeInv /\ QueueInv /\ EventInv /\ CursorInv /\ SnapshotInv /\ sound
  BY QueueSteps DEF ProjectionInv
<1>2. ASSUME NEW x \in events, Over(x)'
      PROVE  Covered(x.envelope)'
  <2>1. x.envelope \in Envelopes /\ (~Over(x) => Busy /\ x.envelope = Envelope)
    BY <1>1, <1>2, NumberFacts DEF EventInv, Over
  <2>2. Over(x) \/ At("record")
    BY <1>1, <1>2, OverStays
  <2>3. Covered(x.envelope)
    BY <1>1, <1>2, <2>1, <2>2 DEF SnapshotInv, At
  <2> QED
    BY <1>1, <2>1, <2>3, CoverStays
<1>3. \A x \in events' : x \in events \/ ~Over(x)'
  <2> SUFFICES ASSUME events' # events PROVE \A x \in events' : x \in events \/ ~Over(x)'
    OBVIOUS
  <2>1. events' = events \cup {NewEvent} /\ queue' = queue /\ Busy
    BY <1>1, EventsChange, EventAdded
  <2> QED
    BY <2>1 DEF Over, Busy, Number, NewEvent
<1> QED
  BY <1>2, <1>3, RunningCovered DEF SnapshotInv

-----------------------------------------------------------------------------
(* Pullers *)

\* The stored envelopes only grow.
LEMMA IssuesGrow == ASSUME TypeInv, [Next]_vars PROVE issues \subseteq issues'
<1>1. CASE Put \/ PutFails
  BY <1>1, WriteTyped DEF Put, PutFails, cacheVars
<1> QED
  BY <1>1 DEF Next, TaskStep, SyncStep, Publish, PublishOther, KeepSnapshot, TakeCursor,
     SnapshotUnread, WriteSnapshot, Sync, SyncAnswer, Pull, PullUnread, Pulled, Restart, vars,
     cacheVars

\* A stretch of the list has as many entries as places.
LEMMA StretchSize ==
  ASSUME TypeInv, NEW a \in Nat, NEW b \in Nat, a <= b, b <= Cardinality(issues)
  PROVE  Cardinality({id \in issues : a <= Listed(id) /\ Listed(id) < b}) = b - a
<1> DEFINE n == Cardinality(issues)
           place == [id \in issues |-> Listed(id)]
           stretch == {id \in issues : a <= Listed(id) /\ Listed(id) < b}
<1>1. /\ issues \subseteq Nat /\ IsFiniteSet(issues) /\ n \in Nat
      /\ \A id \in issues : Listed(id) \in Nat /\ Listed(id) < n
  BY ListFacts
<1>2. ASSUME NEW i \in issues, NEW j \in issues, i < j
      PROVE  Listed(i) # Listed(j)
  <2> DEFINE P == {k \in issues : k < i}
             Q == {k \in issues : k < j}
  <2>1. P \subseteq Q /\ i \in Q /\ i \notin P
    <3>1. i \in Nat /\ ~(i < i) /\ \A k \in issues : k < i => k < j
      BY <1>1, <1>2
    <3> QED
      BY <1>2, <3>1
  <2>2. IsFiniteSet(Q) /\ Listed(i) = Cardinality(P) /\ Listed(j) = Cardinality(Q)
    BY ListFacts
  <2> HIDE DEF P, Q
  <2>3. P = Q \/ Cardinality(P) # Cardinality(Q)
    BY <2>1, <2>2, FS_Subset
  <2> QED
    BY <2>1, <2>2, <2>3
<1>3. \A i, j \in issues : Listed(i) = Listed(j) => i = j
  BY <1>1, <1>2
<1>4. place \in Injection(issues, 0..(n - 1))
  BY <1>1, <1>3 DEF Injection, IsInjective
<1>5. IsFiniteSet(0..(n - 1)) /\ Cardinality(0..(n - 1)) = n
  <2> HIDE DEF n
  <2> QED
    BY <1>1, FS_Interval
<1>6. place \in Surjection(issues, 0..(n - 1))
  <2> HIDE DEF place
  <2> QED
    BY <1>4, <1>5, FS_Injection
<1>7. \A m \in 0..(n - 1) : \E id \in issues : Listed(id) = m
  BY <1>6 DEF Surjection
<1>8. [id \in stretch |-> Listed(id)] \in Bijection(stretch, a..(b - 1))
  <2> DEFINE f == [id \in stretch |-> Listed(id)]
  <2>1. f \in Injection(stretch, a..(b - 1))
    <3>1. \A id \in stretch : Listed(id) \in a..(b - 1) /\ id \in issues
      BY <1>1
    <3> HIDE DEF stretch
    <3> QED
      BY <1>3, <3>1 DEF Injection, IsInjective
  <2>2. ASSUME NEW m \in a..(b - 1) PROVE \E id \in stretch : f[id] = m
    <3>1. m \in 0..(n - 1) /\ a <= m /\ m < b
      BY <1>1
    <3>2. PICK id \in issues : Listed(id) = m
      BY <1>7, <3>1
    <3> QED
      BY <3>1, <3>2
  <2>3. f \in Surjection(stretch, a..(b - 1))
    BY <2>1, <2>2 DEF Injection, Surjection
  <2> QED
    BY <2>1, <2>3 DEF Bijection
<1>9. IsFiniteSet(stretch)
  BY <1>1, FS_Subset
<1>10. Cardinality(a..(b - 1)) = b - a
  <2>1. a \in Int /\ b - 1 \in Int
    OBVIOUS
  <2>2. Cardinality(a..(b - 1)) = IF a > b - 1 THEN 0 ELSE (b - 1) - a + 1
    BY <2>1, FS_Interval
  <2> QED
    BY <2>2
<1> HIDE DEF stretch
<1>11. ExistsBijection(stretch, a..(b - 1))
  BY <1>8 DEF ExistsBijection
<1> QED
  BY <1>9, <1>10, <1>11, FS_Bijection DEF stretch

\* A pull takes the position to the end of its page, or of the list.
LEMMA PullSize ==
  ASSUME TypeInv, PullerInv
  PROVE  LET after == puller.after
             next == after + Cardinality(PullPage(after))
         IN /\ next \in Nat /\ next <= Cardinality(issues)
            /\ next = after + Limit \/ next = Cardinality(issues)
            /\ next <= after + Limit
<1> DEFINE after == puller.after
           n == Cardinality(issues)
           end == IF after + Limit <= n THEN after + Limit ELSE n
<1>1. /\ after \in Nat /\ n \in Nat /\ after <= n /\ Limit \in Nat
      /\ \A id \in issues : Listed(id) \in Nat /\ Listed(id) < n
  BY ListFacts, Bounds DEF TypeInv, TypeOK, PullerInv
<1>2. end \in Nat /\ after <= end /\ end <= n
  BY <1>1
<1>3. PullPage(after) = {id \in issues : after <= Listed(id) /\ Listed(id) < end}
  BY <1>1 DEF PullPage
<1>4. Cardinality(PullPage(after)) = end - after
  <2> HIDE DEF end, after
  <2> QED
    BY <1>1, <1>2, <1>3, StretchSize
<1>5. after + Cardinality(PullPage(after)) = end
  BY <1>1, <1>2, <1>4
<1> QED
  BY <1>1, <1>2, <1>5

\* The ids of the cache after a step, and their places.
LEMMA NextList ==
  ASSUME TypeInv, TypeInv', issues \subseteq issues'
  PROVE  /\ issues' \subseteq Nat /\ IsFiniteSet(issues') /\ Cardinality(issues') \in Nat
         /\ Cardinality(issues) <= Cardinality(issues')
         /\ \A id : /\ Listed(id)' = Cardinality({j \in issues' : j < id})
                    /\ IsFiniteSet({j \in issues' : j < id})
                    /\ Listed(id)' \in Nat /\ Listed(id) <= Listed(id)'
<1>1. issues' \subseteq Ids /\ Ids \subseteq Nat
  BY EnvelopeFacts DEF TypeInv, TypeOK
<1>2. IsFiniteSet(issues')
  BY <1>1, IdsFinite, FS_Subset
<1>3. ASSUME NEW id
      PROVE  /\ Listed(id)' = Cardinality({j \in issues' : j < id})
             /\ IsFiniteSet({j \in issues' : j < id})
             /\ Listed(id)' \in Nat /\ Listed(id) <= Listed(id)'
  <2> DEFINE P == {j \in issues : j < id}
             Q == {j \in issues' : j < id}
  <2>1. Listed(id)' = Cardinality(Q) /\ Listed(id) = Cardinality(P) /\ P \subseteq Q
    BY DEF Listed
  <2>2. IsFiniteSet(Q)
    BY <1>2, FS_Subset
  <2> HIDE DEF P, Q
  <2>3. Cardinality(Q) \in Nat /\ Cardinality(P) <= Cardinality(Q)
    BY <2>1, <2>2, FS_Subset, FS_CardinalityType
  <2> QED
    BY <2>1, <2>2, <2>3 DEF Q
<1> QED
  BY <1>1, <1>2, <1>3, FS_Subset, FS_CardinalityType

LEMMA PullerKept ==
  ASSUME TypeInv, PullerInv, [Next]_vars, TypeInv'
  PROVE  PullerInv'
<1>1. issues \subseteq issues' /\ Cardinality(issues) <= Cardinality(issues')
      /\ Cardinality(issues) \in Nat /\ Cardinality(issues') \in Nat
  BY IssuesGrow, NextList, ListFacts
<1>2. puller.after \in Nat
  BY DEF TypeInv, TypeOK
<1>3. CASE Pull \/ PullUnread
  <2>1. puller'.after = puller.after + Cardinality(PullPage(puller.after)) /\ issues' = issues
    BY <1>3 DEF Pull, PullUnread, Pulled, cacheVars
  <2> QED
    BY <2>1, PullSize DEF PullerInv
<1>4. CASE puller' = puller
  BY <1>1, <1>2, <1>4 DEF PullerInv
<1> QED
  BY <1>3, <1>4 DEF Next, TaskStep, SyncStep, Publish, PublishOther, Put, PutFails, KeepSnapshot,
     TakeCursor, SnapshotUnread, Sync, SyncAnswer, Restart, vars, readerVars

\* A pull leaves nothing out.
LEMMA PullInStep ==
  ASSUME TypeInv, PullerInv, InStep, Pull
  PROVE  InStep'
<1> DEFINE after == puller.after
           next == after + Cardinality(PullPage(after))
<1>1. /\ after \in Nat /\ Limit \in Nat /\ Cardinality(issues) \in Nat
      /\ \A id \in issues : Listed(id) \in Nat /\ Listed(id) < Cardinality(issues)
  BY ListFacts, Bounds DEF TypeInv, TypeOK
<1>2. /\ next \in Nat /\ next <= after + Limit
      /\ next = after + Limit \/ next = Cardinality(issues)
  BY PullSize
<1>3. puller'.after = next /\ puller'.got = puller.got \cup PullPage(after) /\ issues' = issues
  BY DEF Pull, Pulled, cacheVars
<1> HIDE DEF next, after
<1>4. puller.got = {id \in issues : Listed(id) < after}
  BY DEF InStep, after
<1>5. puller'.got = {id \in issues : Listed(id) < after + Limit}
  BY <1>1, <1>3, <1>4 DEF PullPage
<1>6. \A id \in issues : Listed(id) < after + Limit <=> Listed(id) < next
  BY <1>1, <1>2
<1>7. \A id : Listed(id)' = Listed(id)
  BY <1>3 DEF Listed
<1> QED
  BY <1>3, <1>5, <1>6, <1>7 DEF InStep

\* An envelope stored behind all that the puller has stands behind its position.
LEMMA GrowthInStep ==
  ASSUME TypeInv, PullerInv, InStep, TypeInv', issues \subseteq issues', puller' = puller,
         \A id \in issues' \ issues : \A j \in puller.got : j < id
  PROVE  InStep'
<1> DEFINE after == puller.after
<1>1. /\ after \in Nat /\ after <= Cardinality(issues) /\ issues \subseteq Nat
      /\ \A id \in issues : Listed(id) \in Nat
  BY ListFacts DEF TypeInv, TypeOK, PullerInv
<1>2. puller.got = {id \in issues : Listed(id) < after}
  BY DEF InStep
<1>3. Cardinality(puller.got) = after
  <2>1. puller.got = {id \in issues : 0 <= Listed(id) /\ Listed(id) < after}
    <3>1. \A id \in issues : 0 <= Listed(id)
      BY <1>1
    <3> QED
      BY <1>2, <3>1
  <2> HIDE DEF after
  <2>2. Cardinality({id \in issues : 0 <= Listed(id) /\ Listed(id) < after}) = after - 0
    BY <1>1, StretchSize
  <2> QED
    BY <1>1, <2>1, <2>2
<1>4. /\ issues' \subseteq Nat
      /\ \A id : /\ Listed(id)' = Cardinality({j \in issues' : j < id})
                 /\ IsFiniteSet({j \in issues' : j < id})
                 /\ Listed(id)' \in Nat /\ Listed(id) <= Listed(id)'
  BY NextList
<1>5. ASSUME NEW id \in puller.got PROVE id \in issues' /\ Listed(id)' < after
  <2>1. id \in issues /\ Listed(id) < after /\ id \in Nat
    BY <1>1, <1>2
  <2>2. {j \in issues' : j < id} = {j \in issues : j < id}
    <3>1. \A j \in issues' \ issues : id < j /\ j \in Nat
      BY <1>4
    <3>2. \A j \in issues' \ issues : ~(j < id)
      BY <2>1, <3>1
    <3> QED
      BY <3>2
  <2>3. Listed(id)' = Listed(id)
    BY <2>2 DEF Listed
  <2> QED
    BY <2>1, <2>3
<1>6. ASSUME NEW id \in issues', id \notin puller.got PROVE ~(Listed(id)' < after)
  <2>1. CASE id \in issues
    <3>1. Listed(id) \in Nat /\ ~(Listed(id) < after)
      BY <1>1, <1>2, <1>6, <2>1
    <3>2. Listed(id)' \in Nat /\ Listed(id) <= Listed(id)'
      BY <1>4
    <3> QED
      BY <1>1, <3>1, <3>2
  <2>2. CASE id \notin issues
    <3> DEFINE before == {j \in issues' : j < id}
    <3>1. puller.got \subseteq before
      BY <1>2, <2>2
    <3>2. IsFiniteSet(before) /\ Listed(id)' = Cardinality(before) /\ Listed(id)' \in Nat
      BY <1>4
    <3> HIDE DEF before
    <3>3. Cardinality(puller.got) <= Cardinality(before)
      BY <3>1, <3>2, FS_Subset
    <3> QED
      BY <1>1, <1>3, <3>2, <3>3
  <2> QED
    BY <2>1, <2>2
<1>7. puller'.got = puller.got /\ puller'.after = after
  OBVIOUS
<1>8. puller.got = {id \in issues' : Listed(id)' < after}
  BY <1>5, <1>6
<1> QED
  BY <1>7, <1>8 DEF InStep

-----------------------------------------------------------------------------
(* The invariant and the theorems *)

LEMMA Initially == Init => ProjectionInv /\ PullerInv
<1> SUFFICES ASSUME Init PROVE ProjectionInv /\ PullerInv
  OBVIOUS
<1>1. TypeInv
  BY TypeInitially
<1>2. queue = << >> /\ accepted = 0 /\ events = {} /\ ~sync.busy /\ ~Busy /\ ~Taken
      /\ task.attempt = 0 /\ memory = 0 /\ record = 0 /\ follower.after = 0
      /\ puller.after = 0
  BY StartTyped DEF Init, NoSync, Busy, Taken
<1>3. Len(queue) = 0 /\ DOMAIN queue = {}
  BY <1>2
<1>4. QueueInv
  BY <1>2, <1>3 DEF QueueInv
<1>5. PullerInv
  BY <1>1, <1>2, ListFacts DEF PullerInv
<1> QED
  BY <1>1, <1>2, <1>4, <1>5 DEF ProjectionInv, EventInv, EventsInOrder, CursorInv, MemoryInv,
     FollowInv, FollowerMissesNothing, SnapshotInv

LEMMA Inductive == Spec => []ProjectionInv /\ []PullerInv
<1>1. ASSUME ProjectionInv, PullerInv, [Next]_vars PROVE ProjectionInv' /\ PullerInv'
  <2>1. TypeInv'
    BY <1>1, TypeKept DEF ProjectionInv
  <2>2. QueueInv'
    BY <1>1, QueueKept DEF ProjectionInv
  <2>3. EventInv'
    BY <1>1, <2>1, <2>2, EventKept DEF ProjectionInv
  <2>4. EventsInOrder'
    BY <1>1, OrderKept DEF ProjectionInv
  <2>5. CursorInv' /\ MemoryInv'
    BY <1>1, <2>1, <2>2, CursorsKept DEF CursorsInv
  <2>6. FollowInv' /\ FollowerMissesNothing'
    BY <1>1, FollowKept DEF FollowedInv
  <2>7. SnapshotInv'
    BY <1>1, <2>1, <2>2, SnapshotKept
  <2>8. PullerInv'
    BY <1>1, <2>1, PullerKept DEF ProjectionInv
  <2> QED
    BY <2>1, <2>2, <2>3, <2>4, <2>5, <2>6, <2>7, <2>8 DEF ProjectionInv
<1> QED
  BY Initially, <1>1, PTL DEF Spec

\* In every state of a room's issue cache, its queue, its followers and its pullers
\* the variables have their types (relay_cache_adapter.ts,
\* cache_persistence_queue.ts).
THEOREM ProjectionTyped == Spec => []TypeOK
<1>1. ProjectionInv => TypeOK
  BY DEF ProjectionInv, TypeInv
<1> QED
  BY <1>1, Inductive, PTL

\* No stored event of an issue is newer than the issue's snapshot, except that of
\* the other source when the preferred one has spoken
\* (relay_cache_adapter.ts 135-166).
THEOREM SnapshotsAreLatest == Spec => []SnapshotIsLatest
<1>1. ASSUME ProjectionInv PROVE SnapshotIsLatest
  <2> SUFFICES ASSUME sound, NEW x \in events,
                      \A d \in Envelopes : d.issue = x.envelope.issue => d.at # NoTime,
                      ~(Busy /\ x.number = Number)
               PROVE  /\ snapshots[x.envelope.issue] # None
                      /\ x.envelope.at > snapshots[x.envelope.issue].at
                           => /\ Policy # "last_write"
                              /\ snapshots[x.envelope.issue].source = Policy
                              /\ x.envelope.source # Policy
    BY DEF SnapshotIsLatest
  <2>1. Covered(x.envelope)
    BY <1>1 DEF ProjectionInv, SnapshotInv, Over
  <2> QED
    BY <2>1 DEF Covered
<1> QED
  BY <1>1, Inductive, PTL

\* Who follows the events from the cursor he was given gets them in the order in
\* which the room accepted their envelopes and misses none, unless a task was
\* given up or lost in a restart, an event or cursor could not be read, or a
\* follower's call took the cursor in memory back under a repeated task
\* (cache_persistence_queue.ts 98-123, relay_cache_adapter.ts 255-277, 399-446).
THEOREM EventsReadInOrder == Spec => []FollowersReadInOrder
<1>1. ProjectionInv => FollowersReadInOrder
  BY DEF ProjectionInv, FollowersReadInOrder
<1> QED
  BY <1>1, Inductive, PTL

\* A puller that has exactly what stands before its position goes on so, unless
\* an envelope is stored under an id smaller than one it has or an entry cannot
\* be read (relay_cache_adapter.ts 530-590).
THEOREM PullerInStep == Spec => [][PullerStaysInStep]_vars
<1>1. ASSUME ProjectionInv, PullerInv, [Next]_vars, ProjectionInv', InStep, ~PullUnread,
             \A id \in issues' \ issues : \A j \in puller.got : j < id
      PROVE  InStep'
  <2>1. TypeInv /\ TypeInv' /\ issues \subseteq issues'
    BY <1>1, IssuesGrow DEF ProjectionInv
  <2>2. Pull \/ puller' = puller
    BY <1>1 DEF Next, TaskStep, SyncStep, Publish, PublishOther, Put, PutFails, KeepSnapshot,
       TakeCursor, SnapshotUnread, Sync, SyncAnswer, Restart, vars, readerVars
  <2> QED
    BY <1>1, <2>1, <2>2, PullInStep, GrowthInStep
<1>2. ASSUME ProjectionInv, PullerInv, [Next]_vars, ProjectionInv'
      PROVE  [PullerStaysInStep]_vars
  BY <1>1, <1>2 DEF PullerStaysInStep
<1> QED
  BY <1>2, Inductive, PTL DEF Spec

\* Both kinds of readers follow (relay_cache_adapter.ts 399-585).
THEOREM ReadersKeepUp == Spec => ReadersFollow
BY EventsReadInOrder, PullerInStep, PTL DEF ReadersFollow

=============================================================================
