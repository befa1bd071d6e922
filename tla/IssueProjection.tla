--------------------------- MODULE IssueProjection ---------------------------
(***************************************************************************)
(* The issue cache of one room (relay_cache_adapter.ts,                    *)
(* cache_persistence_queue.ts, issue_projection.ts).  An envelope that the *)
(* room accepts is written by a task: the envelope, an event under the     *)
(* room's next issue cursor, the snapshot of its issue, the cursor record. *)
(* Tasks run one after another, each again from its start when a write     *)
(* fails.  A follower reads events beyond its cursor; a puller reads the   *)
(* stored envelopes by position.  The cache outlives the relay, the room   *)
(* does not.                                                               *)
(***************************************************************************)
EXTENDS Integers, SequencesExt, FiniteSetsExt

CONSTANTS
  Envelopes,    \* [id, issue, source, at]: ids in the order of their keys
  Policy,       \* issueSourceOfTruth: "last_write", "github" or "bit"
  MaxRetries,   \* cachePersistMaxRetries
  Limit,        \* entries of a page
  MaxMessages,  \* maxMessagesPerRoom
  Other,        \* a message of another topic
  MaxAccepted,  \* bound on the acceptances of envelopes
  MaxPulled,    \* bound on the position of a puller
  MaxTrouble    \* bound on the failing calls of the cache and the restarts together

Ids == {e.id : e \in Envelopes}
Issues == {e.issue : e \in Envelopes}
NoTime == 0     \* the time of a payload that has none
None == [id |-> 0, at |-> NoTime]   \* no snapshot

ASSUME ProjectionAssumption ==
  /\ IsFiniteSet(Envelopes)
  /\ \A e \in Envelopes : e.id \in Nat \ {0} /\ e.at \in Nat /\ e.source \in {"github", "bit", "none"}
  /\ \A d, e \in Envelopes : d.id = e.id => d = e
  /\ Policy \in {"last_write", "github", "bit"}
  /\ MaxRetries \in Nat /\ {Limit, MaxMessages} \subseteq Nat \ {0}
  /\ Other \notin Envelopes
  /\ {MaxAccepted, MaxPulled, MaxTrouble} \subseteq Nat

VARIABLES
  issues,     \* the cache: ids of the stored issue envelopes
  events,     \* the cache: issue events, each with the number of its acceptance
  snapshots,  \* the cache: the envelope of each issue's snapshot
  record,     \* the cache: the room's cursor record, 0 if there is none
  memory,     \* issueCursorByRoom
  queue,      \* the tasks of the persistence queue, the first one runs
  task,       \* how far the running task is
  sync,       \* a follower's call of syncIssues
  follower,   \* the cursor of a follower, and which acceptances it heard of
  puller,     \* the position of a puller, and the ids it got
  room,       \* the messages the room holds
  accepted,   \* how many envelopes the room accepted
  trouble,    \* how many calls of the cache failed and how often the relay restarted
  sound       \* so far no task was given up or lost in a restart, no event or
              \* cursor could not be read, and no call of a follower took the
              \* cursor in memory back while a task was repeated

cacheVars == <<issues, events, snapshots, record>>
queueVars == <<queue, task>>
readerVars == <<sync, follower, puller>>
roomVars == <<room, accepted>>
vars == <<cacheVars, memory, queueVars, readerVars, roomVars, trouble, sound>>

Phases == {"envelope", "cursor", "event", "snapshot", "record"}
Start == [phase |-> "envelope", attempt |-> 0, cursor |-> 0]
NoSync == [busy |-> FALSE, page |-> {}, current |-> 0]

Events == [cursor : Nat \ {0}, envelope : Envelopes, number : Nat]

TypeOK ==
  /\ issues \subseteq Ids
  /\ events \subseteq Events
  /\ DOMAIN snapshots = Issues
  /\ \A i \in Issues : snapshots[i] \in {e \in Envelopes : e.issue = i} \cup {None}
  /\ record \in Nat /\ memory \in Nat
  /\ queue \in Seq([envelope : Envelopes, number : Nat, hint : Nat])
  /\ task \in [phase : Phases, attempt : 0..MaxRetries, cursor : Nat]
  /\ queue = << >> => task = Start
  /\ sync \in [busy : BOOLEAN, page : SUBSET Events, current : Nat]
  /\ follower \in [after : Nat, seen : SUBSET Nat]
  /\ puller \in [after : Nat, got : SUBSET Ids]
  /\ room \in Seq(Envelopes \cup {Other}) /\ Len(room) <= MaxMessages
  /\ accepted \in 0..MaxAccepted
  /\ trouble \in 0..MaxTrouble /\ sound \in BOOLEAN

Init ==
  /\ issues = {} /\ events = {} /\ record = 0
  /\ snapshots = [i \in Issues |-> None]
  /\ memory = 0 /\ queue = << >> /\ task = Start
  /\ sync = NoSync
  /\ follower = [after |-> 0, seen |-> {}]
  /\ puller = [after |-> 0, got |-> {}]
  /\ room = << >> /\ accepted = 0
  /\ trouble = 0 /\ sound = TRUE

-----------------------------------------------------------------------------
(* Publishing and the queue *)

Trim(list) ==
  IF Len(list) > MaxMessages THEN SubSeq(list, Len(list) - MaxMessages + 1, Len(list))
  ELSE list

\* The room accepts e, which is not among the messages it holds: one it dropped
\* or lost in a restart is accepted anew.  The task of e gets the length of the
\* room as a hint.
Publish(e) ==
  /\ e \notin ToSet(room)
  /\ accepted < MaxAccepted
  /\ accepted' = accepted + 1
  /\ room' = Trim(Append(room, e))
  /\ queue' = Append(queue, [envelope |-> e, number |-> accepted', hint |-> Len(room')])
  /\ UNCHANGED <<cacheVars, memory, task, readerVars, trouble, sound>>

\* The room accepts a message of another topic, whose task writes nothing that
\* is read here.
PublishOther ==
  /\ room' = Trim(Append(room, Other))
  /\ UNCHANGED <<cacheVars, memory, queueVars, readerVars, accepted, trouble, sound>>

Busy == queue # << >>
Envelope == Head(queue).envelope
Number == Head(queue).number
At(phase) == Busy /\ task.phase = phase
GoTo(phase) == task' = [task EXCEPT !.phase = phase] /\ UNCHANGED queue

SettleKeepsAttempt ==         \* mutant: attempts go on counting with the next task
  queue' = Tail(queue) /\ task' = [task EXCEPT !.phase = "envelope"]
\* The task is over and the next one starts.
Settle == queue' = Tail(queue) /\ task' = Start

Trouble == trouble < MaxTrouble /\ trouble' = trouble + 1

\* runWithRetry after an error: the task once more from its start, or no more.
Retry ==
  \/ /\ task.attempt < MaxRetries
     /\ task' = [Start EXCEPT !.attempt = task.attempt + 1]
     /\ UNCHANGED <<queue, sound>>
  \/ /\ task.attempt = MaxRetries
     /\ Settle /\ sound' = FALSE

-----------------------------------------------------------------------------
(* The cursor *)

\* currentIssueCursor for what the cache answered; a failed read counts as 0.
CurrentInMemory(read) == memory             \* mutant: the cache is not asked
Current(read) == Max({memory, read})

NextCursorFromHint(current, hint) == hint   \* mutant: the room's cursor is taken as it is
NextCursor(current, hint) == Max({current, hint - 1}) + 1

\* nextIssueCursor.  What a follower writes back while the cache is asked is
\* overwritten, so that this is one step.
TakeCursor ==
  /\ At("cursor")
  /\ \/ /\ memory' = NextCursor(Current(record), Head(queue).hint)
        /\ UNCHANGED <<trouble, sound>>
     \/ /\ Trouble /\ sound' = FALSE
        /\ memory' = NextCursor(Current(0), Head(queue).hint)
  /\ task' = [task EXCEPT !.phase = "event", !.cursor = memory']
  /\ UNCHANGED <<cacheVars, queue, readerVars, roomVars>>

-----------------------------------------------------------------------------
(* The writes *)

\* isOlderByTimestamp
Older(e, f) == e.at # NoTime /\ f.at # NoTime /\ e.at < f.at

ReplacesAnyAge(e, f) ==       \* mutant: the times are not compared
  Policy # "last_write" /\ f.source = Policy => e.source = Policy
\* shouldUpdateSnapshotBySourcePolicy for a snapshot f and a new envelope e, which
\* are of one issue
Replaces(e, f) ==
  /\ ~Older(e, f)
  /\ Policy # "last_write" /\ f.source = Policy => e.source = Policy

WriteEnvelope ==
  /\ issues' = issues \cup {Envelope.id}
  /\ UNCHANGED <<events, snapshots, record>>
\* An event is stored under its cursor and the id of its envelope.
WriteEvent ==
  /\ events' = {x \in events : ~(x.cursor = task.cursor /\ x.envelope = Envelope)}
               \cup {[cursor |-> task.cursor, envelope |-> Envelope, number |-> Number]}
  /\ UNCHANGED <<issues, snapshots, record>>
WriteSnapshot ==
  /\ snapshots' = [snapshots EXCEPT ![Envelope.issue] = Envelope]
  /\ UNCHANGED <<issues, events, record>>
WriteRecord == record' = task.cursor /\ UNCHANGED <<issues, events, snapshots>>

KeepsSnapshot ==
  LET f == snapshots[Envelope.issue] IN f # None /\ ~Replaces(Envelope, f)

\* The puts of a task; the snapshot is only written if it replaces the old one.
Writes ==
  \/ At("envelope") \/ At("event") \/ At("record")
  \/ At("snapshot") /\ ~KeepsSnapshot
Write ==
  \/ At("envelope") /\ WriteEnvelope
  \/ At("event") /\ WriteEvent
  \/ At("snapshot") /\ WriteSnapshot
  \/ At("record") /\ WriteRecord

Continue ==
  \/ At("envelope") /\ GoTo("cursor")
  \/ At("event") /\ GoTo("snapshot")
  \/ At("snapshot") /\ GoTo("record")
  \/ At("record") /\ Settle

Put ==
  /\ Writes /\ Write /\ Continue
  /\ UNCHANGED <<memory, readerVars, roomVars, trouble, sound>>

\* A put that fails may have taken place: the R2 store prunes after it wrote.
PutFails ==
  /\ Writes /\ Trouble
  /\ Write \/ UNCHANGED cacheVars
  /\ Retry
  /\ UNCHANGED <<memory, readerVars, roomVars>>

\* The snapshot in the cache stays.
KeepSnapshot ==
  /\ At("snapshot") /\ KeepsSnapshot
  /\ GoTo("record")
  /\ UNCHANGED <<cacheVars, memory, readerVars, roomVars, trouble, sound>>

\* The snapshot in the cache cannot be read and is replaced.
SnapshotUnread ==
  /\ At("snapshot") /\ KeepsSnapshot
  /\ Trouble /\ sound' = FALSE
  /\ WriteSnapshot /\ GoTo("record")
  /\ UNCHANGED <<memory, readerVars, roomVars>>

-----------------------------------------------------------------------------
(* Followers and pullers *)

\* Entries in the order of their keys, which the cache lists them in.
KeyBefore(x, y) ==
  x.cursor < y.cursor \/ (x.cursor = y.cursor /\ x.envelope.id < y.envelope.id)
Page(entries) ==
  {x \in entries : Cardinality({y \in entries : KeyBefore(y, x)}) < Limit}

\* syncIssues up to the answer of the cache for the cursor: it passes over an
\* entry it cannot read, and a cursor it cannot read counts as 0.
Sync ==
  LET new == {x \in events : x.cursor > follower.after}
      Load(readable, read) ==
        sync' = [busy |-> TRUE, page |-> Page(readable), current |-> Current(read)]
  IN
  /\ ~sync.busy
  /\ \/ Load(new, record) /\ UNCHANGED <<trouble, sound>>
     \/ Load(new, 0) /\ Trouble /\ UNCHANGED sound
     \/ \E x \in new : Load(new \ {x}, record) /\ Trouble /\ sound' = FALSE
  /\ UNCHANGED <<cacheVars, memory, queueVars, follower, puller, roomVars>>

NextAfter(page) ==
  IF page = {} THEN follower.after ELSE Max({x.cursor : x \in page})

\* The cursor it read is written back to memory, and the follower has its page.
\* When this takes the cursor back under a repeated task, the task may end with
\* a cursor below that of an event it left behind.
SyncAnswer ==
  /\ sync.busy
  /\ memory' = sync.current
  /\ follower' = [after |-> NextAfter(sync.page),
                  seen |-> follower.seen \cup {x.number : x \in sync.page}]
  /\ sync' = NoSync
  /\ sound' = (sound /\ (task.attempt > 0 => sync.current >= memory))
  /\ UNCHANGED <<cacheVars, queueVars, puller, roomVars, trouble>>

\* The ids that stand before id in the cache's list, and those that a page from
\* a position on holds (pullIssues).
Listed(id) == Cardinality({j \in issues : j < id})
PullPage(after) == {id \in issues : after <= Listed(id) /\ Listed(id) < after + Limit}

\* The puller goes on by the length of the page, which leaves out entries that
\* cannot be read.
Pulled(lost) ==
  LET page == PullPage(puller.after) IN
  /\ puller.after < MaxPulled
  /\ puller' = [after |-> puller.after + Cardinality(page),
                got |-> puller.got \cup (page \ lost)]
  /\ UNCHANGED <<cacheVars, memory, queueVars, sync, follower, roomVars, sound>>
Pull == Pulled({}) /\ UNCHANGED trouble
PullUnread == Trouble /\ \E id \in PullPage(puller.after) : Pulled({id})

-----------------------------------------------------------------------------
\* Room, cursor, queue and calls are gone; the cache is not, and readers keep
\* what they have.
Restart ==
  /\ Trouble
  /\ room' = << >>
  /\ memory' = 0 /\ queue' = << >> /\ task' = Start /\ sync' = NoSync
  /\ sound' = (sound /\ ~Busy)
  /\ UNCHANGED <<cacheVars, follower, puller, accepted>>

TaskStep == Put \/ KeepSnapshot \/ TakeCursor
SyncStep == Sync \/ SyncAnswer

Next ==
  \/ \E e \in Envelopes : Publish(e)
  \/ PublishOther
  \/ TaskStep \/ PutFails \/ SnapshotUnread
  \/ SyncStep
  \/ Pull \/ PullUnread
  \/ Restart

Spec == Init /\ [][Next]_vars

\* The queue goes on and a follower asks again and again.
Following == WF_vars(TaskStep) /\ WF_vars(SyncStep)

-----------------------------------------------------------------------------
(* Safety *)

\* Events have the order in which the room accepted their envelopes, however
\* often tasks are repeated and envelopes the room forgot are accepted anew.
\* Exceptions, which end sound: a task that is given up or lost, a cursor that
\* cannot be read, and a follower's call that takes the cursor in memory back
\* under a repeated task (cache_persistence_queue.ts 98-123,
\* relay_cache_adapter.ts 255-277).
EventsInOrder ==
  sound => \A x, y \in events : x.number < y.number => x.cursor < y.cursor

\* A follower heard of every event up to its cursor; same exceptions, and an
\* event that cannot be read (relay_cache_adapter.ts 399-446).
FollowerMissesNothing ==
  sound => \A x \in events : x.cursor <= follower.after => x.number \in follower.seen

\* Who follows the events from the cursor he was given sees those of each
\* acceptance, in the order of acceptance, and misses none, but for the
\* exceptions above; he may see one twice.
FollowersReadInOrder == EventsInOrder /\ FollowerMissesNothing

\* The puller has exactly what stands before its position.
InStep == puller.got = {id \in issues : Listed(id) < puller.after}

\* What a puller that is in step misses or gets twice is due to an envelope that
\* was stored under an id smaller than one it has, or to an entry that could not
\* be read, and to nothing else: positions count in a list sorted by id, not in
\* the order of arrival (relay_cache_adapter.ts:548).  TODO.md:154 promises more,
\* to resume at a cursor without duplicates.
PullerStaysInStep ==
  InStep /\ ~PullUnread /\ (\A id \in issues' \ issues : \A j \in puller.got : j < id)
    => InStep'

\* Whatever happens next, who goes on from the cursor he was given, by events or by
\* position, gets what there is, each with the exceptions above
\* (relay_cache_adapter.ts 399-585).
ReadersFollow == [][FollowersReadInOrder' /\ PullerStaysInStep]_vars

\* No stored event is newer than the snapshot of its issue, except that of the
\* other source when the preferred one has spoken; also when events come in
\* the wrong order (relay_cache_adapter.ts 135-166).
SnapshotIsLatest ==
  sound =>
    \A x \in events :
      LET e == x.envelope
          f == snapshots[e.issue]
      IN (\A d \in Envelopes : d.issue = e.issue => d.at # NoTime)
         /\ ~(Busy /\ x.number = Number)
         => /\ f # None
            /\ e.at > f.at => /\ Policy # "last_write"
                              /\ f.source = Policy /\ e.source # Policy

(* Liveness *)

\* In the end a follower has heard of every envelope the room accepted, however
\* often its puts were repeated, unless a task was given up or lost in a restart,
\* an event or cursor could not be read, or a call of a follower took the cursor
\* in memory back while a task was repeated (cache_persistence_queue.ts 81-123,
\* relay_cache_adapter.ts 255-277).
EverythingFollowed == <>[](sound => 1..accepted \subseteq follower.seen)
=============================================================================
