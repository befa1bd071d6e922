---------------------------- MODULE R2CacheStore ----------------------------
(***************************************************************************)
(* The cache store over an R2 bucket (createR2CacheStore of cache_store.ts *)
(* 397-549), beside a store in memory that gets the same calls.  A put     *)
(* writes to the bucket, lists it, and deletes one by one what the policy  *)
(* does not keep; other calls come between these steps, and each call of   *)
(* the bucket may fail.  A reader pages through the list.                  *)
(***************************************************************************)
EXTENDS Integers, FiniteSets, SequencesExt

CONSTANTS
  Callers,     \* callers of the store beside the reader
  Reader,      \* the caller that lists
  Keys,        \* numbers, in the order of the keys
  Sizes,       \* sizes of bodies
  Ttl,         \* ttlSec, 0 if there is none
  MaxBytes,    \* maxBytes, 0 if there is none
  Limit,       \* entries of the reader's pages
  MaxEvents,   \* bound on puts, removals and failing calls of the bucket together
  MaxTime      \* bound on the clock

ASSUME R2Assumption ==
  /\ Reader \notin Callers
  /\ Keys \subseteq Nat /\ Sizes \subseteq Nat
  /\ Ttl \in Nat /\ MaxBytes \in Nat /\ Limit \in Nat \ {0}
  /\ {MaxEvents, MaxTime} \subseteq Nat

VARIABLES
  now,       \* nowEpochSec()
  bucket,    \* the objects of the bucket
  memory,    \* the records of a store in memory that gets the same calls
  calls,     \* how far each caller's call is, and what it will delete
  reader,    \* the reader's way through the list, and what it should find
  happened,  \* how many puts and removals began and how many calls failed
  behind,    \* a put failed after its write, and none has listed since
  raced      \* a write or removal came before the deletions of an earlier call,
             \* and not as the newest record (OutOfTurn)

storeVars == <<now, bucket, memory, calls, reader, happened, behind, raced>>

M == INSTANCE MemoryCacheStore WITH records <- memory

Everyone == Callers \cup {Reader}
Idle == [step |-> "idle", op |-> "put", record |-> << >>, doomed |-> << >>]
NoReading == [phase |-> "idle", cursor |-> 0, got |-> {}, entries |-> {}, stored |-> {}, removed |-> 0]

FreshKeys == {r.key : r \in M!Fresh(bucket)}

StoreTypeOK ==
  /\ now \in 0..MaxTime
  /\ bucket \subseteq M!Records(Keys, Sizes) /\ M!Keyed(bucket)
  /\ memory \subseteq M!Records(Keys, Sizes) /\ M!Keyed(memory)
  /\ \A c \in Everyone :
       /\ calls[c].step \in {"idle", "write", "list", "delete"}
       /\ calls[c].op \in {"put", "get", "remove", "list"}
       /\ calls[c].doomed \in Seq(Keys)
       /\ calls[c].step = "delete" <=> calls[c].doomed # << >>
       /\ calls[c].step = "write" => calls[c].record \in M!Records(Keys, Sizes)
  /\ reader.phase \in {"idle", "ready", "listing", "done"}
  /\ reader.cursor \in Nat /\ reader.removed \in Nat
  /\ reader.got \cup reader.stored \cup reader.entries \subseteq Keys
  /\ happened \in 0..MaxEvents
  /\ behind \in BOOLEAN /\ raced \in BOOLEAN

StoreInit ==
  /\ now = 0 /\ bucket = {} /\ memory = {}
  /\ calls = [c \in Everyone |-> Idle]
  /\ reader = NoReading
  /\ happened = 0 /\ behind = FALSE /\ raced = FALSE

-----------------------------------------------------------------------------
(* Steps of calls *)

\* What the reader should find, while it is on its way.
Observe ==
  reader' = IF reader.phase \in {"ready", "listing"}
            THEN [reader EXCEPT !.stored = @ \cap FreshKeys',
                                !.removed = @ + Cardinality(FreshKeys \ FreshKeys')]
            ELSE reader

Happens == happened < MaxEvents /\ happened' = happened + 1
Becomes(c, call) == calls' = [calls EXCEPT ![c] = call]
DoomAgain(call, doomed) ==   \* mutant: the call does not end after its last deletion
  [call EXCEPT !.step = "delete", !.doomed = doomed]
Doom(call, doomed) ==
  IF doomed = << >> THEN Idle
  ELSE [call EXCEPT !.step = "delete", !.doomed = doomed]

\* Something is to be deleted by another call than c, or by a later one.
Untidy(c) == behind \/ \E d \in Everyone \ {c} : calls[d].step \in {"list", "delete"}

OutOfTurn(c, r) ==
  \/ Untidy(c) /\ \E s \in bucket : s.key = r.key \/ M!Older(r, s)
  \/ \E d \in Everyone \ {c} : r.key \in ToSet(calls[d].doomed)

\* put up to the write; the record has the time of the call.
Put(c, key, size) ==
  /\ calls[c].step = "idle" /\ Happens
  /\ Becomes(c, [Idle EXCEPT !.step = "write", !.record = [key |-> key, at |-> now, size |-> size]])
  /\ UNCHANGED <<now, bucket, memory, reader, behind, raced>>

Written(c) ==
  LET r == calls[c].record IN
  /\ bucket' = M!Without(bucket, r.key) \cup {r}
  /\ M!Put(r)
  /\ raced' = (raced \/ OutOfTurn(c, r))

\* The bucket has the object; without a policy the put is done.
Write(c) ==
  /\ calls[c].step = "write"
  /\ Written(c)
  /\ Becomes(c, IF Ttl = 0 /\ MaxBytes = 0 THEN Idle ELSE [Idle EXCEPT !.step = "list"])
  /\ UNCHANGED <<now, happened, behind>>
  /\ Observe

\* The deletions come in this order: the expired in the order of the bucket's
\* list, then the oldest.
Before(r, s) == IF M!Expired(r) /\ M!Expired(s) THEN r.key < s.key ELSE M!Older(r, s)
InTurn(D) ==
  [n \in 1..Cardinality(D) |->
     (CHOOSE r \in D : Cardinality({s \in D : Before(s, r)}) = n - 1).key]

ExpiredRecords == bucket \ M!Fresh(bucket)

ExceededOnlyOldest ==        \* mutant: at most one record goes
  LET D == M!Fresh(bucket) \ M!Fits(M!Fresh(bucket))
  IN {r \in D : \A s \in D : ~M!Older(s, r)}
\* What enforceMaxBytesPolicy deletes when the expired are gone.
Exceeded == M!Fresh(bucket) \ M!Fits(M!Fresh(bucket))

\* applyPolicyAfterWrite lists the bucket, whose objects come in one page.
ListForPolicy(c) ==
  /\ calls[c].step = "list"
  /\ Becomes(c, Doom(calls[c], InTurn(ExpiredRecords \cup Exceeded)))
  /\ behind' = FALSE
  /\ UNCHANGED <<now, bucket, memory, reader, happened, raced>>

\* get of an expired record, which it deletes; also the get of a removal.
Get(c, r) ==
  /\ calls[c].step = "idle" /\ r \in bucket /\ M!Expired(r)
  /\ Becomes(c, Doom([Idle EXCEPT !.op = "get"], <<r.key>>))
  /\ M!Get(r.key)
  /\ UNCHANGED <<now, bucket, reader, happened, behind, raced>>

\* remove up to the deletion, for a record its get has found.
RemoveRecord(c, r) ==
  /\ calls[c].step = "idle" /\ r \in bucket /\ ~M!Expired(r) /\ Happens
  /\ Becomes(c, Doom([Idle EXCEPT !.op = "remove"], <<r.key>>))
  /\ UNCHANGED <<now, bucket, memory, reader, behind, raced>>

\* The bucket deletes what has the key now.
Delete(c) ==
  LET key == Head(calls[c].doomed) IN
  /\ calls[c].step = "delete"
  /\ bucket' = M!Without(bucket, key)
  /\ Becomes(c, Doom(calls[c], Tail(calls[c].doomed)))
  /\ \/ calls[c].op = "remove" /\ M!RemoveRecord(key) /\ raced' = (raced \/ Untidy(c))
     \/ calls[c].op # "remove" /\ UNCHANGED <<memory, raced>>
  /\ UNCHANGED <<now, happened, behind>>
  /\ Observe

\* A call of the bucket fails, and so does the call of the store; a write may
\* have taken place.
Fail(c) ==
  /\ calls[c].step # "idle" /\ Happens
  /\ UNCHANGED now
  /\ Becomes(c, Idle)
  /\ \/ calls[c].step = "write" /\ Written(c) /\ behind' = TRUE /\ Observe
     \/ /\ reader' = IF c = Reader THEN NoReading ELSE reader
        /\ behind' = (behind \/ calls[c].step = "list" \/ (calls[c].step = "delete" /\ calls[c].op = "put"))
        /\ UNCHANGED <<bucket, memory, raced>>

-----------------------------------------------------------------------------
(* The reader *)

\* list, up to the deletion of what has expired.
List ==
  /\ calls[Reader].step = "idle" /\ reader.phase \in {"idle", "ready"}
  /\ reader' = [reader EXCEPT !.phase = "listing", !.entries = FreshKeys,
                              !.stored = IF reader.phase = "idle" THEN FreshKeys ELSE @]
  /\ Becomes(Reader, Doom([Idle EXCEPT !.op = "list"], InTurn(ExpiredRecords)))
  /\ M!List
  /\ UNCHANGED <<now, bucket, happened, behind, raced>>

NextCursorByLimit(page) == reader.cursor + Limit + 1   \* mutant: one entry too far
NextCursor(page) == reader.cursor + Cardinality(page)

\* The page goes to the reader, who asks for the next one if there is a cursor.
Page ==
  LET page == M!PageAt(reader.entries, reader.cursor, Limit)
      next == NextCursor(page)
  IN
  /\ calls[Reader].step = "idle" /\ reader.phase = "listing"
  /\ reader' = [reader EXCEPT !.phase = IF next < Cardinality(reader.entries) THEN "ready" ELSE "done",
                              !.got = @ \cup page, !.cursor = next, !.entries = {}]
  /\ UNCHANGED <<now, bucket, memory, calls, happened, behind, raced>>

Tick ==
  /\ now < MaxTime /\ now' = now + 1
  /\ UNCHANGED <<bucket, memory, calls, happened, behind, raced>>
  /\ Observe

StoreNext ==
  \/ \E c \in Callers :
       \/ \E key \in Keys, size \in Sizes : Put(c, key, size)
       \/ Write(c) \/ ListForPolicy(c)
       \/ \E r \in bucket : Get(c, r) \/ RemoveRecord(c, r)
  \/ \E c \in Everyone : Delete(c) \/ Fail(c)
  \/ List \/ Page
  \/ Tick

StoreSpec == StoreInit /\ [][StoreNext]_storeVars

-----------------------------------------------------------------------------
(* Safety *)

Quiet == \A c \in Everyone : calls[c].step = "idle"

\* However the calls overlapped, when they are over the bucket is within its
\* limit, unless a put failed on its way and none came after it
\* (cache_store.ts 447-471).
FitsWhenQuiet == Quiet /\ ~behind /\ MaxBytes # 0 => M!Total(bucket) <= MaxBytes

\* The two stores keep the same records, although one of them cleans up late and
\* step by step (cache_store.ts 246-287 and 447-482), as the contract that the
\* tests run on both wants (cache_store_contract_test.ts 249-260).
SameRecords == Quiet /\ ~behind /\ ~raced => M!Fresh(bucket) = M!Fresh(memory)

\* Once its calls are over the bucket is as the memory store would be.
QuietStoresAgree == FitsWhenQuiet /\ SameRecords

\* A reader, whose cursor counts entries, misses no more of the records that
\* stayed all the time than went away meanwhile (cache_store.ts 215-232).
MissedAtMostRemoved == reader.phase = "done" => Cardinality(reader.stored \ reader.got) <= reader.removed
=============================================================================
