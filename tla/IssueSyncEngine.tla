--------------------------- MODULE IssueSyncEngine ---------------------------
(***************************************************************************)
(* GitHub webhooks (issue_sync_engine.ts and its handlers in               *)
(* memory_handler.ts).  A delivery is published into a room under the id   *)
(* of its envelope, written to the cache, and then remembered; one that    *)
(* cannot be published goes to the dead letter queue, from which it can be *)
(* retried.  Both memories are bounded and drop their oldest entries.      *)
(* Calls overlap at every await.                                           *)
(***************************************************************************)
EXTENDS Integers, SequencesExt

CONSTANTS
  Deliveries,      \* the delivery ids, one envelope id each
  Calls,           \* webhook calls and retries under way at once
  MaxDeliveryIds,  \* maxDeliveryIds
  MaxDlqEntries    \* maxDlqEntries

ASSUME SyncAssumption == {MaxDeliveryIds, MaxDlqEntries} \subseteq Nat \ {0}

VARIABLES
  deliveryIds,  \* the remembered deliveries, oldest first
  dlq,          \* the dead letters in the order of dlqOrder
  held,         \* the deliveries whose envelope is among the messages of its room
  call,         \* how far each call is
  applied,      \* the deliveries whose envelope a room has accepted
  told,         \* the deliveries of which a call was answered
  newer,        \* how many were remembered after a delivery was, up to the limit
  later         \* how many entered the dead letters after one did, up to the limit

engineVars == <<deliveryIds, dlq>>
historyVars == <<applied, told, newer, later>>
vars == <<engineVars, held, call, historyVars>>

Idle == [phase |-> "idle"]
Failed(d) == [phase |-> "failed", delivery |-> d]
Published(d, retry, accepted) ==
  [phase |-> "published", delivery |-> d, retry |-> retry, accepted |-> accepted]
Applied(d) == [phase |-> "applied", delivery |-> d]   \* a retry with result.ok

CallStates ==
  {Idle} \cup {Failed(d) : d \in Deliveries} \cup {Applied(d) : d \in Deliveries}
    \cup {Published(d, r, a) : d \in Deliveries, r \in BOOLEAN, a \in BOOLEAN}

TypeOK ==
  /\ deliveryIds \in Seq(Deliveries) /\ IsInjective(deliveryIds)
  /\ dlq \in Seq(Deliveries) /\ IsInjective(dlq)
  /\ Len(deliveryIds) <= MaxDeliveryIds /\ Len(dlq) <= MaxDlqEntries
  /\ {held, applied, told} \subseteq SUBSET Deliveries
  /\ call \in [Calls -> CallStates]
  /\ newer \in [Deliveries -> 0..MaxDeliveryIds]
  /\ later \in [Deliveries -> 0..MaxDlqEntries]

Init ==
  /\ deliveryIds = << >> /\ dlq = << >> /\ held = {}
  /\ call = [c \in Calls |-> Idle]
  /\ applied = {} /\ told = {}
  /\ newer = [d \in Deliveries |-> MaxDeliveryIds]
  /\ later = [d \in Deliveries |-> 0]

-----------------------------------------------------------------------------
(* The two memories *)

\* hasDeliveryId
Known(d) == d \in ToSet(deliveryIds)

NewestButOne(list, limit) ==  \* mutant: a full memory drops one already
  IF Len(list) >= limit THEN Tail(list) ELSE list
\* The newest of a list, as many as the limit allows.
Newest(list, limit) ==
  SubSeq(list, 1 + (IF Len(list) > limit THEN Len(list) - limit ELSE 0), Len(list))

\* What is counted about the entries before d when d enters.
Entered(count, d, limit) ==
  [e \in Deliveries |-> IF e = d THEN 0 ELSE IF count[e] < limit THEN count[e] + 1 ELSE limit]

\* rememberDeliveryId; an id that is known already keeps its place.
Remembered(d) ==
  IF Known(d) THEN deliveryIds ELSE Newest(Append(deliveryIds, d), MaxDeliveryIds)
Remember(d) ==
  /\ deliveryIds' = Remembered(d)
  /\ newer' = IF Known(d) THEN newer ELSE Entered(newer, d, MaxDeliveryIds)

\* enqueueDlq; an entry that is there already is brought up to date in place.
Dead(d) == d \in ToSet(dlq)
EnqueueAlways(d) ==           \* mutant: the place is not looked up
  /\ dlq' = Newest(Append(dlq, d), MaxDlqEntries)
  /\ later' = Entered(later, d, MaxDlqEntries)
Enqueue(d) ==
  /\ dlq' = IF Dead(d) THEN dlq ELSE Newest(Append(dlq, d), MaxDlqEntries)
  /\ later' = IF Dead(d) THEN later ELSE Entered(later, d, MaxDlqEntries)

\* removeDlq
PlaceOf(d) == CHOOSE i \in DOMAIN dlq : dlq[i] = d
WithoutDead(d) == IF Dead(d) THEN RemoveAt(dlq, PlaceOf(d)) ELSE dlq

-----------------------------------------------------------------------------
(* applyDelivery up to its first await, and the call goes on from there *)

\* The delivery is known: a duplicate.
Duplicate(c, d, retry) ==
  /\ Known(d)
  /\ IF retry
     THEN call' = [call EXCEPT ![c] = Applied(d)] /\ UNCHANGED told
     ELSE told' = told \cup {d} /\ UNCHANGED call
  /\ UNCHANGED <<engineVars, held, applied, newer, later>>

\* The event is missing, which is looked at before anything else; the body cannot
\* be parsed, map refuses it, or publish does.
RefusedRemembers(c, d) ==     \* mutant: the id is taken note of before it is published
  /\ call' = [call EXCEPT ![c] = Failed(d)]
  /\ Remember(d)
  /\ UNCHANGED <<dlq, held, applied, told, later>>
Refused(c, d) ==
  /\ call' = [call EXCEPT ![c] = Failed(d)]
  /\ UNCHANGED <<engineVars, held, historyVars>>

\* publishIntoRoom: accepted, or the room holds the envelope.
Publish(c, d, retry) ==
  /\ ~Known(d)
  /\ call' = [call EXCEPT ![c] = Published(d, retry, d \notin held)]
  /\ held' = held \cup {d}
  /\ applied' = applied \cup {d}
  /\ UNCHANGED <<engineVars, told, newer, later>>

Apply(c, d, retry) ==
  /\ call[c] = Idle
  /\ Duplicate(c, d, retry) \/ Refused(c, d) \/ Publish(c, d, retry)

\* handleGitHubWebhook, once the signature has been verified.
Webhook(c, d) == Apply(c, d, FALSE)

\* handleGitHubWebhookDlqRetry, for an entry it finds.
Retry(c, d) == Dead(d) /\ Apply(c, d, TRUE)

-----------------------------------------------------------------------------
(* After the await *)

\* The envelope is in the cache, or will not get there: the delivery is
\* remembered, and no dead letter any more if the room accepted it now.
PublishReturns(c) ==
  /\ call[c].phase = "published"
  /\ LET d == call[c].delivery IN
       /\ Remember(d)
       /\ dlq' = IF call[c].accepted THEN WithoutDead(d) ELSE dlq
       /\ IF call[c].retry
          THEN call' = [call EXCEPT ![c] = Applied(d)] /\ UNCHANGED told
          ELSE call' = [call EXCEPT ![c] = Idle] /\ told' = told \cup {d}
  /\ UNCHANGED <<held, applied, later>>

\* The handler sees result.ok = false.
FailureReturns(c) ==
  /\ call[c].phase = "failed"
  /\ Enqueue(call[c].delivery)
  /\ told' = told \cup {call[c].delivery}
  /\ call' = [call EXCEPT ![c] = Idle]
  /\ UNCHANGED <<deliveryIds, held, applied, newer>>

\* The retry handler sees result.ok.
RetryReturns(c) ==
  /\ call[c].phase = "applied"
  /\ dlq' = WithoutDead(call[c].delivery)
  /\ told' = told \cup {call[c].delivery}
  /\ call' = [call EXCEPT ![c] = Idle]
  /\ UNCHANGED <<deliveryIds, held, applied, newer, later>>

-----------------------------------------------------------------------------
\* Other messages push the envelope of d out of its room.
PushOut(d) ==
  /\ d \in held
  /\ held' = held \ {d}
  /\ UNCHANGED <<engineVars, call, historyVars>>

\* snapshot, then restore in a new relay: calls under way break off.
Restart ==
  /\ call' = [c \in Calls |-> Idle]
  /\ dlq' = SubSeq(dlq, 1, IF Len(dlq) > MaxDlqEntries THEN MaxDlqEntries ELSE Len(dlq))
  /\ UNCHANGED <<deliveryIds, held, historyVars>>

Next ==
  \/ Restart
  \/ \E d \in Deliveries : PushOut(d)
  \/ \E c \in Calls :
       \/ \E d \in Deliveries : Webhook(c, d) \/ Retry(c, d)
       \/ PublishReturns(c) \/ FailureReturns(c) \/ RetryReturns(c)

Spec == Init /\ [][Next]_vars

-----------------------------------------------------------------------------
(* Safety *)

\* A delivery that was answered has reached its room, or waits among the dead
\* letters, unless newer ones pushed it out there: whatever other calls of the same
\* delivery were under way, and whenever a restart broke them off (lines 234-247).
NothingLost ==
  \A d \in told : d \in applied \/ Dead(d) \/ later[d] = MaxDlqEntries

\* Once remembered, a delivery is not accepted again before as many others were
\* remembered as the limit allows, even if its room has lost it (lines 98-108, 199).
AcceptedNow(d) ==
  \E c \in Calls, r \in BOOLEAN : call[c] = Idle /\ call'[c] = Published(d, r, TRUE)
AppliedOncePerWindow ==
  [][\A d \in Deliveries : AcceptedNow(d) => newer[d] = MaxDeliveryIds]_vars
=============================================================================
