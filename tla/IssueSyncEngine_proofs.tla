----------------------- MODULE IssueSyncEngine_proofs -----------------------
(***************************************************************************)
(* Proofs about IssueSyncEngine, for any deliveries, calls and limits: the *)
(* types with the limits of both memories, that no answered delivery gets  *)
(* lost, and that one is not accepted again before as many others were     *)
(* remembered as the limit allows.                                         *)
(***************************************************************************)
EXTENDS IssueSyncEngine, SequenceTheorems, TLAPS

\* A memory as the engine keeps one: each delivery once, up to a limit.
Memory(list, limit) ==
  list \in Seq(Deliveries) /\ IsInjective(list) /\ Len(list) <= limit

\* A delivery's count is not behind the entries that follow it.
Follows(list, count) ==
  \A i \in DOMAIN list : Len(list) - i <= count[list[i]]

\* What was published for a call, remembered or applied was accepted by a room.
AppliedInv ==
  /\ \A d \in Deliveries : Known(d) => d \in applied
  /\ \A c \in Calls : call[c].phase \in {"published", "applied"} => call[c].delivery \in applied

\* A delivery that is not remembered has seen the memory turn over.
NewerInv ==
  /\ Follows(deliveryIds, newer)
  /\ \A d \in Deliveries : ~Known(d) => newer[d] = MaxDeliveryIds

\* A dead letter is pushed out by as many that entered after it as there is room.
LaterInv == Follows(dlq, later) /\ NothingLost

SyncInv == TypeOK /\ AppliedInv /\ NewerInv /\ LaterInv

-----------------------------------------------------------------------------
(* The two memories *)

\* A new delivery enters at the end; a full memory drops its oldest one.
LEMMA NewestIs ==
  ASSUME NEW limit \in Nat \ {0}, NEW list \in Seq(Deliveries), Len(list) <= limit,
         NEW d \in Deliveries
  PROVE  LET new == Newest(Append(list, d), limit)
             dropped == IF Len(list) = limit THEN 1 ELSE 0 IN
         /\ new \in Seq(Deliveries) /\ Len(new) = Len(list) + 1 - dropped
         /\ DOMAIN new = 1..Len(new) /\ DOMAIN list = 1..Len(list) /\ Len(list) \in Nat
         /\ \A i \in 1..(Len(new) - 1) : new[i] = list[i + dropped]
         /\ new[Len(new)] = d
<1> DEFINE longer == Append(list, d)
           dropped == IF Len(list) = limit THEN 1 ELSE 0
           n == Len(list)
           first == 1 + dropped
           last == n + 1
           new == SubSeq(longer, first, last)
<1>1. n \in Nat /\ DOMAIN list = 1..n /\ n <= limit
  BY LenProperties
<1>2. /\ longer \in Seq(Deliveries) /\ Len(longer) = n + 1 /\ longer[n + 1] = d
      /\ \A i \in 1..n : longer[i] = list[i]
  BY AppendProperties
<1>3. \A i \in 1..(n + 1) : longer[i] \in Deliveries
  BY <1>2, ElementOfSeq
<1>4. (n = limit /\ dropped = 1) \/ (n < limit /\ dropped = 0)
  <2>1. CASE n = limit
    BY <2>1
  <2>2. CASE n # limit
    <3>1. n < limit
      <4>1. n \in Nat /\ n <= limit
        BY <1>1
      <4> HIDE DEF n
      <4> QED
        BY ONLY <2>2, <4>1, limit \in Nat
    <3> QED
      BY <2>2, <3>1
  <2> QED
    BY <2>1, <2>2
<1> HIDE DEF longer, n
<1>5. Newest(longer, limit) = new
  <2> HIDE DEF dropped
  <2>1. (IF Len(longer) > limit THEN Len(longer) - limit ELSE 0) = dropped
    BY <1>1, <1>2, <1>4
  <2> QED
    BY <1>2, <2>1 DEF Newest
<1> HIDE DEF dropped
<1>6. /\ new \in Seq(Deliveries) /\ Len(new) = n + 1 - dropped
      /\ \A i \in 1..(n + 1 - dropped) : new[i] = longer[i + dropped]
  <2>1. /\ first \in Int /\ last \in Int /\ first <= last
        /\ \A i \in first..last : longer[i] \in Deliveries
    BY <1>1, <1>3, <1>4
  <2> HIDE DEF first, last
  <2>2. /\ new \in Seq(Deliveries)
        /\ Len(new) = IF first <= last THEN last - first + 1 ELSE 0
        /\ \A i \in 1..(last - first + 1) : new[i] = longer[first + i - 1]
    BY ONLY <2>1, SubSeqProperties
  <2> HIDE DEF new
  <2>3. last - first + 1 = n + 1 - dropped /\ \A i \in Int : first + i - 1 = i + dropped
    <3> dropped \in Int
      BY <1>4
    <3> QED
      BY <1>1 DEF first, last
  <2>4. Len(new) = n + 1 - dropped
    BY <2>1, <2>2, <2>3
  <2>5. \A i \in 1..(n + 1 - dropped) : i \in 1..(last - first + 1) /\ i \in Int
    BY <2>3
  <2> QED
    BY <2>2, <2>3, <2>4, <2>5
<1> HIDE DEF new
<1>7. DOMAIN new = 1..Len(new)
  BY <1>6, LenProperties
<1>8. \A i \in 1..(Len(new) - 1) : new[i] = list[i + dropped]
  BY <1>1, <1>2, <1>4, <1>6
<1>9. new[Len(new)] = d
  BY <1>1, <1>2, <1>4, <1>6
<1> QED
  BY <1>1, <1>5, <1>6, <1>7, <1>8, <1>9 DEF n, dropped, longer

\* What a memory and its counts are when a delivery has entered.
LEMMA EnteringKeeps ==
  ASSUME NEW limit \in Nat \ {0}, NEW list, Memory(list, limit),
         NEW d \in Deliveries, d \notin ToSet(list),
         NEW count \in [Deliveries -> 0..limit], Follows(list, count)
  PROVE  LET new == Newest(Append(list, d), limit)
             counted == Entered(count, d, limit) IN
         /\ Memory(new, limit) /\ counted \in [Deliveries -> 0..limit]
         /\ Follows(new, counted)
         /\ d \in ToSet(new) /\ ToSet(new) \subseteq ToSet(list) \cup {d}
         /\ \A e \in Deliveries \ {d} : count[e] = limit => counted[e] = limit
         /\ \A e \in ToSet(list) \ ToSet(new) : counted[e] = limit
<1> DEFINE new == Newest(Append(list, d), limit)
           counted == Entered(count, d, limit)
           n == Len(list)
           m == Len(new)
           dropped == IF n = limit THEN 1 ELSE 0
<1>1. /\ list \in Seq(Deliveries) /\ n <= limit
      /\ \A i, j \in DOMAIN list : list[i] = list[j] => i = j
  BY DEF Memory, IsInjective
<1>2. /\ new \in Seq(Deliveries) /\ m = n + 1 - dropped
      /\ DOMAIN new = 1..m /\ DOMAIN list = 1..n /\ n \in Nat
      /\ \A i \in 1..(m - 1) : new[i] = list[i + dropped]
      /\ new[m] = d
  BY <1>1, NewestIs
<1>3. /\ (n = limit /\ dropped = 1) \/ (n < limit /\ dropped = 0)
      /\ m \in Nat /\ m <= limit /\ m > 0
  <2> HIDE DEF n, m
  <2>1. CASE n = limit
    BY <1>2, <2>1
  <2>2. CASE n # limit
    BY <1>1, <1>2, <2>2
  <2> QED
    BY <2>1, <2>2
<1>4. /\ counted \in [Deliveries -> 0..limit] /\ counted[d] = 0
      /\ \A e \in Deliveries \ {d} :
           counted[e] = IF count[e] < limit THEN count[e] + 1 ELSE limit
  <2>1. \A e \in Deliveries : count[e] \in 0..limit
    OBVIOUS
  <2> QED
    BY <2>1 DEF Entered
<1>5. \A i \in 1..n : /\ list[i] \in Deliveries \ {d} /\ count[list[i]] \in 0..limit
                     /\ n - i <= count[list[i]]
  <2>1. \A i \in 1..n : list[i] \in Deliveries /\ list[i] \in ToSet(list)
    BY <1>1, <1>2, ElementOfSeq DEF ToSet
  <2> QED
    BY <1>2, <2>1 DEF Follows
<1> HIDE DEF new, counted, n, m, dropped
<1>6. \A i \in 1..(m - 1) : i + dropped \in 1..n
  BY <1>2, <1>3
<1>7. IsInjective(new)
  <2> SUFFICES ASSUME NEW i \in 1..m, NEW j \in 1..m, new[i] = new[j] PROVE i = j
    BY <1>2 DEF IsInjective
  <2>1. CASE i = m /\ j = m
    BY <2>1
  <2>2. CASE i \in 1..(m - 1) /\ j \in 1..(m - 1)
    <3>1. i + dropped = j + dropped
      BY <1>1, <1>2, <1>6, <2>2
    <3> QED
      BY <1>3, <3>1
  <2>3. CASE i = m /\ j \in 1..(m - 1)
    BY <1>2, <1>5, <1>6, <2>3
  <2>4. CASE j = m /\ i \in 1..(m - 1)
    BY <1>2, <1>5, <1>6, <2>4
  <2> QED
    BY <1>3, <2>1, <2>2, <2>3, <2>4
<1>8. Follows(new, counted)
  <2> SUFFICES ASSUME NEW i \in 1..m PROVE m - i <= counted[new[i]]
    BY <1>2 DEF Follows
  <2>1. CASE i = m
    BY <1>2, <1>3, <1>4, <2>1
  <2>2. CASE i # m
    <3> DEFINE k == i + dropped
               e == list[k]
    <3>1. i \in 1..(m - 1) /\ new[i] = e /\ k \in 1..n
      BY <1>2, <1>3, <1>6, <2>2
    <3>2. /\ e \in Deliveries \ {d} /\ count[e] \in 0..limit /\ n - k <= count[e]
          /\ counted[e] = IF count[e] < limit THEN count[e] + 1 ELSE limit
      BY <1>4, <1>5, <3>1
    <3>3. m - i = n - k + 1 /\ m - i <= limit
      <4>1. m \in Nat /\ n \in Nat /\ dropped \in Int /\ m = n + 1 - dropped /\ m <= limit
        BY <1>2, <1>3
      <4> QED
        BY ONLY <4>1, i \in 1..m, limit \in Nat \ {0}
    <3> HIDE DEF k, e
    <3>4. m - i <= counted[e]
      BY <1>2, <1>3, <3>1, <3>2, <3>3
    <3> QED
      BY <3>1, <3>4
  <2> QED
    BY <2>1, <2>2
<1>9. d \in ToSet(new) /\ ToSet(new) \subseteq ToSet(list) \cup {d}
  <2>1. d \in ToSet(new)
    BY <1>2, <1>3 DEF ToSet
  <2>2. \A i \in 1..m : i = m \/ i \in 1..(m - 1)
    BY <1>3
  <2>3. \A i \in 1..m : new[i] = d \/ new[i] \in ToSet(list)
    BY <1>2, <1>6, <2>2 DEF ToSet
  <2> QED
    BY <1>2, <2>1, <2>3 DEF ToSet
<1>10. \A e \in Deliveries \ {d} : count[e] = limit => counted[e] = limit
  BY <1>4
<1>11. ASSUME NEW e \in ToSet(list) \ ToSet(new) PROVE counted[e] = limit
  <2>1. PICK k \in 1..n : e = list[k]
    BY <1>2 DEF ToSet
  <2>2. dropped = 1 /\ k = 1
    <3>1. ~(k - dropped \in 1..(m - 1))
      <4> DEFINE j == k - dropped
      <4> SUFFICES ASSUME j \in 1..(m - 1) PROVE FALSE
        OBVIOUS
      <4>1. j + dropped = k
        BY <1>3
      <4> HIDE DEF j
      <4>2. new[j] = e /\ j \in 1..m
        BY <1>2, <1>3, <2>1, <4>1
      <4> QED
        BY <1>2, <1>11, <4>2 DEF ToSet
    <3> QED
      BY <1>2, <1>3, <3>1
  <2>3. n = limit /\ limit - 1 <= count[e] /\ count[e] \in 0..limit /\ e \in Deliveries \ {d}
    BY <1>2, <1>3, <1>5, <2>1, <2>2
  <2> QED
    BY <1>4, <2>3
<1> QED
  BY <1>2, <1>3, <1>4, <1>7, <1>8, <1>9, <1>10, <1>11 DEF Memory, new, counted, m

\* What a memory is when the entry at a place is taken out.
LEMMA RemovingKeeps ==
  ASSUME NEW limit \in Nat \ {0}, NEW list, Memory(list, limit), NEW k \in DOMAIN list,
         NEW count \in [Deliveries -> 0..limit], Follows(list, count)
  PROVE  LET new == RemoveAt(list, k) IN
         /\ Memory(new, limit) /\ Follows(new, count)
         /\ ToSet(new) \subseteq ToSet(list)
         /\ \A e \in ToSet(list) \ {list[k]} : e \in ToSet(new)
<1> DEFINE new == RemoveAt(list, k)
           n == Len(list)
           before == SubSeq(list, 1, k - 1)
           after == SubSeq(list, k + 1, n)
           old(i) == IF i < k THEN i ELSE i + 1
<1>1. /\ list \in Seq(Deliveries) /\ n <= limit /\ n \in Nat /\ DOMAIN list = 1..n
      /\ k \in 1..n /\ \A i, j \in DOMAIN list : list[i] = list[j] => i = j
  BY LenProperties DEF Memory, IsInjective
<1>2. \A i \in 1..n : list[i] \in Deliveries /\ count[list[i]] \in 0..limit
  BY <1>1, ElementOfSeq
<1> HIDE DEF n
<1>3. before \in Seq(Deliveries) /\ Len(before) = k - 1
      /\ \A i \in 1..(k - 1) : before[i] = list[i]
  <2> DEFINE last == k - 1
  <2>1. 1 \in Int /\ last \in Int /\ \A i \in 1..last : list[i] \in Deliveries
    BY <1>1, <1>2
  <2>2. (IF 1 <= last THEN last - 1 + 1 ELSE 0) = last /\ last - 1 + 1 = last
        /\ \A i \in Int : 1 + i - 1 = i
    BY <1>1
  <2> HIDE DEF last
  <2>3. /\ SubSeq(list, 1, last) \in Seq(Deliveries)
        /\ Len(SubSeq(list, 1, last)) = IF 1 <= last THEN last - 1 + 1 ELSE 0
        /\ \A i \in 1..(last - 1 + 1) : SubSeq(list, 1, last)[i] = list[1 + i - 1]
    BY ONLY <2>1, SubSeqProperties
  <2>4. \A i \in 1..last : SubSeq(list, 1, last)[i] = list[i]
    BY <2>2, <2>3
  <2>5. Len(SubSeq(list, 1, last)) = last
    BY <2>2, <2>3
  <2> QED
    BY <2>3, <2>4, <2>5 DEF last
<1>4. after \in Seq(Deliveries) /\ Len(after) = n - k
      /\ \A i \in 1..(n - k) : after[i] = list[k + i]
  <2> DEFINE first == k + 1
  <2>1. first \in Int /\ n \in Int /\ \A i \in first..n : list[i] \in Deliveries
    BY <1>1, <1>2
  <2>2. (IF first <= n THEN n - first + 1 ELSE 0) = n - k /\ n - first + 1 = n - k
        /\ \A i \in Int : first + i - 1 = k + i
    BY <1>1
  <2> HIDE DEF first
  <2>3. /\ SubSeq(list, first, n) \in Seq(Deliveries)
        /\ Len(SubSeq(list, first, n)) = IF first <= n THEN n - first + 1 ELSE 0
        /\ \A i \in 1..(n - first + 1) : SubSeq(list, first, n)[i] = list[first + i - 1]
    BY ONLY <2>1, SubSeqProperties
  <2>4. \A i \in 1..(n - k) : SubSeq(list, first, n)[i] = list[k + i]
    BY <2>2, <2>3
  <2>5. Len(SubSeq(list, first, n)) = n - k
    BY <2>2, <2>3
  <2> QED
    BY <2>3, <2>4, <2>5 DEF first
<1>5. new = before \o after
  BY DEF RemoveAt, n
<1> HIDE DEF before, after, new
<1>6. /\ new \in Seq(Deliveries) /\ Len(new) = n - 1 /\ DOMAIN new = 1..(n - 1)
      /\ \A i \in 1..(n - 1) : old(i) \in 1..n /\ new[i] = list[old(i)]
  <2>1. /\ new \in Seq(Deliveries) /\ Len(new) = Len(before) + Len(after)
        /\ \A i \in 1..(Len(before) + Len(after)) :
             new[i] = IF i <= Len(before) THEN before[i] ELSE after[i - Len(before)]
    BY <1>3, <1>4, <1>5, ConcatProperties
  <2>2. Len(before) + Len(after) = n - 1
    BY <1>1, <1>3, <1>4
  <2>3. DOMAIN new = 1..(n - 1)
    BY <2>1, <2>2, LenProperties
  <2>4. ASSUME NEW i \in 1..(n - 1) PROVE old(i) \in 1..n /\ new[i] = list[old(i)]
    <3>1. CASE i < k
      BY <1>1, <1>3, <2>1, <2>2, <3>1
    <3>2. CASE ~(i < k)
      <4> DEFINE j == i - (k - 1)
      <4>1. j \in 1..(n - k) /\ ~(i <= k - 1) /\ k + j = i + 1 /\ i + 1 \in 1..n
        BY <1>1, <3>2
      <4>2. new[i] = after[j]
        BY <1>3, <2>1, <2>2, <4>1
      <4> HIDE DEF j
      <4>3. new[i] = list[i + 1]
        BY <1>4, <4>1, <4>2
      <4> QED
        BY <3>2, <4>1, <4>3
    <3> QED
      BY <3>1, <3>2
  <2> QED
    BY <2>1, <2>2, <2>3, <2>4
<1>7. \A i \in 1..(n - 1), j \in 1..(n - 1) : old(i) = old(j) => i = j
  BY <1>1
<1>8. \A i \in 1..(n - 1) : (n - 1) - i <= n - old(i)
  BY <1>1
<1>9. \A m \in 1..n : m # k => \E i \in 1..(n - 1) : old(i) = m
  <2> SUFFICES ASSUME NEW m \in 1..n, m # k PROVE \E i \in 1..(n - 1) : old(i) = m
    OBVIOUS
  <2> DEFINE i == IF m < k THEN m ELSE m - 1
  <2>1. i \in 1..(n - 1) /\ old(i) = m
    BY <1>1
  <2> QED
    BY <2>1
<1> HIDE DEF old
<1>10. IsInjective(new)
  BY <1>1, <1>6, <1>7 DEF IsInjective
<1>11. Follows(new, count)
  <2> SUFFICES ASSUME NEW i \in 1..(n - 1) PROVE (n - 1) - i <= count[new[i]]
    BY <1>6 DEF Follows
  <2> DEFINE m == old(i)
             e == count[new[i]]
  <2>1. m \in 1..n /\ e \in 0..limit /\ n - m <= e /\ (n - 1) - i <= n - m
    BY <1>1, <1>2, <1>6, <1>8 DEF Follows, n
  <2> HIDE DEF m, e
  <2>2. (n - 1) - i <= e
    BY <1>1, <2>1
  <2> QED
    BY <2>2 DEF e
<1>12. ToSet(new) \subseteq ToSet(list)
  BY <1>1, <1>6 DEF ToSet
<1>13. ASSUME NEW e \in ToSet(list), e # list[k] PROVE e \in ToSet(new)
  <2>1. PICK m \in 1..n : m # k /\ e = list[m]
    BY <1>1, <1>13 DEF ToSet
  <2>2. PICK i \in 1..(n - 1) : old(i) = m
    BY <1>9, <2>1
  <2> QED
    BY <1>6, <2>1, <2>2 DEF ToSet
<1>14. Len(new) <= limit
  BY <1>1, <1>6
<1> QED
  BY <1>6, <1>10, <1>11, <1>12, <1>13, <1>14 DEF Memory, new

-----------------------------------------------------------------------------
(* What the operations of the engine keep *)

LEMMA Limits == MaxDeliveryIds \in Nat \ {0} /\ MaxDlqEntries \in Nat \ {0}
BY SyncAssumption DEF SyncAssumption

LEMMA MemoryFacts ==
  ASSUME TypeOK
  PROVE  /\ Memory(deliveryIds, MaxDeliveryIds) /\ Memory(dlq, MaxDlqEntries)
         /\ newer \in [Deliveries -> 0..MaxDeliveryIds]
         /\ later \in [Deliveries -> 0..MaxDlqEntries]
         /\ ToSet(deliveryIds) \subseteq Deliveries /\ ToSet(dlq) \subseteq Deliveries
<1>1. deliveryIds \in Seq(Deliveries) /\ dlq \in Seq(Deliveries)
  BY DEF TypeOK
<1>2. /\ DOMAIN deliveryIds = 1..Len(deliveryIds) /\ DOMAIN dlq = 1..Len(dlq)
      /\ \A i \in 1..Len(deliveryIds) : deliveryIds[i] \in Deliveries
      /\ \A i \in 1..Len(dlq) : dlq[i] \in Deliveries
  BY <1>1, LenProperties, ElementOfSeq
<1> QED
  BY <1>2 DEF TypeOK, Memory, ToSet

LEMMA CallFacts ==
  ASSUME TypeOK, NEW c \in Calls
  PROVE  /\ call[c].phase \in {"published", "failed", "applied"} => call[c].delivery \in Deliveries
         /\ Applied(call[c].delivery).phase = "applied"
<1>1. call[c] \in CallStates
  BY DEF TypeOK
<1> QED
  BY <1>1 DEF CallStates, Idle, Failed, Published, Applied

\* rememberDeliveryId
LEMMA RememberKeeps ==
  ASSUME TypeOK, NewerInv, NEW d \in Deliveries, Remember(d)
  PROVE  /\ Memory(deliveryIds', MaxDeliveryIds)
         /\ newer' \in [Deliveries -> 0..MaxDeliveryIds]
         /\ NewerInv'
         /\ \A e \in Deliveries : Known(e)' => Known(e) \/ e = d
<1>1. CASE Known(d)
  <2>1. UNCHANGED <<deliveryIds, newer>>
    BY <1>1 DEF Remember, Remembered
  <2>2. NewerInv'
    BY <2>1 DEF NewerInv, Known, Follows
  <2> QED
    BY <2>1, <2>2, MemoryFacts DEF Known
<1>2. CASE ~Known(d)
  <2> DEFINE new == Newest(Append(deliveryIds, d), MaxDeliveryIds)
             counted == Entered(newer, d, MaxDeliveryIds)
  <2>1. deliveryIds' = new /\ newer' = counted
    BY <1>2 DEF Remember, Remembered
  <2>2. /\ Memory(new, MaxDeliveryIds) /\ counted \in [Deliveries -> 0..MaxDeliveryIds]
        /\ Follows(new, counted)
        /\ d \in ToSet(new) /\ ToSet(new) \subseteq ToSet(deliveryIds) \cup {d}
        /\ \A e \in Deliveries \ {d} :
             newer[e] = MaxDeliveryIds => counted[e] = MaxDeliveryIds
        /\ \A e \in ToSet(deliveryIds) \ ToSet(new) : counted[e] = MaxDeliveryIds
    BY <1>2, Limits, MemoryFacts, EnteringKeeps DEF Known, NewerInv
  <2> HIDE DEF new, counted
  <2>3. \A e \in Deliveries : e \notin ToSet(new) => counted[e] = MaxDeliveryIds
    BY <2>2 DEF NewerInv, Known
  <2>4. NewerInv'
    BY <2>1, <2>2, <2>3 DEF NewerInv, Known
  <2> QED
    BY <2>1, <2>2, <2>4 DEF Known
<1> QED
  BY <1>1, <1>2

\* enqueueDlq
LEMMA EnqueueKeeps ==
  ASSUME TypeOK, Follows(dlq, later), NEW d \in Deliveries, Enqueue(d)
  PROVE  /\ Memory(dlq', MaxDlqEntries) /\ later' \in [Deliveries -> 0..MaxDlqEntries]
         /\ Follows(dlq', later') /\ Dead(d)'
         /\ \A e \in Deliveries : (Dead(e) \/ later[e] = MaxDlqEntries)
                                => (Dead(e)' \/ later'[e] = MaxDlqEntries)
<1>1. CASE Dead(d)
  <2>1. UNCHANGED <<dlq, later>>
    BY <1>1 DEF Enqueue
  <2> QED
    BY <1>1, <2>1, MemoryFacts DEF Dead
<1>2. CASE ~Dead(d)
  <2> DEFINE new == Newest(Append(dlq, d), MaxDlqEntries)
             counted == Entered(later, d, MaxDlqEntries)
  <2>1. dlq' = new /\ later' = counted
    BY <1>2 DEF Enqueue
  <2>2. /\ Memory(new, MaxDlqEntries) /\ counted \in [Deliveries -> 0..MaxDlqEntries]
        /\ Follows(new, counted) /\ d \in ToSet(new)
        /\ \A e \in Deliveries \ {d} :
             later[e] = MaxDlqEntries => counted[e] = MaxDlqEntries
        /\ \A e \in ToSet(dlq) \ ToSet(new) : counted[e] = MaxDlqEntries
    BY <1>2, Limits, MemoryFacts, EnteringKeeps DEF Dead
  <2> HIDE DEF new, counted
  <2> QED
    BY <2>1, <2>2 DEF Dead
<1> QED
  BY <1>1, <1>2

\* removeDlq
LEMMA WithoutDeadKeeps ==
  ASSUME TypeOK, Follows(dlq, later), NEW d \in Deliveries
  PROVE  /\ Memory(WithoutDead(d), MaxDlqEntries) /\ Follows(WithoutDead(d), later)
         /\ \A e \in Deliveries \ {d} : Dead(e) => e \in ToSet(WithoutDead(d))
<1>1. CASE ~Dead(d)
  BY <1>1, MemoryFacts DEF WithoutDead, Dead
<1>2. CASE Dead(d)
  <2> DEFINE k == PlaceOf(d)
             new == RemoveAt(dlq, k)
  <2>1. k \in DOMAIN dlq /\ dlq[k] = d
    BY <1>2 DEF Dead, ToSet, PlaceOf
  <2>2. new = WithoutDead(d)
    BY <1>2 DEF WithoutDead
  <2> HIDE DEF k
  <2>3. /\ Memory(new, MaxDlqEntries) /\ Follows(new, later)
        /\ \A e \in ToSet(dlq) \ {dlq[k]} : e \in ToSet(new)
    BY <2>1, Limits, MemoryFacts, RemovingKeeps
  <2> HIDE DEF new
  <2> QED
    BY <2>1, <2>2, <2>3 DEF Dead
<1> QED
  BY <1>1, <1>2

\* A call's step keeps what is known of the other calls.
LEMMA CallKeeps ==
  ASSUME TypeOK, AppliedInv, NEW c \in Calls, NEW to \in CallStates,
         call' = [call EXCEPT ![c] = to], applied \subseteq applied',
         to.phase \in {"published", "applied"} => to.delivery \in applied'
  PROVE  /\ call' \in [Calls -> CallStates]
         /\ \A b \in Calls :
              call'[b].phase \in {"published", "applied"} => call'[b].delivery \in applied'
<1>1. call' \in [Calls -> CallStates] /\ call'[c] = to /\ \A b \in Calls \ {c} : call'[b] = call[b]
  BY DEF TypeOK
<1> HIDE DEF CallStates
<1> QED
  BY <1>1 DEF AppliedInv

-----------------------------------------------------------------------------
(* The steps *)

LEMMA InvInitially == Init => SyncInv
<1> SUFFICES ASSUME Init PROVE SyncInv
  OBVIOUS
<1>1. deliveryIds \in Seq(Deliveries) /\ dlq \in Seq(Deliveries)
      /\ Len(deliveryIds) = 0 /\ Len(dlq) = 0
      /\ DOMAIN deliveryIds = {} /\ DOMAIN dlq = {}
  BY EmptySeq DEF Init
<1>2. MaxDeliveryIds \in 0..MaxDeliveryIds /\ 0 \in 0..MaxDlqEntries
      /\ 0 <= MaxDeliveryIds /\ 0 <= MaxDlqEntries
  BY Limits
<1>3. Idle \in CallStates /\ Idle.phase = "idle"
  BY DEF CallStates, Idle
<1>4. TypeOK
  BY <1>1, <1>2, <1>3 DEF Init, TypeOK, IsInjective
<1>5. AppliedInv
  BY <1>1, <1>3 DEF Init, AppliedInv, Known, ToSet
<1>6. NewerInv
  BY <1>1 DEF Init, NewerInv, Known, Follows
<1>7. LaterInv
  BY <1>1 DEF Init, LaterInv, Follows, NothingLost
<1> QED
  BY <1>4, <1>5, <1>6, <1>7 DEF SyncInv

\* applyDelivery up to its first await.
LEMMA ApplyKeeps ==
  ASSUME SyncInv, NEW c \in Calls, NEW d \in Deliveries, NEW retry \in BOOLEAN,
         Apply(c, d, retry)
  PROVE  SyncInv'
<1>1. TypeOK /\ AppliedInv /\ NewerInv /\ LaterInv
  BY DEF SyncInv
<1>2. UNCHANGED <<engineVars, newer, later>>
  BY DEF Apply, Duplicate, Refused, Publish, historyVars
<1>3. NewerInv' /\ Follows(dlq', later') /\ \A e \in Deliveries : (Dead(e)' <=> Dead(e))
  BY <1>1, <1>2 DEF NewerInv, LaterInv, Known, Dead, Follows, engineVars
<1>4. CASE Duplicate(c, d, retry)
  <2>1. d \in applied /\ applied' = applied /\ held' = held
    BY <1>1, <1>4 DEF Duplicate, AppliedInv
  <2>2. Applied(d) \in CallStates /\ Applied(d).phase = "applied" /\ Applied(d).delivery = d
    BY DEF CallStates, Applied
  <2>3. told' \subseteq told \cup {d}
    BY <1>4 DEF Duplicate
  <2>4. NothingLost'
    BY <1>1, <1>2, <1>3, <2>1, <2>3 DEF LaterInv, NothingLost, TypeOK
  <2>5. /\ call' \in [Calls -> CallStates]
        /\ \A b \in Calls :
             call'[b].phase \in {"published", "applied"} => call'[b].delivery \in applied'
    <3>1. CASE retry
      <4>1. call' = [call EXCEPT ![c] = Applied(d)]
        BY <1>4, <3>1 DEF Duplicate
      <4> QED
        BY <1>1, <2>1, <2>2, <4>1, CallKeeps
    <3>2. CASE ~retry
      <4>1. call' = call
        BY <1>4, <3>2 DEF Duplicate
      <4> QED
        BY <1>1, <2>1, <4>1 DEF TypeOK, AppliedInv
    <3> QED
      BY <3>1, <3>2
  <2>6. TypeOK'
    BY <1>1, <1>2, <2>1, <2>3, <2>5 DEF TypeOK, engineVars
  <2>7. AppliedInv'
    BY <1>1, <1>2, <2>1, <2>5 DEF AppliedInv, Known, engineVars
  <2> QED
    BY <1>3, <2>4, <2>6, <2>7 DEF SyncInv, LaterInv
<1>5. CASE Refused(c, d)
  <2>1. /\ call' = [call EXCEPT ![c] = Failed(d)]
        /\ UNCHANGED <<engineVars, held, historyVars>>
    BY <1>5 DEF Refused
  <2>2. Failed(d) \in CallStates /\ Failed(d).phase = "failed"
    BY DEF CallStates, Failed
  <2>3. /\ call' \in [Calls -> CallStates]
        /\ \A b \in Calls :
             call'[b].phase \in {"published", "applied"} => call'[b].delivery \in applied'
    BY <1>1, <2>1, <2>2, CallKeeps DEF historyVars
  <2>4. TypeOK'
    BY <1>1, <2>1, <2>3 DEF TypeOK, engineVars, historyVars
  <2>5. AppliedInv' /\ NothingLost'
    BY <1>1, <2>1, <2>3 DEF AppliedInv, Known, LaterInv, NothingLost, Dead, engineVars, historyVars
  <2> QED
    BY <1>3, <2>4, <2>5 DEF SyncInv, LaterInv
<1>6. CASE Publish(c, d, retry)
  <2> DEFINE accepted == d \notin held
             to == Published(d, retry, accepted)
  <2>1. /\ call' = [call EXCEPT ![c] = to] /\ held' = held \cup {d}
        /\ applied' = applied \cup {d} /\ told' = told
    BY <1>6 DEF Publish
  <2>2. to \in CallStates /\ to.phase = "published" /\ to.delivery = d
    <3>1. accepted \in BOOLEAN
      OBVIOUS
    <3> HIDE DEF accepted
    <3> QED
      BY <3>1 DEF CallStates, Published
  <2> HIDE DEF to
  <2>3. /\ call' \in [Calls -> CallStates]
        /\ \A b \in Calls :
             call'[b].phase \in {"published", "applied"} => call'[b].delivery \in applied'
    BY <1>1, <2>1, <2>2, CallKeeps
  <2>4. TypeOK'
    BY <1>1, <1>2, <2>1, <2>3 DEF TypeOK, engineVars
  <2>5. AppliedInv' /\ NothingLost'
    BY <1>1, <1>2, <2>1, <2>3 DEF AppliedInv, Known, LaterInv, NothingLost, Dead, engineVars
  <2> QED
    BY <1>3, <2>4, <2>5 DEF SyncInv, LaterInv
<1> QED
  BY <1>4, <1>5, <1>6 DEF Apply

LEMMA PublishReturnsKeeps ==
  ASSUME SyncInv, NEW c \in Calls, PublishReturns(c)
  PROVE  SyncInv'
<1> DEFINE d == call[c].delivery
<1>1. TypeOK /\ AppliedInv /\ NewerInv /\ LaterInv
  BY DEF SyncInv
<1>2. d \in Deliveries /\ d \in applied
  BY <1>1, CallFacts DEF PublishReturns, AppliedInv
<1>3. /\ Remember(d) /\ UNCHANGED <<held, applied, later>>
      /\ dlq' = dlq \/ dlq' = WithoutDead(d)
      /\ told' \subseteq told \cup {d}
      /\ call' = [call EXCEPT ![c] = Applied(d)] \/ call' = [call EXCEPT ![c] = Idle]
  BY DEF PublishReturns
<1> HIDE DEF d
<1>4. /\ Memory(deliveryIds', MaxDeliveryIds)
      /\ newer' \in [Deliveries -> 0..MaxDeliveryIds] /\ NewerInv'
      /\ \A e \in Deliveries : Known(e)' => Known(e) \/ e = d
  BY <1>1, <1>2, <1>3, RememberKeeps
<1>5. /\ Memory(dlq', MaxDlqEntries) /\ Follows(dlq', later)
      /\ \A e \in Deliveries \ {d} : Dead(e) => e \in ToSet(dlq')
  BY <1>1, <1>2, <1>3, MemoryFacts, WithoutDeadKeeps DEF LaterInv, Dead
<1>6. /\ call' \in [Calls -> CallStates]
      /\ \A b \in Calls :
           call'[b].phase \in {"published", "applied"} => call'[b].delivery \in applied'
  <2>1. /\ Applied(d) \in CallStates /\ Applied(d).delivery = d
        /\ Idle \in CallStates /\ Idle.phase = "idle"
    BY <1>2 DEF CallStates, Applied, Idle
  <2>2. applied' = applied
    BY <1>3
  <2>3. CASE call' = [call EXCEPT ![c] = Applied(d)]
    BY <1>1, <1>2, <2>1, <2>2, <2>3, CallKeeps
  <2>4. CASE call' = [call EXCEPT ![c] = Idle]
    BY <1>1, <2>1, <2>2, <2>4, CallKeeps
  <2> QED
    BY <1>3, <2>3, <2>4
<1>7. TypeOK'
  BY <1>1, <1>2, <1>3, <1>4, <1>5, <1>6 DEF TypeOK, Memory
<1>8. AppliedInv'
  BY <1>1, <1>2, <1>3, <1>4, <1>6 DEF AppliedInv
<1>9. LaterInv'
  <2>1. told \subseteq Deliveries
    BY <1>1 DEF TypeOK
  <2>2. NothingLost'
    BY <1>1, <1>2, <1>3, <1>5, <2>1 DEF LaterInv, NothingLost, Dead
  <2> QED
    BY <1>3, <1>5, <2>2 DEF LaterInv
<1> QED
  BY <1>4, <1>7, <1>8, <1>9 DEF SyncInv

LEMMA FailureReturnsKeeps ==
  ASSUME SyncInv, NEW c \in Calls, FailureReturns(c)
  PROVE  SyncInv'
<1>1. TypeOK /\ AppliedInv /\ NewerInv /\ LaterInv
  BY DEF SyncInv
<1>d. PICK d \in Deliveries : d = call[c].delivery
  BY <1>1, CallFacts DEF FailureReturns
<1>2. d \in Deliveries
  BY <1>d
<1>3. /\ Enqueue(d) /\ told' = told \cup {d} /\ call' = [call EXCEPT ![c] = Idle]
      /\ UNCHANGED <<deliveryIds, held, applied, newer>>
  BY <1>d DEF FailureReturns
<1>4. /\ Memory(dlq', MaxDlqEntries) /\ later' \in [Deliveries -> 0..MaxDlqEntries]
      /\ Follows(dlq', later') /\ Dead(d)'
      /\ \A e \in Deliveries : (Dead(e) \/ later[e] = MaxDlqEntries)
                             => (Dead(e)' \/ later'[e] = MaxDlqEntries)
  BY <1>1, <1>2, <1>3, EnqueueKeeps DEF LaterInv
<1>5. /\ call' \in [Calls -> CallStates]
      /\ \A b \in Calls :
           call'[b].phase \in {"published", "applied"} => call'[b].delivery \in applied'
  <2>1. Idle \in CallStates /\ Idle.phase = "idle"
    BY DEF CallStates, Idle
  <2> QED
    BY <1>1, <1>3, <2>1, CallKeeps
<1>6. TypeOK'
  BY <1>1, <1>2, <1>3, <1>4, <1>5 DEF TypeOK, Memory
<1>7. AppliedInv' /\ NewerInv'
  BY <1>1, <1>3, <1>5 DEF AppliedInv, NewerInv, Known, Follows
<1>8. LaterInv'
  <2>1. told \subseteq Deliveries
    BY <1>1 DEF TypeOK
  <2>2. NothingLost'
    BY <1>1, <1>2, <1>3, <1>4, <2>1 DEF LaterInv, NothingLost
  <2> QED
    BY <1>4, <2>2 DEF LaterInv
<1> QED
  BY <1>6, <1>7, <1>8 DEF SyncInv

LEMMA RetryReturnsKeeps ==
  ASSUME SyncInv, NEW c \in Calls, RetryReturns(c)
  PROVE  SyncInv'
<1> DEFINE d == call[c].delivery
<1>1. TypeOK /\ AppliedInv /\ NewerInv /\ LaterInv
  BY DEF SyncInv
<1>2. d \in Deliveries /\ d \in applied
  BY <1>1, CallFacts DEF RetryReturns, AppliedInv
<1>3. /\ dlq' = WithoutDead(d) /\ told' = told \cup {d} /\ call' = [call EXCEPT ![c] = Idle]
      /\ UNCHANGED <<deliveryIds, held, applied, newer, later>>
  BY DEF RetryReturns
<1> HIDE DEF d
<1>4. /\ Memory(dlq', MaxDlqEntries) /\ Follows(dlq', later)
      /\ \A e \in Deliveries \ {d} : Dead(e) => e \in ToSet(dlq')
  BY <1>1, <1>2, <1>3, WithoutDeadKeeps DEF LaterInv
<1>5. /\ call' \in [Calls -> CallStates]
      /\ \A b \in Calls :
           call'[b].phase \in {"published", "applied"} => call'[b].delivery \in applied'
  <2>1. Idle \in CallStates /\ Idle.phase = "idle"
    BY DEF CallStates, Idle
  <2> QED
    BY <1>1, <1>3, <2>1, CallKeeps
<1>6. TypeOK'
  BY <1>1, <1>2, <1>3, <1>4, <1>5 DEF TypeOK, Memory
<1>7. AppliedInv' /\ NewerInv'
  BY <1>1, <1>3, <1>5 DEF AppliedInv, NewerInv, Known, Follows
<1>8. LaterInv'
  <2>1. told \subseteq Deliveries
    BY <1>1 DEF TypeOK
  <2>2. NothingLost'
    BY <1>1, <1>2, <1>3, <1>4, <2>1 DEF LaterInv, NothingLost, Dead
  <2> QED
    BY <1>3, <1>4, <2>2 DEF LaterInv
<1> QED
  BY <1>6, <1>7, <1>8 DEF SyncInv

LEMMA OthersKeep ==
  ASSUME SyncInv, Restart \/ (\E d \in Deliveries : PushOut(d)) \/ UNCHANGED vars
  PROVE  SyncInv'
<1>1. TypeOK /\ AppliedInv /\ NewerInv /\ LaterInv
  BY DEF SyncInv
<1>2. /\ UNCHANGED <<engineVars, applied, told, newer, later>> /\ held' \subseteq held
      /\ call' = call \/ call' = [c \in Calls |-> Idle]
  <2>1. CASE Restart
    <3> DEFINE n == Len(dlq)
    <3>1. dlq \in Seq(Deliveries) /\ n \in Nat /\ n <= MaxDlqEntries
      BY <1>1, LenProperties DEF TypeOK
    <3>2. dlq' = SubSeq(dlq, 1, Len(dlq))
      <4>1. (IF n > MaxDlqEntries THEN MaxDlqEntries ELSE n) = n
        <5> HIDE DEF n
        <5> QED
          BY <3>1, Limits
      <4> QED
        BY <2>1, <4>1 DEF Restart
    <3>3. dlq' = dlq
      BY <3>1, <3>2, SubSeqFull
    <3> QED
      BY <2>1, <3>3 DEF Restart, engineVars, historyVars
  <2>2. CASE \E d \in Deliveries : PushOut(d)
    BY <2>2 DEF PushOut, historyVars
  <2>3. CASE UNCHANGED vars
    BY <2>3 DEF vars, historyVars
  <2> QED
    BY <2>1, <2>2, <2>3
<1>3. /\ call' \in [Calls -> CallStates]
      /\ \A b \in Calls :
           call'[b].phase \in {"published", "applied"} => call'[b].delivery \in applied
  <2>1. Idle \in CallStates /\ Idle.phase = "idle"
    BY DEF CallStates, Idle
  <2> HIDE DEF CallStates
  <2> QED
    BY <1>1, <1>2, <2>1 DEF TypeOK, AppliedInv
<1>4. TypeOK'
  BY <1>1, <1>2, <1>3 DEF TypeOK, engineVars
<1>5. AppliedInv' /\ NewerInv' /\ LaterInv'
  BY <1>1, <1>2, <1>3
  DEF AppliedInv, NewerInv, LaterInv, NothingLost, Known, Dead, Follows, engineVars
<1> QED
  BY <1>4, <1>5 DEF SyncInv

LEMMA Inductive == Spec => []SyncInv
<1>1. SyncInv /\ [Next]_vars => SyncInv'
  <2> SUFFICES ASSUME SyncInv, [Next]_vars PROVE SyncInv'
    OBVIOUS
  <2>1. ASSUME NEW c \in Calls, NEW d \in Deliveries, Webhook(c, d) \/ Retry(c, d)
        PROVE  SyncInv'
    BY <2>1, ApplyKeeps DEF Webhook, Retry
  <2>2. ASSUME NEW c \in Calls, PublishReturns(c) PROVE SyncInv'
    BY <2>2, PublishReturnsKeeps
  <2>3. ASSUME NEW c \in Calls, FailureReturns(c) PROVE SyncInv'
    BY <2>3, FailureReturnsKeeps
  <2>4. ASSUME NEW c \in Calls, RetryReturns(c) PROVE SyncInv'
    BY <2>4, RetryReturnsKeeps
  <2>5. CASE Restart \/ (\E d \in Deliveries : PushOut(d)) \/ UNCHANGED vars
    BY <2>5, OthersKeep
  <2> QED
    BY <2>1, <2>2, <2>3, <2>4, <2>5 DEF Next
<1> QED
  BY <1>1, InvInitially, PTL DEF Spec

-----------------------------------------------------------------------------
(* The theorems *)

\* Both memories stay within their limits and hold a delivery at most once.
THEOREM SyncTyped == Spec => []TypeOK
<1>1. SyncInv => TypeOK
  BY DEF SyncInv
<1> QED
  BY <1>1, Inductive, PTL

\* An answered delivery reached its room or waits among the dead letters, unless
\* as many entered after it as there is room (applyDelivery, enqueueDlq).
THEOREM NoneLost == Spec => []NothingLost
<1>1. SyncInv => NothingLost
  BY DEF SyncInv, LaterInv
<1> QED
  BY <1>1, Inductive, PTL

\* A room accepts a delivery again only when as many others were remembered
\* since as the engine remembers (applyDelivery, rememberDeliveryId).
THEOREM AppliedOnce == Spec => AppliedOncePerWindow
<1> DEFINE Once == \A d \in Deliveries : AcceptedNow(d) => newer[d] = MaxDeliveryIds
<1>1. SyncInv /\ [Next]_vars => [Once]_vars
  <2> SUFFICES ASSUME SyncInv, Next, NEW d \in Deliveries, NEW c \in Calls, NEW r \in BOOLEAN,
                      call[c] = Idle, call'[c] = Published(d, r, TRUE)
               PROVE  newer[d] = MaxDeliveryIds
    BY DEF AcceptedNow
  <2>1. TypeOK /\ NewerInv
    BY DEF SyncInv
  <2>2. /\ Published(d, r, TRUE).phase = "published" /\ Published(d, r, TRUE).delivery = d
        /\ Idle.phase = "idle"
    BY DEF Published, Idle
  <2>3. ASSUME NEW b \in Calls, NEW to \in CallStates, call' = [call EXCEPT ![b] = to]
        PROVE  to = Published(d, r, TRUE)
    <3>1. call[c] # call'[c]
      BY <2>2
    <3> HIDE DEF CallStates
    <3> QED
      BY <2>1, <2>3, <3>1 DEF TypeOK
  <2>4. \A e \in Deliveries : /\ Applied(e) \in CallStates /\ Applied(e).phase = "applied"
                            /\ Failed(e) \in CallStates /\ Failed(e).phase = "failed"
    <3> SUFFICES ASSUME NEW e \in Deliveries
                 PROVE  /\ Applied(e) \in CallStates /\ Applied(e).phase = "applied"
                        /\ Failed(e) \in CallStates /\ Failed(e).phase = "failed"
      OBVIOUS
    <3>1. Applied(e) \in CallStates /\ Failed(e) \in CallStates
      <4>1. Applied(e) \in {Applied(x) : x \in Deliveries}
        OBVIOUS
      <4>2. Failed(e) \in {Failed(x) : x \in Deliveries}
        OBVIOUS
      <4> QED
        BY ONLY <4>1, <4>2 DEF CallStates
    <3>2. Applied(e).phase = "applied" /\ Failed(e).phase = "failed"
      BY DEF Applied, Failed
    <3> QED
      BY <3>1, <3>2
  <2>5. Idle \in CallStates
    BY DEF CallStates
  <2>6. ASSUME NEW b \in Calls, NEW e \in Deliveries, NEW retry \in BOOLEAN, Apply(b, e, retry)
        PROVE  ~Known(d)
    <3>1. CASE Duplicate(b, e, retry)
      <4>1. call' = [call EXCEPT ![b] = Applied(e)] \/ call' = call
        BY <3>1 DEF Duplicate
      <4> QED
        BY <2>2, <2>3, <2>4, <4>1
    <3>2. CASE Refused(b, e)
      BY <2>2, <2>3, <2>4, <3>2 DEF Refused
    <3>3. CASE Publish(b, e, retry)
      <4> DEFINE accepted == e \notin held
                 to == Published(e, retry, accepted)
      <4>1. ~Known(e) /\ call' = [call EXCEPT ![b] = to]
        BY <3>3 DEF Publish
      <4>2. to \in CallStates /\ to.delivery = e
        <5>1. accepted \in BOOLEAN
          OBVIOUS
        <5> HIDE DEF accepted
        <5> QED
          BY <5>1 DEF CallStates, Published
      <4> HIDE DEF to
      <4> QED
        BY <2>2, <2>3, <4>1, <4>2
    <3> QED
      BY <2>6, <3>1, <3>2, <3>3 DEF Apply
  <2>7. CASE \E b \in Calls, e \in Deliveries : Webhook(b, e) \/ Retry(b, e)
    <3>1. ~Known(d)
      BY <2>6, <2>7 DEF Webhook, Retry
    <3> QED
      BY <2>1, <3>1 DEF NewerInv
  <2>8. ASSUME NEW b \in Calls, PublishReturns(b) PROVE FALSE
    <3>1. call[b].delivery \in Deliveries
      BY <2>1, <2>8, CallFacts DEF PublishReturns
    <3>2. \/ call' = [call EXCEPT ![b] = Applied(call[b].delivery)]
          \/ call' = [call EXCEPT ![b] = Idle]
      BY <2>8 DEF PublishReturns
    <3> QED
      BY <2>2, <2>3, <2>4, <2>5, <3>1, <3>2
  <2>9. ASSUME NEW b \in Calls, FailureReturns(b) \/ RetryReturns(b) PROVE FALSE
    <3>1. call' = [call EXCEPT ![b] = Idle]
      BY <2>9 DEF FailureReturns, RetryReturns
    <3> QED
      BY <2>2, <2>3, <2>5, <3>1
  <2>10. CASE Restart
    BY <2>2, <2>10 DEF Restart
  <2>11. CASE \E e \in Deliveries : PushOut(e)
    BY <2>2, <2>11 DEF PushOut
  <2> QED
    BY <2>7, <2>8, <2>9, <2>10, <2>11 DEF Next
<1> QED
  BY <1>1, Inductive, PTL DEF Spec, AppliedOncePerWindow
=============================================================================
