------------------------- MODULE RelayIdentity_proofs -------------------------
(***************************************************************************)
(* Proofs about RelayIdentity, for any keys, nonces, requests, calls and   *)
(* limits: the types with the limit on nonces, that an accepted request    *)
(* gets past the nonce check again only if its nonce was forgotten, that   *)
(* what was answered after a put survives a crash, and that registered     *)
(* keys and their GitHub mark are vouched for.                             *)
(***************************************************************************)
EXTENDS RelayIdentity, FiniteSetTheorems, FunctionTheorems, SequenceTheorems, TLAPS

\* No nonce has two entries.
Distinct(map) == \A i, j \in DOMAIN map : map[i].nonce = map[j].nonce => i = j

\* A map as pruneSenderNonces leaves it.
NonceMap(map) == map \in Seq(Entries) /\ Len(map) <= MaxNonces /\ Distinct(map)

-----------------------------------------------------------------------------
(* The entries at some places of a sequence *)

\* The places of a finite set of integers are numbered from 1, without gaps.
LEMMA Numbered ==
  ASSUME NEW P \in SUBSET Int, IsFiniteSet(P)
  PROVE  LET nth(n) == CHOOSE i \in P : Cardinality({j \in P : j <= i}) = n IN
         /\ Cardinality(P) \in Nat
         /\ \A n \in 1..Cardinality(P) :
              nth(n) \in P /\ Cardinality({j \in P : j <= nth(n)}) = n
         /\ \A i \in P : \E n \in 1..Cardinality(P) : nth(n) = i
<1> DEFINE N == Cardinality(P)
           upTo(i) == {j \in P : j <= i}
           place == [i \in P |-> Cardinality(upTo(i))]
           nth(n) == CHOOSE i \in P : Cardinality({j \in P : j <= i}) = n
<1>1. N \in Nat /\ IsFiniteSet(1..N) /\ Cardinality(1..N) = N
  BY FS_CardinalityType, FS_Interval
<1>2. ASSUME NEW i \in P
      PROVE  IsFiniteSet(upTo(i)) /\ Cardinality(upTo(i)) \in 1..N
  <2>1. upTo(i) \in SUBSET P /\ upTo(i) # {}
    OBVIOUS
  <2> HIDE DEF upTo
  <2>2. IsFiniteSet(upTo(i)) /\ Cardinality(upTo(i)) <= N
    BY <2>1, FS_Subset
  <2>3. Cardinality(upTo(i)) \in Nat /\ Cardinality(upTo(i)) # 0
    BY <2>1, <2>2, FS_CardinalityType, FS_EmptySet
  <2> QED
    BY <1>1, <2>2, <2>3
<1>3. ASSUME NEW i \in P, NEW k \in P, i < k
      PROVE  Cardinality(upTo(i)) # Cardinality(upTo(k))
  <2>1. upTo(i) \in SUBSET upTo(k) /\ upTo(i) # upTo(k)
    <3>1. k \in upTo(k) /\ k \notin upTo(i)
      BY <1>3
    <3>2. \A j \in upTo(i) : j \in upTo(k)
      BY <1>3
    <3> QED
      BY <3>1, <3>2
  <2> HIDE DEF upTo
  <2> QED
    BY <1>2, <2>1, FS_Subset
<1>4. place \in Injection(P, 1..N)
  <2>1. place \in [P -> 1..N]
    BY <1>2
  <2>2. \A i, k \in P : place[i] = place[k] => i = k
    <3> SUFFICES ASSUME NEW i \in P, NEW k \in P, i # k PROVE place[i] # place[k]
      OBVIOUS
    <3>1. i < k \/ k < i
      OBVIOUS
    <3> QED
      BY <1>3, <3>1
  <2> HIDE DEF place
  <2> QED
    BY <2>1, <2>2, Fun_IsInj
<1>5. place \in Surjection(P, 1..N)
  <2> HIDE DEF place
  <2> QED
    BY <1>1, <1>4, FS_Injection
<1>6. ASSUME NEW n \in 1..N PROVE nth(n) \in P /\ Cardinality(upTo(nth(n))) = n
  <2>1. \E i \in P : place[i] = n
    <3> HIDE DEF place, N
    <3>1. \A t \in 1..N : \E i \in P : place[i] = t
      BY <1>5, Fun_SurjectionProperties, Zenon
    <3> QED
      BY <3>1, <1>6
  <2> QED
    BY <2>1
<1>7. ASSUME NEW i \in P PROVE \E n \in 1..N : nth(n) = i
  <2> DEFINE n == Cardinality(upTo(i))
  <2>1. n \in 1..N
    BY <1>2
  <2>2. nth(n) \in P /\ Cardinality(upTo(nth(n))) = Cardinality(upTo(i))
    BY <1>6, <2>1
  <2>3. nth(n) = i
    <3> i \in Int /\ nth(n) \in Int
      BY <2>2
    <3> HIDE DEF nth, n, upTo
    <3> nth(n) < i \/ i < nth(n) \/ nth(n) = i
      OBVIOUS
    <3> QED
      BY <1>3, <2>2
  <2> QED
    BY <2>1, <2>3
<1> QED
  BY <1>1, <1>6, <1>7

\* At picks the entries at the places, each once.
LEMMA AtPicks ==
  ASSUME NEW S, NEW map \in Seq(S), NEW P \in SUBSET (DOMAIN map)
  PROVE  /\ At(map, P) \in Seq(S) /\ Len(At(map, P)) <= Len(map)
         /\ \E nth \in [DOMAIN At(map, P) -> P] :
              /\ \A n \in DOMAIN At(map, P) : At(map, P)[n] = map[nth[n]]
              /\ \A m, n \in DOMAIN At(map, P) : nth[m] = nth[n] => m = n
              /\ \A i \in P : \E n \in DOMAIN At(map, P) : nth[n] = i
<1> DEFINE N == Cardinality(P)
           pick(n) == CHOOSE i \in P : Cardinality({j \in P : j <= i}) = n
           rank(i) == Cardinality({j \in P : j <= i})
           nth == [n \in 1..N |-> pick(n)]
<1>1. DOMAIN map = 1..Len(map) /\ Len(map) \in Nat /\ \A i \in DOMAIN map : map[i] \in S
  BY LenProperties, ElementOfSeq
<1>2. IsFiniteSet(P) /\ N \in Nat /\ N <= Len(map) /\ P \in SUBSET Int
  <2>1. IsFiniteSet(1..Len(map)) /\ Cardinality(1..Len(map)) = Len(map)
    <3> DEFINE L == Len(map)
    <3>1. L \in Nat
      BY <1>1
    <3> HIDE DEF L
    <3>2. IsFiniteSet(1..L) /\ Cardinality(1..L) = L
      BY <3>1, FS_Interval
    <3> QED
      BY <3>2 DEF L
  <2> QED
    BY <1>1, <2>1, FS_Subset, FS_CardinalityType
<1>3. /\ \A n \in 1..N : pick(n) \in P /\ rank(pick(n)) = n
      /\ \A i \in P : \E n \in 1..N : pick(n) = i
  BY <1>2, Numbered
<1>4. At(map, P) = [n \in 1..N |-> map[nth[n]]]
  BY DEF At
<1> HIDE DEF N, nth, rank, pick
<1>5. nth \in [1..N -> P] /\ \A n \in 1..N : map[nth[n]] \in S
  BY <1>1, <1>3 DEF nth
<1>6. At(map, P) \in Seq(S) /\ Len(At(map, P)) = N /\ DOMAIN At(map, P) = 1..N
  BY ONLY <1>2, <1>4, <1>5
<1>7. \A m, n \in 1..N : nth[m] = nth[n] => m = n
  BY <1>3 DEF nth
<1>8. \A i \in P : \E n \in 1..N : nth[n] = i
  BY <1>3 DEF nth
<1>9. /\ nth \in [DOMAIN At(map, P) -> P]
      /\ \A n \in DOMAIN At(map, P) : At(map, P)[n] = map[nth[n]]
      /\ \A m, n \in DOMAIN At(map, P) : nth[m] = nth[n] => m = n
      /\ \A i \in P : \E n \in DOMAIN At(map, P) : nth[n] = i
  BY <1>4, <1>5, <1>6, <1>7, <1>8
<1> QED
  BY <1>2, <1>6, <1>9

-----------------------------------------------------------------------------
(* What pruning and setting leave of a map *)

LEMMA LiveKeeps ==
  ASSUME NEW map \in Seq(Entries), NEW t
  PROVE  /\ Live(map, t) \in Seq(Entries) /\ Len(Live(map, t)) <= Len(map)
         /\ \A e : e \in ToSet(Live(map, t)) <=> e \in ToSet(map) /\ ~Expired(e, t)
         /\ Distinct(map) => Distinct(Live(map, t))
<1> DEFINE P == {i \in DOMAIN map : ~Expired(map[i], t)}
           live == At(map, P)
<1>1. live = Live(map, t)
  BY DEF Live
<1>2. /\ live \in Seq(Entries) /\ Len(live) <= Len(map)
      /\ \E nth \in [DOMAIN live -> P] :
           /\ \A n \in DOMAIN live : live[n] = map[nth[n]]
           /\ \A m, n \in DOMAIN live : nth[m] = nth[n] => m = n
           /\ \A i \in P : \E n \in DOMAIN live : nth[n] = i
  <2>1. P \in SUBSET (DOMAIN map)
    OBVIOUS
  <2> HIDE DEF P
  <2> QED
    BY <2>1, AtPicks
<1> HIDE DEF live
<1>3. PICK nth \in [DOMAIN live -> P] :
        /\ \A n \in DOMAIN live : live[n] = map[nth[n]]
        /\ \A m, n \in DOMAIN live : nth[m] = nth[n] => m = n
        /\ \A i \in P : \E n \in DOMAIN live : nth[n] = i
  BY <1>2
<1>4. \A e : e \in ToSet(live) <=> e \in ToSet(map) /\ ~Expired(e, t)
  <2>1. ASSUME NEW n \in DOMAIN live
        PROVE  live[n] \in ToSet(map) /\ ~Expired(live[n], t)
    BY <1>3 DEF ToSet
  <2>2. ASSUME NEW i \in DOMAIN map, ~Expired(map[i], t)
        PROVE  \E n \in DOMAIN live : live[n] = map[i]
    BY <1>3, <2>2
  <2> QED
    BY <2>1, <2>2 DEF ToSet
<1>5. Distinct(map) => Distinct(live)
  <2> SUFFICES ASSUME Distinct(map), NEW m \in DOMAIN live, NEW n \in DOMAIN live,
                      live[m].nonce = live[n].nonce
               PROVE  m = n
    BY DEF Distinct
  <2>1. nth[m] \in DOMAIN map /\ nth[n] \in DOMAIN map
    BY <1>3
  <2>2. nth[m] = nth[n]
    BY <1>3, <2>1 DEF Distinct
  <2> QED
    BY <1>3, <2>2
<1> QED
  BY <1>1, <1>2, <1>4, <1>5

LEMMA NewestKeeps ==
  ASSUME NEW map \in Seq(Entries)
  PROVE  /\ Newest(map) \in Seq(Entries) /\ Len(Newest(map)) <= MaxNonces
         /\ ToSet(Newest(map)) \subseteq ToSet(map)
         /\ Len(map) <= MaxNonces => Newest(map) = map
         /\ Distinct(map) => Distinct(Newest(map))
         /\ map # << >> => map[Len(map)] \in ToSet(Newest(map))
<1>1. Len(map) \in Nat /\ DOMAIN map = 1..Len(map) /\ MaxNonces \in Nat /\ MaxNonces > 0
  BY IdentityAssumption, LenProperties DEF IdentityAssumption
<1>2. \A i \in 1..Len(map) : map[i] \in Entries
  BY ElementOfSeq
<1>3. CASE Len(map) <= MaxNonces
  <2>1. Newest(map) = map
    BY <1>1, <1>3 DEF Newest
  <2>2. map # << >> => map[Len(map)] \in ToSet(map)
    BY <1>1 DEF ToSet
  <2> QED
    BY <1>1, <1>3, <2>1, <2>2
<1>4. CASE Len(map) > MaxNonces
  <2> DEFINE m == Len(map) - MaxNonces + 1
             tail == SubSeq(map, m, Len(map))
  <2>1. Newest(map) = tail
    BY <1>4 DEF Newest
  <2>2. tail \in Seq(Entries) /\ Len(tail) = MaxNonces
        /\ \A i \in 1..MaxNonces : tail[i] = map[m + i - 1]
    <3>1. m \in Int /\ Len(map) \in Int /\ m <= Len(map) /\ m >= 1
      BY <1>1, <1>4
    <3>2. \A i \in m..Len(map) : map[i] \in Entries
      BY <1>2, <3>1
    <3> QED
      BY <1>1, <3>1, <3>2, SubSeqProperties
  <2> HIDE DEF tail
  <2>3. DOMAIN tail = 1..MaxNonces
    BY <2>2, LenProperties
  <2>4. ToSet(tail) \subseteq ToSet(map)
    BY <1>1, <1>4, <2>2, <2>3 DEF ToSet
  <2>5. Distinct(map) => Distinct(tail)
    <3> SUFFICES ASSUME Distinct(map), NEW i \in 1..MaxNonces, NEW j \in 1..MaxNonces,
                        tail[i].nonce = tail[j].nonce
                 PROVE  i = j
      BY <2>3 DEF Distinct
    <3>1. m + i - 1 \in DOMAIN map /\ m + j - 1 \in DOMAIN map
      BY <1>1, <1>4
    <3>2. map[m + i - 1].nonce = map[m + j - 1].nonce
      BY <2>2
    <3>3. m + i - 1 = m + j - 1
      BY <3>1, <3>2 DEF Distinct
    <3> QED
      BY <1>1, <3>3
  <2>6. map[Len(map)] \in ToSet(tail)
    <3>1. tail[MaxNonces] = map[Len(map)] /\ MaxNonces \in DOMAIN tail
      BY <1>1, <2>2, <2>3
    <3> QED
      BY <3>1 DEF ToSet
  <2> QED
    BY <1>1, <1>4, <2>1, <2>2, <2>4, <2>5, <2>6
<1> QED
  BY <1>1, <1>3, <1>4

LEMMA PruneKeeps ==
  ASSUME NEW map \in Seq(Entries), NEW t
  PROVE  /\ Prune(map, t) \in Seq(Entries) /\ Len(Prune(map, t)) <= MaxNonces
         /\ Distinct(map) => Distinct(Prune(map, t))
         /\ Len(map) <= MaxNonces => Prune(map, t) = Live(map, t)
<1> DEFINE live == Live(map, t)
<1>1. live \in Seq(Entries) /\ Len(live) <= Len(map) /\ (Distinct(map) => Distinct(live))
  BY LiveKeeps
<1>2. Len(live) \in Nat /\ Len(map) \in Nat /\ MaxNonces \in Nat
  BY <1>1, LenProperties, IdentityAssumption DEF IdentityAssumption
<1>3. Prune(map, t) = Newest(live)
  BY DEF Prune
<1> HIDE DEF live
<1>4. /\ Newest(live) \in Seq(Entries) /\ Len(Newest(live)) <= MaxNonces
      /\ Len(live) <= MaxNonces => Newest(live) = live
      /\ Distinct(live) => Distinct(Newest(live))
  BY <1>1, NewestKeeps
<1> QED
  BY <1>1, <1>2, <1>3, <1>4 DEF live

\* The entry that is set is there, the other entries are left alone, and a
\* new one is the newest.
LEMMA SetNonceKeeps ==
  ASSUME NEW map \in Seq(Entries), Distinct(map), NEW nonce \in Nonces, NEW ts \in 0..MaxTime
  PROVE  LET e == [nonce |-> nonce, ts |-> ts]
             set == SetNonce(map, nonce, ts) IN
         /\ set \in Seq(Entries) /\ Distinct(set) /\ e \in ToSet(set)
         /\ \A x \in ToSet(map) : x.nonce # nonce => x \in ToSet(set)
         /\ nonce \in NoncesOf(map) => Len(set) = Len(map)
         /\ nonce \notin NoncesOf(map) => set # << >> /\ set[Len(set)] = e
<1> DEFINE e == [nonce |-> nonce, ts |-> ts]
           set == SetNonce(map, nonce, ts)
<1>1. e \in Entries /\ Len(map) \in Nat /\ DOMAIN map = 1..Len(map)
      /\ \A i \in 1..Len(map) : map[i] \in Entries
  BY LenProperties, ElementOfSeq DEF Entries
<1>2. CASE nonce \in NoncesOf(map)
  <2>1. set = [i \in DOMAIN map |->
                 IF map[i].nonce = nonce THEN [map[i] EXCEPT !.ts = ts] ELSE map[i]]
    BY <1>2 DEF SetNonce
  <2>2. ASSUME NEW i \in DOMAIN map PROVE [map[i] EXCEPT !.ts = ts] \in Entries
                 /\ [map[i] EXCEPT !.ts = ts].nonce = map[i].nonce
                 /\ (map[i].nonce = nonce => [map[i] EXCEPT !.ts = ts] = e)
    BY <1>1 DEF Entries
  <2> HIDE DEF set, e
  <2>3. set \in Seq(Entries) /\ Len(set) = Len(map) /\ DOMAIN set = DOMAIN map
    BY ONLY <1>1, <2>1, <2>2
  <2>4. \A i \in DOMAIN map : set[i].nonce = map[i].nonce
                            /\ set[i] = IF map[i].nonce = nonce THEN e ELSE map[i]
    BY <2>1, <2>2
  <2>5. Distinct(set)
    BY <2>3, <2>4 DEF Distinct
  <2>6. e \in ToSet(set)
    BY <1>2, <2>3, <2>4 DEF NoncesOf, ToSet
  <2>7. \A x \in ToSet(map) : x.nonce # nonce => x \in ToSet(set)
    BY <2>3, <2>4 DEF ToSet
  <2> QED
    BY <1>2, <2>3, <2>5, <2>6, <2>7 DEF set, e
<1>3. CASE nonce \notin NoncesOf(map)
  <2>1. set = Append(map, e)
    BY <1>3 DEF SetNonce
  <2> HIDE DEF set
  <2>2. set \in Seq(Entries) /\ Len(set) = Len(map) + 1 /\ set # << >>
        /\ set[Len(map) + 1] = e /\ \A i \in 1..Len(map) : set[i] = map[i]
    <3> HIDE DEF e
    <3> QED
      BY <1>1, <2>1, AppendProperties
  <2>3. DOMAIN set = 1..(Len(map) + 1)
    BY <2>2, LenProperties
  <2>4. \A i \in DOMAIN map : map[i].nonce # nonce
    BY <1>3 DEF NoncesOf
  <2>5. e.nonce = nonce
    OBVIOUS
  <2> HIDE DEF e
  <2>6. Distinct(set)
    BY <1>1, <2>2, <2>3, <2>4, <2>5 DEF Distinct
  <2>7. e \in ToSet(set) /\ ToSet(map) \subseteq ToSet(set)
    BY <1>1, <2>2, <2>3 DEF ToSet
  <2> QED
    BY <1>3, <2>2, <2>6, <2>7 DEF set, e
<1> QED
  BY <1>2, <1>3

\* What a publish, a review or a rotation leaves of the nonces: its own, the
\* entries that had not expired when its handler began, and of the entry of
\* its nonce no later time; what else is lost is forgotten.
LEMMA RememberKeeps ==
  ASSUME NonceMap(remembered), forgotten \subseteq Nonces,
         NEW q \in Requests, NEW t, Remember(q, t)
  PROVE  /\ NonceMap(remembered') /\ forgotten \subseteq forgotten'
         /\ forgotten' \subseteq Nonces
         /\ \E e \in ToSet(remembered') : e.nonce = q.nonce /\ e.ts = q.ts
         /\ \A e \in ToSet(remembered) :
              \/ Expired(e, t) \/ e.nonce \in forgotten'
              \/ e \in ToSet(remembered')
              \/ e.nonce = q.nonce /\ e.ts <= q.ts
<1> DEFINE before == Live(remembered, t)
           entry == [nonce |-> q.nonce, ts |-> q.ts]
           set == SetNonce(before, q.nonce, q.ts)
           overwritten == {e.nonce : e \in {x \in ToSet(before) : x.nonce = q.nonce /\ x.ts > q.ts}}
<1>1. q.nonce \in Nonces /\ q.ts \in 0..MaxTime /\ MaxTime \in Nat /\ MaxNonces \in Nat
  BY IdentityAssumption DEF IdentityAssumption, SignedRequests
<1>2. remembered \in Seq(Entries) /\ Len(remembered) <= MaxNonces /\ Distinct(remembered)
  BY DEF NonceMap
<1>3. /\ before \in Seq(Entries) /\ Len(before) <= Len(remembered) /\ Distinct(before)
      /\ \A e : e \in ToSet(before) <=> e \in ToSet(remembered) /\ ~Expired(e, t)
  BY <1>2, LiveKeeps
<1>4. Prune(remembered, t) = before
  BY <1>2, PruneKeeps
<1>5. remembered' = Newest(set)
  BY <1>4 DEF Remember
<1>6. forgotten' = forgotten \cup overwritten \cup (NoncesOf(before) \ NoncesOf(remembered'))
  BY DEF Remember
<1> HIDE DEF before
<1>7. /\ set \in Seq(Entries) /\ Distinct(set) /\ entry \in ToSet(set)
      /\ q.nonce \in NoncesOf(before) => Len(set) = Len(before)
      /\ q.nonce \notin NoncesOf(before) => set # << >> /\ set[Len(set)] = entry
  BY <1>1, <1>3, SetNonceKeeps
<1> HIDE DEF set
<1>8. /\ remembered' \in Seq(Entries) /\ Len(remembered') <= MaxNonces /\ Distinct(remembered')
      /\ Len(set) <= MaxNonces => remembered' = set
      /\ set # << >> => set[Len(set)] \in ToSet(remembered')
  BY <1>5, <1>7, NewestKeeps
<1>9. entry \in ToSet(remembered')
  <2>1. CASE q.nonce \in NoncesOf(before)
    <3>1. Len(set) <= MaxNonces
      BY <1>2, <1>3, <1>7, <2>1, LenProperties, <1>1
    <3> QED
      BY <1>7, <1>8, <3>1
  <2>2. CASE q.nonce \notin NoncesOf(before)
    BY <1>7, <1>8, <2>2
  <2> QED
    BY <2>1, <2>2
<1>10. \A e \in ToSet(before) : e \in Entries /\ e.nonce \in NoncesOf(before)
  BY <1>3, ElementOfSeq, LenProperties DEF ToSet, NoncesOf
<1>11. ASSUME NEW e \in ToSet(remembered), ~Expired(e, t), e.nonce \notin forgotten',
              e \notin ToSet(remembered')
       PROVE  e.nonce = q.nonce /\ e.ts <= q.ts
  <2>1. e \in ToSet(before)
    BY <1>3, <1>11
  <2>2. e.nonce \in NoncesOf(remembered')
    BY <1>6, <1>10, <1>11, <2>1
  <2>3. PICK x \in ToSet(remembered') : x.nonce = e.nonce
    BY <2>2 DEF NoncesOf, ToSet
  <2>4. e.nonce = q.nonce
    <3> SUFFICES ASSUME e.nonce # q.nonce PROVE FALSE
      OBVIOUS
    <3>1. e \in ToSet(set)
      BY <1>1, <1>3, <2>1, SetNonceKeeps DEF set
    <3>2. x \in ToSet(set)
      BY <1>5, <1>7, NewestKeeps
    <3>3. x = e
      BY <1>7, <2>3, <3>1, <3>2 DEF Distinct, ToSet
    <3> QED
      BY <1>11, <3>3
  <2>5. ~(e.ts > q.ts)
    <3>1. e.nonce \notin overwritten
      BY <1>6, <1>11
    <3> QED
      BY <2>1, <2>4, <3>1
  <2>6. e.ts \in 0..MaxTime
    BY <1>10, <2>1 DEF Entries
  <2> QED
    BY <1>1, <2>4, <2>5, <2>6
<1>12. forgotten' \subseteq Nonces
  <2>1. overwritten \subseteq Nonces
    BY <1>10 DEF Entries
  <2>2. NoncesOf(before) \subseteq Nonces
    <3>1. \A i \in DOMAIN before : before[i] \in ToSet(before)
      BY DEF ToSet
    <3> QED
      BY <1>10, <3>1 DEF NoncesOf, Entries
  <2> QED
    BY <1>6, <2>1, <2>2
<1>13. forgotten \subseteq forgotten'
  BY <1>6
<1>14. \E e \in ToSet(remembered') : e.nonce = q.nonce /\ e.ts = q.ts
  BY <1>9
<1> QED
  BY <1>8, <1>11, <1>12, <1>13, <1>14 DEF NonceMap

-----------------------------------------------------------------------------
(* Types *)

\* What is stored was a map, too.
TypeInv == TypeOK /\ NonceMap(stored.remembered)

\* A call is where its phase says.
CallStates == {Idle} \cup Verifying \cup Fetching \cup Persisting

LEMMA PhasesTell ==
  ASSUME NEW k \in CallStates
  PROVE  /\ k.phase = "verifying" => k \in Verifying
         /\ k.phase = "fetching" => k \in Fetching
         /\ k.phase = "persisting" => k \in Persisting
  BY DEF CallStates, Idle, Verifying, Fetching, Persisting

\* The end of a call concerns no other call.
LEMMA ReplyTyped ==
  ASSUME call \in [Calls -> CallStates], NEW c \in Calls, NEW requests \in SUBSET Requests,
         NEW v \in Nat, Reply(c, requests, v)
  PROVE  /\ call' \in [Calls -> CallStates]
         /\ \A d \in Calls \ {c} : call'[d] = call[d]
         /\ call'[c].phase # "verifying" /\ call'[c].phase # "fetching"
         /\ call'[c].phase = "persisting" =>
              call'[c].accepted = requests /\ call'[c].version = v
<1> DEFINE persisting == [phase |-> "persisting", accepted |-> requests,
                          again |-> requests \cap accepted # {}, version |-> v]
<1>1. persisting \in CallStates /\ Idle \in CallStates
  <2>1. (requests \cap accepted # {}) \in BOOLEAN
    OBVIOUS
  <2> QED
    BY <2>1 DEF CallStates, Persisting
<1>2. call' = [call EXCEPT ![c] = IF HasStorage THEN persisting ELSE Idle]
  BY DEF Reply
<1>3. Idle.phase = "idle"
  BY DEF Idle
<1>4. persisting.phase = "persisting" /\ persisting.accepted = requests /\ persisting.version = v
  OBVIOUS
<1> HIDE DEF persisting
<1>5. call' \in [Calls -> CallStates] /\ \A d \in Calls \ {c} : call'[d] = call[d]
  BY <1>1, <1>2
<1>6. call'[c] = persisting \/ call'[c] = Idle
  BY <1>2
<1> QED
  BY <1>3, <1>4, <1>5, <1>6

LEMMA InitTyped == Init => TypeInv
<1> SUFFICES ASSUME Init PROVE TypeInv
  OBVIOUS
<1> USE IdentityAssumption DEF IdentityAssumption
<1>1. << >> \in Seq(Entries) /\ Len(<< >>) = 0 /\ DOMAIN << >> = {}
  OBVIOUS
<1>2. NonceMap(<< >>)
  BY <1>1 DEF NonceMap, Distinct
<1>3. stored \in Snapshots /\ stored.remembered = << >>
  BY <1>1 DEF Init, EmptySnapshot, Snapshots
<1>4. 0 \in 0..MaxTime
  OBVIOUS
<1>5. remembered \in Seq(Entries) /\ Len(remembered) <= MaxNonces
      /\ \A i, j \in DOMAIN remembered : remembered[i].nonce = remembered[j].nonce => i = j
  BY <1>1 DEF Init
<1> QED
  BY <1>2, <1>3, <1>4, <1>5 DEF Init, TypeInv, TypeOK

\* An accepted call keeps the types.
LEMMA AcceptTyped ==
  ASSUME TypeInv, NEW c \in Calls, NEW q \in Requests, NEW t, Remember(q, t),
         NEW v \in Nat, Reply(c, {q}, v)
  PROVE  /\ NonceMap(remembered') /\ forgotten' \subseteq Nonces
         /\ call' \in [Calls -> CallStates]
<1>1. NonceMap(remembered) /\ forgotten \subseteq Nonces /\ call \in [Calls -> CallStates]
  BY DEF TypeInv, TypeOK, NonceMap, Distinct, CallStates
<1>2. {q} \in SUBSET Requests
  OBVIOUS
<1> QED
  BY <1>1, <1>2, RememberKeeps, ReplyTyped

LEMMA StepTyped == TypeInv /\ [Next]_vars => TypeInv'
<1> SUFFICES ASSUME TypeInv, [Next]_vars PROVE TypeInv'
  OBVIOUS
<1> USE IdentityAssumption DEF IdentityAssumption
<1> DEFINE Rest == /\ now' \in 0..MaxTime
                   /\ key' \in Keys \cup {NoKey} /\ verified' \in BOOLEAN /\ version' \in Nat
                   /\ stored' \in Snapshots /\ NonceMap(stored'.remembered)
                   /\ accepted' \subseteq Requests
                   /\ held' \subseteq Keys /\ attested' \subseteq Keys
                   /\ durable' \subseteq Requests /\ ackedVersion' \in Nat
<1>a. TypeOK /\ NonceMap(stored.remembered) /\ NonceMap(remembered)
      /\ call \in [Calls -> CallStates] /\ forgotten \subseteq Nonces
  BY DEF TypeInv, TypeOK, NonceMap, Distinct, CallStates
<1>b. ASSUME Rest, NonceMap(remembered'), call' \in [Calls -> CallStates],
             forgotten' \subseteq Nonces
      PROVE  TypeInv'
  BY <1>b DEF TypeInv, TypeOK, NonceMap, Distinct, CallStates
<1>c. /\ now \in 0..MaxTime
      /\ key \in Keys \cup {NoKey} /\ verified \in BOOLEAN /\ version \in Nat
      /\ stored \in Snapshots /\ accepted \subseteq Requests
      /\ held \subseteq Keys /\ attested \subseteq Keys
      /\ durable \subseteq Requests /\ ackedVersion \in Nat
  BY <1>a DEF TypeOK
<1>d. \A map : NonceMap(map) => map \in Seq(Entries) /\ Len(map) <= MaxNonces /\ Distinct(map)
  BY DEF NonceMap
<1>e. {} \in SUBSET Requests /\ 0 \in Nat
  OBVIOUS
<1>1. CASE Tick
  BY <1>1, <1>a, <1>b, <1>c DEF Tick, registryVars, historyVars
<1>2. CASE Restart
  <2>1. NonceMap(remembered')
    <3>1. remembered' = Live(stored.remembered, now)
      BY <1>2 DEF Restart
    <3>2. /\ Live(stored.remembered, now) \in Seq(Entries)
          /\ Len(Live(stored.remembered, now)) <= Len(stored.remembered)
          /\ Distinct(Live(stored.remembered, now))
      BY <1>a, <1>d, LiveKeeps
    <3> QED
      BY <1>a, <1>d, <3>1, <3>2, LenProperties DEF NonceMap
  <2>2. forgotten' \subseteq Nonces
    <3>1. remembered \in Seq(Entries)
      BY <1>a, <1>d
    <3>2. \A i \in DOMAIN remembered : remembered[i] \in Entries
      BY <3>1, ElementOfSeq, LenProperties
    <3>3. \A x \in ToSet(remembered) : x.nonce \in Nonces
      BY <3>2 DEF ToSet, Entries
    <3> QED
      BY <1>2, <1>a, <3>3 DEF Restart
  <2>3. call' \in [Calls -> CallStates]
    BY <1>2 DEF Restart, CallStates
  <2>4. Rest
    BY <1>2, <1>a, <1>c DEF Restart, Snapshots, clockVars
  <2> QED
    BY <1>b, <2>1, <2>2, <2>3, <2>4
<1>3. ASSUME NEW c \in Calls, NEW q \in Requests, Begin(c, q) PROVE TypeInv'
  <2>1. NonceMap(remembered')
    <3>1. remembered' = remembered \/ remembered' = Prune(remembered, now)
      BY <1>3 DEF Begin
    <3> QED
      BY <1>a, <1>d, <3>1, PruneKeeps DEF NonceMap
  <2>2. call' \in [Calls -> CallStates]
    <3> DEFINE verifying == [phase |-> "verifying", request |-> q, seen |-> key,
                             at |-> now, replayed |-> q \in accepted]
    <3>1. verifying \in CallStates
      <4>1. (q \in accepted) \in BOOLEAN
        OBVIOUS
      <4> QED
        BY <1>c, <4>1 DEF CallStates, Verifying
    <3> HIDE DEF verifying
    <3>2. Reply(c, {}, 0) \/ call' = [call EXCEPT ![c] = verifying]
      BY <1>3 DEF Begin, verifying
    <3> QED
      BY <1>a, <1>e, <3>1, <3>2, ReplyTyped
  <2>3. Rest /\ forgotten' \subseteq Nonces
    BY <1>3, <1>a, <1>c DEF Begin, clockVars, historyVars
  <2> QED
    BY <1>b, <2>1, <2>2, <2>3
<1>4. ASSUME NEW c \in Calls, FinishSigned(c) \/ FinishRotate(c) PROVE TypeInv'
  <2> DEFINE q == call[c].request
  <2>1. q \in Requests /\ q.key \in Keys /\ q.newKey \in Keys
    <3>1. call[c] \in Verifying
      BY <1>4, <1>a, PhasesTell DEF FinishSigned, FinishRotate
    <3>2. q \in Requests
      BY <3>1 DEF Verifying
    <3> QED
      BY <3>2 DEF SignedRequests
  <2> HIDE DEF q
  <2>2. CASE Reply(c, {}, 0) /\ UNCHANGED <<clockVars, stored, registryVars, historyVars>>
    <3>1. call' \in [Calls -> CallStates]
      BY <1>a, <1>e, <2>2, ReplyTyped
    <3> QED
      BY <1>b, <1>a, <1>c, <2>2, <3>1 DEF clockVars, registryVars, historyVars
  <2>3. CASE /\ Remember(q, call[c].at) /\ accepted' = accepted \cup {q}
             /\ Reply(c, {q}, version') /\ version' \in {version, version + 1}
             /\ key' \in Keys /\ held' = held \cup {key'} /\ verified' \in BOOLEAN
             /\ UNCHANGED <<clockVars, stored, attested, durable, ackedVersion>>
    <3>1. version' \in Nat
      BY <1>c, <2>3
    <3>2. /\ NonceMap(remembered') /\ forgotten' \subseteq Nonces
          /\ call' \in [Calls -> CallStates]
      BY <2>1, <2>3, <3>1, AcceptTyped
    <3>3. Rest
      BY <1>a, <1>c, <2>1, <2>3, <3>1 DEF clockVars
    <3> QED
      BY <1>b, <3>2, <3>3
  <2>4. CASE FinishSigned(c)
    BY <1>c, <2>1, <2>2, <2>3, <2>4 DEF FinishSigned, q
  <2>5. CASE FinishRotate(c)
    BY <1>c, <2>1, <2>2, <2>3, <2>5 DEF FinishRotate, ResetVerification, q
  <2> QED
    BY <1>4, <2>4, <2>5
<1>5. ASSUME NEW c \in Calls, BeginVerify(c) PROVE TypeInv'
  <2>1. call' \in [Calls -> CallStates]
    <3>1. key # NoKey => [phase |-> "fetching", seen |-> key] \in CallStates
      BY <1>c DEF CallStates, Fetching
    <3> QED
      BY <1>5, <1>a, <1>e, <3>1, ReplyTyped DEF BeginVerify
  <2> QED
    BY <1>5, <1>a, <1>b, <1>c, <2>1 DEF BeginVerify, clockVars, registryVars, historyVars
<1>6. ASSUME NEW c \in Calls, Persist(c) PROVE TypeInv'
  <2>1. call[c] \in Persisting
    BY <1>6, <1>a, PhasesTell DEF Persist
  <2>2. call[c].accepted \subseteq Requests /\ call[c].version \in Nat
    BY <2>1 DEF Persisting
  <2>3. call' \in [Calls -> CallStates]
    BY <1>6, <1>a DEF Persist, CallStates
  <2>4. Snapshot \in Snapshots /\ Snapshot.remembered = remembered
    BY <1>a, <1>c, <1>d DEF Snapshot, Snapshots
  <2>5. Rest
    BY <1>6, <1>a, <1>c, <2>2, <2>4 DEF Persist, clockVars, registryVars
  <2> QED
    BY <1>6, <1>a, <1>b, <2>3, <2>5 DEF Persist, registryVars
<1>7. ASSUME NEW c \in Calls, NEW listed \in SUBSET Keys, FinishVerify(c, listed) PROVE TypeInv'
  <2>1. call' \in [Calls -> CallStates]
    BY <1>7, <1>a, <1>e, ReplyTyped DEF FinishVerify
  <2> QED
    BY <1>7, <1>a, <1>b, <1>c, <2>1 DEF FinishVerify, clockVars
<1>8. CASE UNCHANGED vars
  BY <1>8, <1>a, <1>b, <1>c DEF vars, clockVars, registryVars, historyVars
<1> QED
  BY <1>1, <1>2, <1>3, <1>4, <1>5, <1>6, <1>7, <1>8 DEF Next

\* Every variable keeps the type it is declared with; a sender never has more
\* than maxNoncesPerSender entries, nor two for one nonce (pruneSenderNonces).
THEOREM IdentityTyped == Spec => []TypeOK
<1>1. TypeInv => TypeOK
  BY DEF TypeInv
<1> QED
  BY <1>1, InitTyped, StepTyped, PTL DEF Spec

-----------------------------------------------------------------------------
(* The inductive invariant *)

\* What a call knows was so: its handler began in the past, with a key of the
\* sender or none, and what it accepted is accepted, under a version of the
\* key that is not newer than the current one.
CallsKnown ==
  \A c \in Calls :
    /\ call[c].phase = "verifying" =>
         /\ call[c].at <= now
         /\ call[c].seen = NoKey \/ call[c].seen \in held
         /\ call[c].replayed => call[c].request \in accepted
    /\ call[c].phase = "persisting" =>
         call[c].accepted \subseteq accepted /\ call[c].version <= version

\* An accepted request is remembered, with its time or a later one, for as
\* long as its TTL has not passed and its nonce was not forgotten.
Remembered(q) ==
  \/ q.nonce \in forgotten
  \/ Expired(q, now)
  \/ \E e \in ToSet(remembered) : e.nonce = q.nonce /\ e.ts >= q.ts

AcceptedRemembered == \A q \in accepted : Remembered(q)

\* What is stored was the identity at some time: its version is not newer, its
\* key was held, and its mark is GitHub's.
KeysKnown ==
  /\ stored.version <= version /\ ackedVersion <= stored.version
  /\ key = NoKey => version = 0
  /\ stored.key = NoKey => stored.version = 0
  /\ {key, stored.key} \subseteq held \cup {NoKey}
  /\ verified => key \in attested
  /\ stored.verified => stored.key \in attested

\* A request whose acceptance was stored is in storage until it expires.
DurableStored ==
  /\ durable \subseteq accepted
  /\ \A q \in durable :
       q.nonce \in NoncesOf(stored.remembered) \cup forgotten \/ Expired(q, now)

IdentityInv ==
  /\ TypeInv /\ CallsKnown /\ AcceptedRemembered /\ KeysKnown /\ DurableStored
  /\ ReplayOnlyIfForgotten

LEMMA Typed ==
  ASSUME TypeInv
  PROVE  /\ NonceMap(remembered) /\ NonceMap(stored.remembered)
         /\ call \in [Calls -> CallStates] /\ forgotten \subseteq Nonces
         /\ now \in Nat /\ version \in Nat /\ stored.version \in Nat /\ ackedVersion \in Nat
         /\ stored.key \in Keys \cup {NoKey} /\ stored.verified \in BOOLEAN
         /\ accepted \subseteq Requests /\ held \subseteq Keys
         /\ NonceTtl \in Nat /\ MaxClockSkew \in Nat /\ NoKey \notin Keys
  BY IdentityAssumption
  DEF IdentityAssumption, TypeInv, TypeOK, NonceMap, Distinct, CallStates, Snapshots

\* A request under verification is a request, its call read the clock.
LEMMA VerifyingTyped ==
  ASSUME TypeInv, NEW c \in Calls, call[c].phase = "verifying"
  PROVE  /\ call[c].request \in Requests /\ call[c].at \in Nat
         /\ call[c].request.nonce \in Nonces /\ call[c].request.ts \in Nat
         /\ call[c].request.key \in Keys /\ call[c].request.newKey \in Keys
<1>1. call[c] \in Verifying
  BY Typed, PhasesTell
<1>2. call[c].request \in Requests /\ call[c].at \in 0..MaxTime
  BY <1>1 DEF Verifying
<1> QED
  BY <1>2, IdentityAssumption DEF IdentityAssumption, SignedRequests

LEMMA RequestsTyped ==
  ASSUME NEW q \in Requests
  PROVE  q.ts \in Nat /\ q.nonce \in Nonces
  BY IdentityAssumption DEF IdentityAssumption, SignedRequests

\* Time and the histories only grow.
LEMMA HistoryGrows ==
  ASSUME TypeInv, Next
  PROVE  /\ accepted \subseteq accepted' /\ forgotten \subseteq forgotten'
         /\ held \subseteq held' /\ attested \subseteq attested'
         /\ now' \in Nat /\ now' >= now
<1>1. ASSUME NEW c \in Calls, FinishSigned(c) \/ FinishRotate(c)
      PROVE  /\ accepted \subseteq accepted' /\ forgotten \subseteq forgotten'
             /\ held \subseteq held' /\ attested' = attested /\ now' = now
  BY <1>1 DEF FinishSigned, FinishRotate, Remember, clockVars, historyVars
<1>2. CASE Tick
  BY <1>2, Typed DEF Tick, historyVars
<1> QED
  BY <1>1, <1>2, Typed
  DEF Next, Restart, Begin, BeginVerify, Persist, FinishVerify, clockVars, historyVars

\* Whatever time it is, a request that had expired has.
LEMMA ExpiredStays ==
  ASSUME NEW t \in Nat, NEW u \in Nat, t <= u, NEW q, q.ts \in Nat, Expired(q, t)
  PROVE  Expired(q, u)
  BY IdentityAssumption DEF IdentityAssumption, Expired

\* The two ways a call of FinishSigned or FinishRotate can end.
Denied(c) ==
  Reply(c, {}, 0) /\ UNCHANGED <<clockVars, stored, registryVars, historyVars>>

Admitted(c) ==
  LET q == call[c].request IN
  /\ Remember(q, call[c].at) /\ accepted' = accepted \cup {q}
  /\ Reply(c, {q}, version')
  /\ key' \in {q.key, q.newKey} /\ held' = held \cup {key'}
  /\ version' = version + 1 \/ (version' = version /\ key # NoKey)
  /\ verified' => verified /\ key' = key
  /\ UNCHANGED <<clockVars, stored, attested, durable, ackedVersion>>

LEMMA SignedEnds ==
  ASSUME TypeInv, NEW c \in Calls, FinishSigned(c) \/ FinishRotate(c)
  PROVE  call[c].phase = "verifying" /\ (Denied(c) \/ Admitted(c))
<1>1. CASE FinishSigned(c)
  BY <1>1 DEF FinishSigned, Denied, Admitted
<1>2. CASE FinishRotate(c)
  BY <1>2 DEF FinishRotate, ResetVerification, Denied, Admitted
<1> QED
  BY <1>1, <1>2

-----------------------------------------------------------------------------
(* What a call knows *)

LEMMA InitInv == Init => IdentityInv
<1> SUFFICES ASSUME Init PROVE IdentityInv
  OBVIOUS
<1>1. TypeInv
  BY InitTyped
<1> QED
  BY <1>1 DEF Init, IdentityInv, CallsKnown, AcceptedRemembered, KeysKnown, DurableStored,
     ReplayOnlyIfForgotten, Idle, EmptySnapshot

LEMMA StepCalls == TypeInv /\ CallsKnown /\ KeysKnown /\ Next => CallsKnown'
<1> SUFFICES ASSUME TypeInv, CallsKnown, KeysKnown, Next PROVE CallsKnown'
  OBVIOUS
<1> DEFINE Known(c) ==
      /\ call[c].phase = "verifying" =>
           /\ call[c].at <= now
           /\ call[c].seen = NoKey \/ call[c].seen \in held
           /\ call[c].replayed => call[c].request \in accepted
      /\ call[c].phase = "persisting" =>
           call[c].accepted \subseteq accepted /\ call[c].version <= version
<1>a. /\ accepted \subseteq accepted' /\ held \subseteq held' /\ now' >= now
      /\ now \in Nat /\ now' \in Nat /\ version \in Nat
      /\ call \in [Calls -> CallStates]
  BY HistoryGrows, Typed
<1>b. ASSUME NEW d \in Calls, call'[d] = call[d], version' \in {version, version + 1}
      PROVE  Known(d)'
  <2>1. Known(d)
    BY DEF CallsKnown
  <2>2. call[d].phase = "verifying" => call[d].at \in Nat
    BY VerifyingTyped
  <2>3. call[d].phase = "persisting" => call[d].version \in Nat
    BY <1>a, PhasesTell DEF Persisting
  <2> QED
    BY <1>a, <1>b, <2>1, <2>2, <2>3
<1>c. ASSUME NEW c \in Calls, NEW R \in SUBSET Requests, R \subseteq accepted',
             NEW v \in Nat, v <= version', Reply(c, R, v), version' \in {version, version + 1}
      PROVE  CallsKnown'
  <2>1. /\ \A d \in Calls \ {c} : call'[d] = call[d]
        /\ call'[c].phase # "verifying"
        /\ call'[c].phase = "persisting" => call'[c].accepted = R /\ call'[c].version = v
    BY <1>a, <1>c, ReplyTyped
  <2>2. Known(c)'
    BY <1>c, <2>1
  <2> QED
    BY <1>b, <1>c, <2>1, <2>2 DEF CallsKnown
<1>d. {} \in SUBSET Requests /\ {} \subseteq accepted' /\ 0 \in Nat
  OBVIOUS
<1>1. CASE Tick
  BY <1>1, <1>b DEF Tick, CallsKnown, registryVars
<1>2. CASE Restart
  BY <1>2 DEF Restart, CallsKnown, Idle
<1>3. ASSUME NEW c \in Calls, NEW q \in Requests, Begin(c, q) PROVE CallsKnown'
  <2>1. version' = version /\ now' = now /\ accepted' = accepted /\ held' = held
    BY <1>3 DEF Begin, clockVars, historyVars
  <2>2. CASE Reply(c, {}, 0)
    BY <1>a, <1>c, <1>d, <2>1, <2>2
  <2>3. CASE call' = [call EXCEPT ![c] = [phase |-> "verifying", request |-> q, seen |-> key,
                                          at |-> now, replayed |-> q \in accepted]]
    <3>1. Known(c)'
      BY <1>a, <2>1, <2>3 DEF KeysKnown
    <3>2. \A d \in Calls \ {c} : call'[d] = call[d]
      BY <1>a, <2>3
    <3> QED
      BY <1>b, <2>1, <3>1, <3>2 DEF CallsKnown
  <2> QED
    BY <1>3, <2>2, <2>3 DEF Begin
<1>4. ASSUME NEW c \in Calls, FinishSigned(c) \/ FinishRotate(c) PROVE CallsKnown'
  <2>1. CASE Denied(c)
    BY <1>a, <1>c, <1>d, <2>1 DEF Denied, registryVars
  <2>2. CASE Admitted(c)
    <3>1. call[c].request \in Requests
      BY <1>4, SignedEnds, VerifyingTyped
    <3>2. {call[c].request} \in SUBSET Requests /\ {call[c].request} \subseteq accepted'
      BY <2>2, <3>1 DEF Admitted
    <3>3. version' \in {version, version + 1} /\ version' \in Nat /\ version' <= version'
      BY <1>a, <2>2 DEF Admitted
    <3> QED
      BY <1>c, <2>2, <3>2, <3>3 DEF Admitted
  <2> QED
    BY <1>4, <2>1, <2>2, SignedEnds
<1>5. ASSUME NEW c \in Calls, BeginVerify(c) PROVE CallsKnown'
  <2>1. version' = version
    BY <1>5 DEF BeginVerify, registryVars
  <2>2. CASE Reply(c, {}, 0)
    BY <1>a, <1>c, <1>d, <2>1, <2>2
  <2>3. CASE call' = [call EXCEPT ![c] = [phase |-> "fetching", seen |-> key]]
    <3>1. Known(c)'
      BY <1>a, <2>3
    <3>2. \A d \in Calls \ {c} : call'[d] = call[d]
      BY <1>a, <2>3
    <3> QED
      BY <1>b, <2>1, <3>1, <3>2 DEF CallsKnown
  <2> QED
    BY <1>5, <2>2, <2>3 DEF BeginVerify
<1>6. ASSUME NEW c \in Calls, Persist(c) PROVE CallsKnown'
  <2>1. version' = version /\ call' = [call EXCEPT ![c] = Idle]
    BY <1>6 DEF Persist, registryVars
  <2>2. Known(c)'
    BY <1>a, <2>1 DEF Idle
  <2>3. \A d \in Calls \ {c} : call'[d] = call[d]
    BY <1>a, <2>1
  <2> QED
    BY <1>b, <2>1, <2>2, <2>3 DEF CallsKnown
<1>7. ASSUME NEW c \in Calls, NEW listed \in SUBSET Keys, FinishVerify(c, listed)
      PROVE  CallsKnown'
  BY <1>7, <1>a, <1>c, <1>d DEF FinishVerify
<1> QED
  BY <1>1, <1>2, <1>3, <1>4, <1>5, <1>6, <1>7 DEF Next

-----------------------------------------------------------------------------
(* Accepted requests are remembered *)

LEMMA StepRemembered ==
  TypeInv /\ CallsKnown /\ AcceptedRemembered /\ Next => AcceptedRemembered'
<1> SUFFICES ASSUME TypeInv, CallsKnown, AcceptedRemembered, Next, NEW q \in accepted'
             PROVE  Remembered(q)'
  BY DEF AcceptedRemembered
<1>a. /\ forgotten \subseteq forgotten' /\ now \in Nat /\ now' \in Nat /\ now <= now'
      /\ NonceMap(remembered) /\ NonceMap(stored.remembered) /\ forgotten \subseteq Nonces
      /\ remembered \in Seq(Entries) /\ stored.remembered \in Seq(Entries)
      /\ Len(remembered) <= MaxNonces
  BY HistoryGrows, Typed DEF NonceMap
<1>b. accepted' \subseteq Requests
  BY StepTyped DEF TypeInv, TypeOK
<1>c. q \in Requests /\ q.ts \in Nat
  BY <1>b, RequestsTyped
<1>d. Expired(q, now) => Expired(q, now')
  BY <1>a, <1>c, ExpiredStays
<1>e. ASSUME q \in accepted,
             \A e \in ToSet(remembered) : e.nonce = q.nonce /\ e.ts >= q.ts =>
               \/ Expired(q, now')
               \/ q.nonce \in forgotten'
               \/ \E x \in ToSet(remembered') : x.nonce = q.nonce /\ x.ts >= q.ts
      PROVE  Remembered(q)'
  <2>1. Remembered(q)
    BY <1>e DEF AcceptedRemembered
  <2> QED
    BY <1>a, <1>d, <1>e, <2>1 DEF Remembered
<1>f. ASSUME NEW e, e.ts \in Nat, e.ts >= q.ts, NEW t \in Nat, t <= now', Expired(e, t)
      PROVE  Expired(q, now')
  BY <1>a, <1>c, <1>f, IdentityAssumption DEF IdentityAssumption, Expired
<1>g. \A e \in ToSet(remembered) \cup ToSet(stored.remembered) : e.ts \in Nat
  <2>1. \A i \in DOMAIN remembered : remembered[i] \in Entries
    BY <1>a, ElementOfSeq, LenProperties
  <2>2. \A i \in DOMAIN stored.remembered : stored.remembered[i] \in Entries
    BY <1>a, ElementOfSeq, LenProperties
  <2> QED
    BY <2>1, <2>2, IdentityAssumption DEF IdentityAssumption, ToSet, Entries
<1>1. CASE accepted' = accepted /\ remembered' = remembered
  BY <1>1, <1>e
<1>2. CASE Restart
  <2>1. /\ remembered' = Live(stored.remembered, now) /\ accepted' = accepted /\ now' = now
        /\ forgotten' = forgotten \cup
             {e.nonce : e \in {x \in ToSet(remembered) :
                \A s \in ToSet(stored.remembered) : s.nonce = x.nonce => s.ts < x.ts}}
    BY <1>2 DEF Restart, clockVars
  <2>2. ASSUME NEW e \in ToSet(remembered), e.nonce = q.nonce, e.ts >= q.ts,
               q.nonce \notin forgotten', ~Expired(q, now')
        PROVE  \E x \in ToSet(remembered') : x.nonce = q.nonce /\ x.ts >= q.ts
    <3>1. PICK x \in ToSet(stored.remembered) : x.nonce = e.nonce /\ ~(x.ts < e.ts)
      BY <2>1, <2>2
    <3>2. x.ts \in Nat /\ e.ts \in Nat /\ x.ts >= q.ts
      BY <1>c, <1>g, <2>2, <3>1
    <3>3. ~Expired(x, now)
      BY <1>a, <1>f, <2>1, <2>2, <3>2
    <3>4. x \in ToSet(remembered')
      BY <1>a, <2>1, <3>1, <3>3, LiveKeeps
    <3> QED
      BY <2>2, <3>1, <3>2, <3>4
  <2> QED
    BY <1>e, <2>1, <2>2
<1>3. ASSUME NEW c \in Calls, NEW p \in Requests, Begin(c, p) PROVE Remembered(q)'
  <2>1. accepted' = accepted /\ now' = now
        /\ (remembered' = remembered \/ remembered' = Prune(remembered, now))
    BY <1>3 DEF Begin, clockVars, historyVars
  <2>2. Prune(remembered, now) = Live(remembered, now)
    BY <1>a, PruneKeeps
  <2>3. ASSUME NEW e \in ToSet(remembered), e.ts >= q.ts, ~Expired(q, now')
        PROVE  e \in ToSet(remembered')
    <3>1. ~Expired(e, now)
      BY <1>a, <1>f, <1>g, <2>1, <2>3
    <3> QED
      BY <1>a, <2>1, <2>2, <2>3, <3>1, LiveKeeps
  <2> QED
    BY <1>e, <2>1, <2>3
<1>4. ASSUME NEW c \in Calls, FinishSigned(c) \/ FinishRotate(c) PROVE Remembered(q)'
  <2>1. CASE Denied(c)
    BY <1>1, <2>1 DEF Denied, registryVars, historyVars
  <2>2. CASE Admitted(c)
    <3> DEFINE p == call[c].request
               t == call[c].at
    <3>1. p \in Requests /\ p.ts \in Nat /\ t \in Nat /\ t <= now
      BY <1>4, SignedEnds, VerifyingTyped DEF CallsKnown
    <3>2. Remember(p, t) /\ accepted' = accepted \cup {p} /\ now' = now
      BY <2>2 DEF Admitted, clockVars
    <3> HIDE DEF p, t
    <3>3. /\ \E e \in ToSet(remembered') : e.nonce = p.nonce /\ e.ts = p.ts
          /\ \A e \in ToSet(remembered) :
               \/ Expired(e, t) \/ e.nonce \in forgotten'
               \/ e \in ToSet(remembered')
               \/ e.nonce = p.nonce /\ e.ts <= p.ts
      BY <1>a, <3>1, <3>2, RememberKeeps
    <3>4. CASE q = p
      BY <3>1, <3>3, <3>4 DEF Remembered
    <3>5. CASE q \in accepted
      <4>1. ASSUME NEW e \in ToSet(remembered), e.nonce = q.nonce, e.ts >= q.ts
            PROVE  \/ Expired(q, now')
                   \/ q.nonce \in forgotten'
                   \/ \E x \in ToSet(remembered') : x.nonce = q.nonce /\ x.ts >= q.ts
        <5>1. CASE Expired(e, t)
          BY <1>a, <1>f, <1>g, <3>1, <3>2, <4>1, <5>1
        <5>2. CASE e.nonce \in forgotten' \/ e \in ToSet(remembered')
          BY <4>1, <5>2
        <5>3. CASE e.nonce = p.nonce /\ e.ts <= p.ts
          <6>1. PICK x \in ToSet(remembered') : x.nonce = p.nonce /\ x.ts = p.ts
            BY <3>3
          <6>2. x.ts >= q.ts
            BY <1>c, <1>g, <3>1, <4>1, <5>3, <6>1
          <6> QED
            BY <4>1, <5>3, <6>1, <6>2
        <5> QED
          BY <3>3, <5>1, <5>2, <5>3
      <4> QED
        BY <1>e, <3>5, <4>1
    <3> QED
      BY <3>2, <3>4, <3>5
  <2> QED
    BY <1>4, <2>1, <2>2, SignedEnds
<1> QED
  BY <1>1, <1>2, <1>3, <1>4
  DEF Next, Tick, BeginVerify, Persist, FinishVerify, registryVars, historyVars

\* Pruning cuts nothing from a map that is within the limit, so a replay that
\* gets past the nonce check has expired or is forgotten; when the TTL covers
\* the clock skew, the skew check turns the expired ones away.
LEMMA StepReplay ==
  TypeInv /\ AcceptedRemembered /\ ReplayOnlyIfForgotten /\ Next => ReplayOnlyIfForgotten'
<1> SUFFICES ASSUME TypeInv, AcceptedRemembered, ReplayOnlyIfForgotten, Next,
                    NonceTtl >= MaxClockSkew, NEW d \in Calls,
                    call'[d].phase = "verifying", call'[d].replayed
             PROVE  call'[d].request.nonce \in forgotten'
  BY DEF ReplayOnlyIfForgotten
<1>a. forgotten \subseteq forgotten' /\ call \in [Calls -> CallStates] /\ now \in Nat
      /\ remembered \in Seq(Entries) /\ Len(remembered) <= MaxNonces
      /\ NonceTtl \in Nat /\ MaxClockSkew \in Nat
  BY HistoryGrows, Typed DEF NonceMap
<1>1. CASE call'[d] = call[d]
  BY <1>1, <1>a DEF ReplayOnlyIfForgotten
<1>2. ASSUME NEW q \in Requests, Begin(d, q),
             call' = [call EXCEPT ![d] = [phase |-> "verifying", request |-> q, seen |-> key,
                                          at |-> now, replayed |-> q \in accepted]]
      PROVE  call'[d].request.nonce \in forgotten'
  <2>1. call'[d].request = q /\ q \in accepted
    BY <1>2, <1>a
  <2>2. Remembered(q) /\ q.ts \in Nat
    BY <2>1, RequestsTyped DEF AcceptedRemembered
  <2>3. call'[d] # Idle
    BY DEF Idle
  <2>4. ~(now - q.ts > MaxClockSkew) /\ q.nonce \notin NoncesOf(Prune(remembered, now))
    <3>1. ~Reply(d, {}, 0)
      BY <1>a, ReplyTyped
    <3> QED
      BY <1>2, <3>1 DEF Begin
  <2>5. ~Expired(q, now)
    BY <1>a, <2>2, <2>4 DEF Expired
  <2>6. ASSUME NEW e \in ToSet(remembered), e.nonce = q.nonce, e.ts >= q.ts PROVE FALSE
    <3>1. e.ts \in Nat
      <4>1. \A i \in DOMAIN remembered : remembered[i] \in Entries
        BY <1>a, ElementOfSeq, LenProperties
      <4> QED
        BY <4>1, IdentityAssumption DEF IdentityAssumption, ToSet, Entries
    <3>2. ~Expired(e, now)
      BY <1>a, <2>2, <2>5, <2>6, <3>1 DEF Expired
    <3>3. e \in ToSet(Prune(remembered, now))
      BY <1>a, <3>2, LiveKeeps, PruneKeeps
    <3> QED
      BY <2>4, <2>6, <3>3 DEF ToSet, NoncesOf
  <2> QED
    BY <1>a, <2>1, <2>2, <2>5, <2>6 DEF Remembered
<1>3. ASSUME NEW c \in Calls, NEW R \in SUBSET Requests, NEW v \in Nat, Reply(c, R, v)
      PROVE  call'[d] = call[d]
  BY <1>3, <1>a, ReplyTyped
<1>4. {} \in SUBSET Requests /\ 0 \in Nat
  OBVIOUS
<1>5. ASSUME NEW c \in Calls, FinishSigned(c) \/ FinishRotate(c) PROVE call'[d] = call[d]
  <2>1. call[c].request \in Requests
    BY <1>5, SignedEnds, VerifyingTyped
  <2>2. version' \in Nat
    BY StepTyped DEF TypeInv, TypeOK
  <2> QED
    BY <1>3, <1>4, <1>5, <2>1, <2>2, SignedEnds DEF Denied, Admitted
<1>6. ASSUME NEW c \in Calls, NEW q \in Requests, Begin(c, q)
      PROVE  call'[d] = call[d] \/ call'[d].request.nonce \in forgotten'
  <2>1. CASE Reply(c, {}, 0)
    BY <1>3, <1>4, <2>1
  <2>2. CASE call' = [call EXCEPT ![c] = [phase |-> "verifying", request |-> q, seen |-> key,
                                          at |-> now, replayed |-> q \in accepted]]
    BY <1>2, <1>6, <1>a, <2>2
  <2> QED
    BY <1>6, <2>1, <2>2 DEF Begin
<1>7. ASSUME NEW c \in Calls, BeginVerify(c) \/ Persist(c) PROVE call'[d] = call[d]
  <2>1. CASE call' = [call EXCEPT ![c] = [phase |-> "fetching", seen |-> key]]
    BY <1>a, <2>1
  <2>2. CASE call' = [call EXCEPT ![c] = Idle]
    BY <1>a, <2>2 DEF Idle
  <2> QED
    BY <1>3, <1>4, <1>7, <2>1, <2>2 DEF BeginVerify, Persist
<1>8. ASSUME NEW c \in Calls, NEW listed \in SUBSET Keys, FinishVerify(c, listed)
      PROVE  call'[d] = call[d]
  BY <1>3, <1>4, <1>8 DEF FinishVerify
<1>9. CASE Restart
  BY <1>9 DEF Restart, Idle
<1>10. CASE Tick
  BY <1>1, <1>10 DEF Tick
<1> QED
  BY <1>1, <1>5, <1>6, <1>7, <1>8, <1>9, <1>10 DEF Next

-----------------------------------------------------------------------------
(* Keys *)

LEMMA StepKeys == TypeInv /\ CallsKnown /\ KeysKnown /\ Next => KeysKnown'
<1> SUFFICES ASSUME TypeInv, CallsKnown, KeysKnown, Next PROVE KeysKnown'
  OBVIOUS
<1>a. /\ held \subseteq held' /\ attested \subseteq attested'
      /\ version \in Nat /\ stored.version \in Nat /\ ackedVersion \in Nat
      /\ call \in [Calls -> CallStates]
  BY HistoryGrows, Typed
<1>b. NoKey \notin Keys
  BY Typed
<1>1. CASE UNCHANGED <<key, verified, version, stored, ackedVersion>>
  BY <1>1, <1>a DEF KeysKnown
<1>2. CASE Restart
  BY <1>2, <1>a DEF Restart, KeysKnown
<1>3. ASSUME NEW c \in Calls, Admitted(c), call[c].phase = "verifying" PROVE KeysKnown'
  <2>1. key' \in Keys
    BY <1>3, VerifyingTyped DEF Admitted
  <2>2. stored' = stored /\ ackedVersion' = ackedVersion /\ key' \in held'
        /\ version' \in Nat /\ version' >= version
    BY <1>3, <1>a DEF Admitted
  <2>3. verified' => key' \in attested'
    BY <1>3, <1>a DEF Admitted, KeysKnown
  <2> QED
    BY <1>a, <1>b, <2>1, <2>2, <2>3 DEF KeysKnown
<1>4. ASSUME NEW c \in Calls, Persist(c) PROVE KeysKnown'
  <2>1. UNCHANGED <<key, verified, version, held, attested>>
    BY <1>4 DEF Persist, registryVars
  <2>2. CASE stored' = Snapshot /\ ackedVersion' = IF call[c].version > ackedVersion
                                                  THEN call[c].version ELSE ackedVersion
    <3>1. call[c].version \in Nat /\ call[c].version <= version
      BY <1>4, <1>a, PhasesTell DEF Persist, Persisting, CallsKnown
    <3>2. ackedVersion' <= version
      BY <1>a, <2>2, <3>1 DEF KeysKnown
    <3> QED
      BY <1>a, <2>1, <2>2, <3>2 DEF KeysKnown, Snapshot
  <2>3. CASE UNCHANGED <<stored, ackedVersion>>
    BY <1>1, <2>1, <2>3
  <2> QED
    BY <1>4, <2>2, <2>3 DEF Persist
<1>5. ASSUME NEW c \in Calls, NEW listed \in SUBSET Keys, FinishVerify(c, listed)
      PROVE  KeysKnown'
  <2>1. /\ UNCHANGED <<key, version, stored, held, ackedVersion>>
        /\ attested' = attested \cup listed /\ verified' = (verified \/ key \in listed)
    BY <1>5 DEF FinishVerify, KeyToMatch
  <2>2. verified' => key' \in attested'
    BY <2>1 DEF KeysKnown
  <2> QED
    BY <1>a, <2>1, <2>2 DEF KeysKnown
<1>6. ASSUME NEW c \in Calls, FinishSigned(c) \/ FinishRotate(c) PROVE KeysKnown'
  BY <1>1, <1>3, <1>6, SignedEnds DEF Denied, registryVars, historyVars
<1> QED
  BY <1>1, <1>2, <1>4, <1>5, <1>6
  DEF Next, Tick, Begin, BeginVerify, registryVars, historyVars

\* A registered key is replaced by the stored one, or by one that was signed
\* for with a key the sender held.
LEMMA StepRotations ==
  ASSUME IdentityInv, Next, key # NoKey, key' # key
  PROVE  \/ key' = stored.key
         \/ \E q \in Requests : q.op = "rotate" /\ q.newKey = key' /\ q.key \in held
<1>1. CASE Restart
  BY <1>1 DEF Restart
<1>2. ASSUME NEW c \in Calls, FinishSigned(c) PROVE FALSE
  BY <1>2 DEF FinishSigned, registryVars
<1>3. ASSUME NEW c \in Calls, FinishRotate(c)
      PROVE  \E q \in Requests : q.op = "rotate" /\ q.newKey = key' /\ q.key \in held
  <2> DEFINE q == call[c].request
  <2>1. q \in Requests /\ q.key \in Keys
    BY <1>3, VerifyingTyped DEF FinishRotate, IdentityInv
  <2>2. q.op = "rotate" /\ q.newKey = key' /\ q.key = call[c].seen
    BY <1>3 DEF FinishRotate, SignedByOldKey, registryVars
  <2>3. q.key \in held
    BY <1>3, <2>1, <2>2, Typed DEF FinishRotate, IdentityInv, CallsKnown
  <2> QED
    BY <2>1, <2>2, <2>3
<1> QED
  BY <1>1, <1>2, <1>3
  DEF Next, Tick, Begin, BeginVerify, Persist, FinishVerify, registryVars

\* A sender that was told of its key never has none again.
LEMMA StepKeyStays ==
  ASSUME IdentityInv, Next, ackedVersion > 0, key # NoKey
  PROVE  key' # NoKey
<1>1. CASE Restart
  <2>1. stored.version # 0
    BY Typed DEF IdentityInv, KeysKnown
  <2> QED
    BY <1>1, <2>1 DEF Restart, IdentityInv, KeysKnown
<1>2. ASSUME NEW c \in Calls, FinishSigned(c) \/ FinishRotate(c) PROVE key' # NoKey
  <2>1. call[c].phase = "verifying" /\ (Denied(c) \/ Admitted(c))
    BY <1>2, SignedEnds DEF IdentityInv
  <2> QED
    BY <2>1, VerifyingTyped, Typed DEF Denied, Admitted, registryVars, IdentityInv
<1> QED
  BY <1>1, <1>2 DEF Next, Tick, Begin, BeginVerify, Persist, FinishVerify, registryVars

-----------------------------------------------------------------------------
(* What is durable *)

LEMMA StepDurable ==
  /\ TypeInv /\ CallsKnown /\ AcceptedRemembered /\ DurableStored /\ Next
  => DurableStored'
<1> SUFFICES ASSUME TypeInv, CallsKnown, AcceptedRemembered, DurableStored, Next
             PROVE  DurableStored'
  OBVIOUS
<1>a. /\ accepted \subseteq accepted' /\ forgotten \subseteq forgotten'
      /\ now \in Nat /\ now' \in Nat /\ now <= now' /\ accepted \subseteq Requests
  BY HistoryGrows, Typed
<1>b. \A q \in accepted : Expired(q, now) => Expired(q, now')
  BY <1>a, RequestsTyped, ExpiredStays
<1>1. CASE durable' = durable /\ stored' = stored
  BY <1>1, <1>a, <1>b DEF DurableStored
<1>2. ASSUME NEW c \in Calls, Persist(c), stored' = Snapshot,
             durable' = durable \cup call[c].accepted
      PROVE  DurableStored'
  <2>1. durable' \subseteq accepted /\ now' = now /\ forgotten' = forgotten
    BY <1>2 DEF Persist, CallsKnown, DurableStored, clockVars
  <2>2. ASSUME NEW q \in accepted
        PROVE  q.nonce \in NoncesOf(stored'.remembered) \cup forgotten \/ Expired(q, now)
    <3>1. stored'.remembered = remembered
      BY <1>2 DEF Snapshot
    <3>2. Remembered(q)
      BY DEF AcceptedRemembered
    <3>3. (\E e \in ToSet(remembered) : e.nonce = q.nonce) => q.nonce \in NoncesOf(remembered)
      BY DEF ToSet, NoncesOf
    <3> QED
      BY <3>1, <3>2, <3>3 DEF Remembered
  <2> QED
    BY <1>a, <2>1, <2>2 DEF DurableStored
<1>3. ASSUME NEW c \in Calls, FinishSigned(c) \/ FinishRotate(c)
      PROVE  durable' = durable /\ stored' = stored
  BY <1>3 DEF FinishSigned, FinishRotate, historyVars
<1> QED
  BY <1>1, <1>2, <1>3
  DEF Next, Tick, Restart, Begin, BeginVerify, Persist, FinishVerify, historyVars

-----------------------------------------------------------------------------
(* The theorems *)

LEMMA IdentityInvariant == Spec => []IdentityInv
<1>1. IdentityInv /\ [Next]_vars => IdentityInv'
  <2>1. IdentityInv /\ Next => IdentityInv'
    BY StepTyped, StepCalls, StepRemembered, StepReplay, StepKeys, StepDurable DEF IdentityInv
  <2>2. IdentityInv /\ UNCHANGED vars => IdentityInv'
    <3>1. TypeInv /\ UNCHANGED vars => TypeInv'
      BY StepTyped
    <3> QED
      BY <3>1
      DEF IdentityInv, CallsKnown, AcceptedRemembered, Remembered, KeysKnown, DurableStored,
          ReplayOnlyIfForgotten, Expired, NoncesOf,
          vars, clockVars, registryVars, historyVars
  <2> QED
    BY <2>1, <2>2
<1> QED
  BY <1>1, InitInv, PTL DEF Spec

\* As long as the TTL of nonces covers the clock skew, an accepted request is
\* verified again only if its nonce was dropped for want of room, overwritten
\* or lost in a crash.
THEOREM ReplaysAreForgotten == Spec => []ReplayOnlyIfForgotten
<1>1. IdentityInv => ReplayOnlyIfForgotten
  BY DEF IdentityInv
<1> QED
  BY <1>1, IdentityInvariant, PTL

\* What was answered after a successful put survives every crash: the nonce up
\* to its TTL, the change of the key, and so that there is a key.
THEOREM AckedIsKept == Spec => AckedIdentityIsKept
<1>1. IdentityInv =>
        /\ ackedVersion <= stored.version
        /\ \A q \in durable :
             q.nonce \in NoncesOf(stored.remembered) \cup forgotten \/ Expired(q, now)
  BY DEF IdentityInv, KeysKnown, DurableStored
<1>2. IdentityInv /\ [Next]_vars => [ackedVersion > 0 => key' # NoKey \/ key = NoKey]_vars
  BY StepKeyStays
<1> QED
  BY <1>1, <1>2, IdentityInvariant, PTL DEF Spec, AckedIdentityIsKept

\* The registered key is vouched for by a key the sender held, and its mark by
\* GitHub, whatever rotations and verifications overlap.
THEOREM KeysVouched == Spec => KeysAreVouchedFor
<1> DEFINE Authorised == key # NoKey /\ key' # key =>
             \/ key' = stored.key
             \/ \E q \in Requests : q.op = "rotate" /\ q.newKey = key' /\ q.key \in held
<1>1. IdentityInv => (verified => key \in attested)
  BY DEF IdentityInv, KeysKnown
<1>2. IdentityInv /\ [Next]_vars => [Authorised]_vars
  BY StepRotations
<1> QED
  BY <1>1, <1>2, IdentityInvariant, PTL DEF Spec, KeysAreVouchedFor, RotationsAreAuthorised
=============================================================================
