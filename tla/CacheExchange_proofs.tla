------------------------ MODULE CacheExchange_proofs ------------------------
(***************************************************************************)
(* Proofs about CacheExchange, for any relays, peers, rooms, limits and    *)
(* restarts: the types, that the cursor of a worker passes over no record  *)
(* it has not brought home, and that copies die out.                       *)
(***************************************************************************)
EXTENDS CacheExchange, FiniteSetTheorems, FunctionTheorems, SequenceTheorems,
        WellFoundedInduction, TLAPS

Ring(n) == ToSet(records[n])

\* A ring numbers its records, none twice and none beyond its cursor.
RingInv ==
  \A n \in Nodes : \A x \in Ring(n) :
    /\ 1 <= x.cursor /\ x.cursor <= exchangeCursor[n]
    /\ \A y \in Ring(n) : x.cursor = y.cursor => x = y

\* What a room holds was accepted since the relay started.
KnownInv == \A n \in Nodes, r \in Rooms : HeldIds(n, r) \subseteq known[n]

\* A page has each cursor once.
PageInv ==
  \A n \in Nodes :
    /\ IsFiniteSet(sync[n].entries)
    /\ \A e, f \in sync[n].entries : e.cursor = f.cursor => e = f

\* The worker of n may still want x.
Wants(n, x) == x.origin # n /\ x.hop + 1 < x.max /\ x.msg.id \notin known[n]

\* A cursor is not ahead of its peer's, and what n wants of p lies beyond it.
CursorInv ==
  \A n \in Nodes : \A p \in PeersOf(n) :
    p \notin outdated[n] =>
      /\ cursors[n][p] <= exchangeCursor[p]
      /\ \A x \in Ring(p) : Wants(n, x) => x.cursor > cursors[n][p]

\* The same for the cursor that came with a page, but for what is on the page.
FlightOf(n) ==
  Pushing(n) /\ Peer(n) \notin outdated[n] =>
    /\ sync[n].next <= exchangeCursor[Peer(n)]
    /\ \A x \in Ring(Peer(n)) :
         Wants(n, x) => x.cursor > sync[n].next \/ OnTheWay(x) \in sync[n].entries
FlightInv == \A n \in Nodes : FlightOf(n)

\* The parts of TypeOK that a step of a relay, and one of a worker, may disturb.
StoresTyped ==
  /\ messages \in [Nodes -> [Rooms -> Seq(Messages)]]
  /\ records \in [Nodes -> Seq(Records)]
  /\ exchangeCursor \in [Nodes -> Nat]
  /\ known \in [Nodes -> SUBSET Ids] /\ lossless \in BOOLEAN
  /\ \A n \in Nodes : /\ Len(records[n]) <= MaxRecords
                      /\ \A r \in Rooms : Len(messages[n][r]) <= MaxMessages
SyncStates(n) == [phase : {"pull", "reply", "push"}, peer : DOMAIN Peers[n],
                  entries : SUBSET Records, next : Nat]
SyncTyped ==
  /\ DOMAIN sync = Nodes
  /\ \A n \in Nodes : sync[n] \in SyncStates(n) /\ Cardinality(sync[n].entries) <= Limit

ExchangeInv == TypeOK /\ RingInv /\ KnownInv /\ PageInv /\ CursorInv /\ FlightInv
-----------------------------------------------------------------------------
(* Lists and sets *)

\* A non-empty set of numbers with a bound has its maximum.
LEMMA MaxOfBounded ==
  ASSUME NEW N \in Nat, NEW S \in SUBSET (0..N), S # {}
  PROVE  Max(S) \in S /\ \A n \in S : n <= Max(S)
<1> DEFINE below == {N - n : n \in S}
<1>1. below \in SUBSET Nat /\ below # {}
  <2>1. \A n \in S : n \in 0..N /\ N - n \in Nat
    OBVIOUS
  <2>2. \A b \in below : b \in Nat
    BY <2>1
  <2>3. PICK n \in S : TRUE
    OBVIOUS
  <2>4. N - n \in below
    OBVIOUS
  <2> QED
    BY <2>2, <2>4
<1>2. \E b \in below : \A d \in below : ~(d < b)
  <2>1. \E b \in below : \A d \in below : ~(<<d, b>> \in OpToRel(<, Nat))
    <3> HIDE DEF below
    <3> QED
      BY <1>1, WFMin, NatLessThanWellFounded
  <2> QED
    BY <1>1, <2>1 DEF OpToRel
<1>3. \E m \in S : \A n \in S : m >= n
  BY <1>2
<1>4. Max(S) \in S /\ \A n \in S : Max(S) >= n
  BY <1>3 DEF Max
<1> QED
  BY <1>4

\* A non-empty set of records has one with the least cursor.
LEMMA LeastCursor ==
  ASSUME NEW S \in SUBSET Records, S # {}
  PROVE  \E e \in S : \A f \in S : e.cursor <= f.cursor
<1> DEFINE C == {e.cursor : e \in S}
<1>1. \A e \in S : e.cursor \in Nat
  BY DEF Records
<1>2. C \in SUBSET Nat /\ C # {}
  <2>1. \A c \in C : c \in Nat
    BY <1>1
  <2>2. PICK e \in S : TRUE
    OBVIOUS
  <2>3. e.cursor \in C
    OBVIOUS
  <2> QED
    BY <2>1, <2>3
<1>3. \E c \in C : \A d \in C : ~(<<d, c>> \in OpToRel(<, Nat))
  <2> HIDE DEF C
  <2> QED
    BY <1>2, WFMin, NatLessThanWellFounded
<1>4. \E c \in C : \A d \in C : ~(d < c)
  BY <1>2, <1>3 DEF OpToRel
<1>5. \E e \in S : \A f \in S : ~(f.cursor < e.cursor)
  BY <1>4
<1> QED
  BY <1>1, <1>5

\* The elements of a list are those of its places.
LEMMA ListFacts ==
  ASSUME NEW S, NEW list \in Seq(S)
  PROVE  /\ DOMAIN list = 1..Len(list) /\ Len(list) \in Nat
         /\ ToSet(list) \subseteq S /\ IsFiniteSet(ToSet(list))
<1>1. DOMAIN list = 1..Len(list) /\ Len(list) \in Nat
  BY LenProperties
<1>2. \A i \in 1..Len(list) : list[i] \in S
  BY ElementOfSeq
<1>3. ToSet(list) = {list[i] : i \in 1..Len(list)}
  BY <1>1 DEF ToSet
<1>4. list \in Surjection(1..Len(list), ToSet(list))
  <2>1. list \in [1..Len(list) -> ToSet(list)]
    BY <1>1, <1>3, SeqDef
  <2> QED
    BY <1>3, <2>1 DEF Surjection
<1>5. IsFiniteSet(1..Len(list))
  BY <1>1, FS_Interval
<1>6. IsFiniteSet(ToSet(list))
  BY <1>4, <1>5, FS_Surjection
<1> QED
  BY <1>1, <1>2, <1>3, <1>6

\* What is kept of a list with one more element is of the list or new.
LEMMA NewestOf ==
  ASSUME NEW S, NEW list \in Seq(S), NEW x \in S, NEW max \in Nat \ {0}
  PROVE  /\ Newest(Append(list, x), max) \in Seq(S)
         /\ Len(Newest(Append(list, x), max)) <= max
         /\ \A y \in ToSet(Newest(Append(list, x), max)) : y = x \/ y \in ToSet(list)
<1> DEFINE longer == Append(list, x)
           n == Len(list) + 1
           new == Newest(longer, max)
<1>1. /\ longer \in Seq(S) /\ Len(longer) = n /\ n \in Nat
      /\ Len(list) \in Nat /\ DOMAIN list = 1..Len(list)
      /\ \A i \in 1..Len(list) : longer[i] = list[i]
      /\ longer[n] = x
  BY AppendProperties, LenProperties
<1>2. \A i \in 1..n : longer[i] = x \/ \E j \in DOMAIN list : longer[i] = list[j]
  BY <1>1
<1> HIDE DEF longer, n
<1>3. n > max =>
        /\ new \in Seq(S) /\ Len(new) = max
        /\ \A i \in 1..max : \E h \in 1..n : new[i] = longer[h]
  <2> SUFFICES ASSUME n > max
               PROVE  /\ new \in Seq(S) /\ Len(new) = max
                      /\ \A i \in 1..max : \E h \in 1..n : new[i] = longer[h]
    OBVIOUS
  <2> DEFINE first == n - max + 1
  <2>1. first \in 1..n /\ n - first + 1 = max /\ first \in Int /\ first <= n
    BY ONLY <1>1, n > max, max \in Nat \ {0}
  <2>2. new = SubSeq(longer, first, n)
    BY <1>1 DEF Newest
  <2>3. \A i \in first..n : i \in 1..n
    BY ONLY <1>1, <2>1
  <2> HIDE DEF first, new
  <2>4. \A i \in first..n : longer[i] \in S
    BY <1>1, <2>3, ElementOfSeq
  <2>5. /\ new \in Seq(S) /\ Len(new) = IF first <= n THEN n - first + 1 ELSE 0
        /\ \A i \in 1..(n - first + 1) : new[i] = longer[first + i - 1]
    BY <1>1, <2>1, <2>2, <2>4, SubSeqProperties
  <2>6. \A i \in 1..max : first + i - 1 \in 1..n
    BY ONLY <1>1, <2>1, max \in Nat \ {0}
  <2>7. Len(new) = max
    BY ONLY <2>1, <2>5
  <2>8. \A i \in 1..max : new[i] = longer[first + i - 1]
    BY ONLY <2>1, <2>5
  <2> QED
    BY <2>5, <2>6, <2>7, <2>8
<1>4. ~(n > max) => new = longer
  BY <1>1 DEF Newest
<1> HIDE DEF new
<1>5. new \in Seq(S) /\ Len(new) <= max /\ DOMAIN new = 1..Len(new)
  BY <1>1, <1>3, <1>4, LenProperties
<1>6. \A i \in 1..Len(new) : \E h \in 1..n : new[i] = longer[h]
  BY <1>1, <1>3, <1>4
<1>7. \A y \in ToSet(new) : y = x \/ y \in ToSet(list)
  BY <1>2, <1>5, <1>6 DEF ToSet
<1> QED
  BY <1>5, <1>7 DEF new, longer

-----------------------------------------------------------------------------
(* Peers and pages *)

LEMMA PeersFacts ==
  ASSUME NEW n \in Nodes
  PROVE  /\ DOMAIN Peers[n] = 1..Len(Peers[n]) /\ Len(Peers[n]) \in Nat \ {0}
         /\ PeersOf(n) \subseteq Nodes \ {n}
         /\ \A i \in DOMAIN Peers[n] : Peers[n][i] \in PeersOf(n)
<1>1. Peers[n] \in Seq(Nodes) /\ Peers[n] # << >> /\ n \notin ToSet(Peers[n])
  BY ExchangeAssumption DEF ExchangeAssumption
<1>2. /\ DOMAIN Peers[n] = 1..Len(Peers[n]) /\ Len(Peers[n]) \in Nat
      /\ ToSet(Peers[n]) \subseteq Nodes
  BY <1>1, ListFacts
<1>3. Len(Peers[n]) # 0
  BY <1>1, EmptySeq
<1>4. \A i \in DOMAIN Peers[n] : Peers[n][i] \in ToSet(Peers[n])
  BY DEF ToSet
<1> QED
  BY <1>1, <1>2, <1>3, <1>4 DEF PeersOf

LEMMA SyncFacts ==
  ASSUME TypeOK, NEW n \in Nodes
  PROVE  /\ Peer(n) \in PeersOf(n) /\ Peer(n) \in Nodes /\ Peer(n) # n
         /\ sync[n].entries \subseteq Records /\ sync[n].next \in Nat
         /\ cursors[n][Peer(n)] \in Nat /\ exchangeCursor[n] \in Nat
         /\ records[n] \in Seq(Records)
<1>1. sync[n] \in [phase : {"pull", "reply", "push"}, peer : DOMAIN Peers[n],
                   entries : SUBSET Records, next : Nat]
  BY DEF TypeOK
<1>2. Peer(n) \in PeersOf(n) /\ Peer(n) \in Nodes /\ Peer(n) # n
  BY <1>1, PeersFacts DEF Peer
<1> QED
  BY <1>1, <1>2 DEF TypeOK

LEMMA RingFacts ==
  ASSUME TypeOK, NEW n \in Nodes
  PROVE  /\ Ring(n) \subseteq Records /\ IsFiniteSet(Ring(n)) /\ exchangeCursor[n] \in Nat
         /\ \A x \in Ring(n) : x.cursor \in Nat /\ x.hop \in Nat /\ x.max \in Nat
<1>1. Ring(n) \subseteq Records /\ IsFiniteSet(Ring(n)) /\ exchangeCursor[n] \in Nat
  BY SyncFacts, ListFacts DEF Ring
<1>2. \A x \in Records : x.cursor \in Nat /\ x.hop \in Nat /\ x.max \in Nat
  BY DEF Records
<1> QED
  BY <1>1, <1>2

\* The ring of p up to where a page is full.
LEMMA PageFacts ==
  ASSUME TypeOK, RingInv, NEW n \in Nodes, NEW p \in Nodes, NEW after \in Nat
  PROVE  /\ NextCursor(p, n, after) \in Nat
         /\ after <= exchangeCursor[p] => NextCursor(p, n, after) <= exchangeCursor[p]
         /\ \A x \in Ring(p) :
              \/ x.cursor <= after \/ x.cursor > NextCursor(p, n, after)
              \/ x.origin = n \/ ~(x.hop < x.max) \/ x \in Page(p, n, after)
         /\ IsFiniteSet(Page(p, n, after)) /\ Cardinality(Page(p, n, after)) <= Limit
         /\ Page(p, n, after) \subseteq Ring(p) /\ Ring(p) \subseteq Records
         /\ \A x \in Page(p, n, after) :
              after < x.cursor /\ x.cursor <= NextCursor(p, n, after)
<1> DEFINE R == Ring(p)
           S == Sendable(p, n, after)
           Before(x) == {y \in S : y.cursor < x.cursor}
           C == {after} \cup {x.cursor : x \in Reached(p, n, after)}
           top == IF after <= exchangeCursor[p] THEN exchangeCursor[p] ELSE after
<1>1. R \subseteq Records /\ IsFiniteSet(R) /\ exchangeCursor[p] \in Nat /\ Limit \in Nat \ {0}
  BY SyncFacts, ListFacts, ExchangeAssumption DEF Ring, ExchangeAssumption
<1>2. \A x \in R : /\ 1 <= x.cursor /\ x.cursor <= exchangeCursor[p] /\ x.cursor \in Nat
                   /\ \A y \in R : x.cursor = y.cursor => x = y
  BY <1>1 DEF RingInv, Records
<1>3. S \subseteq R /\ IsFiniteSet(S)
  BY <1>1, FS_Subset DEF Sendable, Ring
<1>4. Reached(p, n, after) = {x \in R : Cardinality(Before(x)) < Limit}
  BY DEF Reached, Ring
<1>5. \A x \in R : IsFiniteSet(Before(x)) /\ Cardinality(Before(x)) \in Nat
  <2> TAKE x \in R
  <2>1. Before(x) \subseteq S
    OBVIOUS
  <2> HIDE DEF Before, S
  <2> QED
    BY <1>3, <2>1, FS_Subset, FS_CardinalityType
<1>6. Page(p, n, after) = S \cap {x \in R : Cardinality(Before(x)) < Limit}
  BY <1>4 DEF Page
<1>7. C \in SUBSET (0..top) /\ C # {} /\ top \in Nat
  <2>1. \A x \in R : x.cursor \in 0..top
    BY <1>1, <1>2
  <2>2. after \in 0..top /\ top \in Nat
    BY <1>1
  <2>3. \A c \in C : c \in 0..top
    BY <1>4, <2>1, <2>2
  <2> QED
    BY <2>2, <2>3
<1>8. Max(C) \in C /\ \A c \in C : c <= Max(C)
  BY <1>7, MaxOfBounded
<1>9. NextCursor(p, n, after) = Max(C)
  BY DEF NextCursor
<1>10. Max(C) \in Nat /\ Max(C) <= top
  BY <1>7, <1>8
<1>11. ASSUME NEW x \in R
       PROVE  \/ x.cursor <= after \/ x.cursor > Max(C)
              \/ x.origin = n \/ ~(x.hop < x.max) \/ x \in Page(p, n, after)
  <2> SUFFICES ASSUME x.cursor > after, x.cursor <= Max(C), x.origin # n, x.hop < x.max
               PROVE  x \in Page(p, n, after)
    BY <1>2, <1>10
  <2>1. x \in S
    BY DEF Sendable, Ring
  <2>2. Max(C) # after
    BY <1>2, <1>10
  <2>3. PICK z \in R : Cardinality(Before(z)) < Limit /\ z.cursor = Max(C)
    BY <1>4, <1>8, <2>2
  <2>4. Before(x) \subseteq Before(z)
    BY <1>2, <1>3, <2>3
  <2>5. Cardinality(Before(x)) <= Cardinality(Before(z))
    <3> HIDE DEF Before
    <3> QED
      BY <1>5, <2>3, <2>4, FS_Subset
  <2>6. Cardinality(Before(x)) \in Nat /\ Cardinality(Before(z)) \in Nat
    BY <1>5, <2>3
  <2>7. Cardinality(Before(x)) < Limit
    BY ONLY <1>1, <2>3, <2>5, <2>6
  <2> QED
    BY <1>6, <2>1, <2>7
<1>12. IsFiniteSet(Page(p, n, after)) /\ Page(p, n, after) \subseteq R
  <2>1. Page(p, n, after) \subseteq S
    BY <1>6
  <2> HIDE DEF S, R
  <2> QED
    BY <1>3, <2>1, FS_Subset
<1>13. Cardinality(Page(p, n, after)) <= Limit
  <2> DEFINE P == Page(p, n, after)
             D == {x.cursor : x \in P}
  <2>1. CASE P = {}
    BY <1>1, <2>1, FS_EmptySet
  <2>2. CASE P # {}
    <3>1. D \in SUBSET (0..exchangeCursor[p]) /\ D # {}
      <4>1. \A d \in D : d \in 0..exchangeCursor[p]
        BY <1>1, <1>2, <1>12
      <4>2. PICK x \in P : TRUE
        BY <2>2
      <4>3. x.cursor \in D
        OBVIOUS
      <4> QED
        BY <4>1, <4>3
    <3>2. Max(D) \in D /\ \A d \in D : d <= Max(D)
      BY <1>1, <3>1, MaxOfBounded
    <3>3. PICK z \in P : z.cursor = Max(D)
      BY <3>2
    <3>4. \A y \in P : y.cursor <= z.cursor
      BY <3>2, <3>3
    <3>5. z \in R /\ z \in S /\ Cardinality(Before(z)) < Limit
      BY <1>6, <3>3
    <3>6. P \subseteq Before(z) \cup {z}
      <4> SUFFICES ASSUME NEW y \in P, y # z
                   PROVE  y \in Before(z)
        OBVIOUS
      <4>1. y \in R /\ y \in S
        BY <1>6
      <4>2. y.cursor # z.cursor
        BY <1>2, <3>5, <4>1
      <4>3. y.cursor <= z.cursor /\ y.cursor \in Nat /\ z.cursor \in Nat
        BY <1>2, <3>4, <3>5, <4>1
      <4>4. y.cursor < z.cursor
        BY ONLY <4>2, <4>3
      <4> QED
        BY <4>1, <4>4
    <3>7. z \notin Before(z)
      BY <1>2, <3>5
    <3>8. /\ IsFiniteSet(Before(z)) /\ Cardinality(Before(z)) \in Nat
      BY <1>5, <3>5
    <3> HIDE DEF Before, P
    <3>9. /\ IsFiniteSet(Before(z) \cup {z})
          /\ Cardinality(Before(z) \cup {z}) = Cardinality(Before(z)) + 1
      BY <3>7, <3>8, FS_AddElement
    <3>10. Cardinality(P) <= Cardinality(Before(z) \cup {z}) /\ IsFiniteSet(P)
      BY <3>6, <3>9, FS_Subset
    <3>11. Cardinality(P) \in Nat
      BY <3>10, FS_CardinalityType
    <3> HIDE DEF S, R
    <3>12. Cardinality(P) <= Limit
      BY ONLY <1>1, <3>5, <3>8, <3>9, <3>10, <3>11
    <3> QED
      BY <3>12 DEF P
  <2> QED
    BY <2>1, <2>2
<1>14. after <= exchangeCursor[p] => top = exchangeCursor[p]
  OBVIOUS
<1>15. ASSUME NEW x \in Page(p, n, after) PROVE after < x.cursor /\ x.cursor <= Max(C)
  <2>1. x \in R /\ x.cursor > after
    BY <1>12 DEF Page, Sendable
  <2>2. x.cursor \in C
    BY DEF Page
  <2> QED
    BY <1>2, <1>8, <2>1, <2>2
<1> HIDE DEF C, top
<1> QED
  BY <1>1, <1>9, <1>10, <1>11, <1>12, <1>13, <1>14, <1>15

-----------------------------------------------------------------------------
(* A relay accepts a message *)

LEMMA TypeParts ==
  TypeOK <=> /\ StoresTyped /\ SyncTyped /\ published \subseteq Sources
             /\ cursors \in [Nodes -> [Nodes -> Nat]]
             /\ lives \in [Nodes -> Nat] /\ outdated \in [Nodes -> SUBSET Nodes]
BY DEF TypeOK, StoresTyped, SyncTyped, SyncStates

LEMMA TypesJoin ==
  ASSUME StoresTyped', SyncTyped', published' \subseteq Sources,
         cursors' \in [Nodes -> [Nodes -> Nat]],
         lives' \in [Nodes -> Nat], outdated' \in [Nodes -> SUBSET Nodes]
  PROVE  TypeOK'
BY DEF TypeOK, StoresTyped, SyncTyped, SyncStates

LEMMA MessageFacts ==
  /\ \A s \in Sources : s.node \in Nodes /\ s.msg \in Messages
  /\ \A m \in Messages : m.room \in Rooms /\ m.id \in Ids
BY ExchangeAssumption DEF ExchangeAssumption, Messages, Ids

\* Rings are added to at their ends and nothing known is forgotten.
Grows ==
  \A n \in Nodes :
    /\ exchangeCursor'[n] \in Nat /\ exchangeCursor[n] <= exchangeCursor'[n]
    /\ \A x \in Ring(n)' : x.cursor \in Nat /\ (x \in Ring(n) \/ x.cursor > exchangeCursor[n])
    /\ known[n] \subseteq known'[n]

\* publishIntoRoom and recordCacheExchange.
LEMMA AcceptFacts ==
  ASSUME TypeOK, RingInv, KnownInv, NEW n \in Nodes, NEW m \in Messages,
         NEW origin \in Nodes, NEW hop \in Nat, NEW max \in Nat,
         Accept(n, m, origin, hop, max)
  PROVE  StoresTyped' /\ RingInv' /\ KnownInv' /\ Grows /\ m.id \in known'[n]
<1> DEFINE list == Append(messages[n][m.room], m)
           new == [cursor |-> exchangeCursor[n] + 1, msg |-> m, origin |-> origin,
                   hop |-> hop, max |-> max]
           ring == Append(records[n], new)
           kept == Newest(list, MaxMessages)
           ring2 == Newest(ring, MaxRecords)
           fits == lossless /\ Len(list) <= MaxMessages /\ Len(ring) <= MaxRecords
<1>1. /\ messages' = [messages EXCEPT ![n][m.room] = kept]
      /\ records' = [records EXCEPT ![n] = ring2]
      /\ exchangeCursor' = [exchangeCursor EXCEPT ![n] = exchangeCursor[n] + 1]
      /\ known' = [known EXCEPT ![n] = known[n] \cup {m.id}]
      /\ lossless' = fits
  BY DEF Accept
<1>2. m.room \in Rooms /\ m.id \in Ids /\ MaxRecords \in Nat \ {0} /\ MaxMessages \in Nat \ {0}
  BY MessageFacts, ExchangeAssumption DEF ExchangeAssumption
<1>3. StoresTyped
  BY TypeParts
<1>4. /\ messages[n][m.room] \in Seq(Messages) /\ records[n] \in Seq(Records)
      /\ exchangeCursor[n] \in Nat
  BY <1>2, <1>3 DEF StoresTyped
<1>5. new \in Records /\ new.cursor = exchangeCursor[n] + 1
  BY <1>4 DEF Records
<1>6. fits \in BOOLEAN
  BY <1>3 DEF StoresTyped
<1> HIDE DEF new, fits
<1>7. /\ kept \in Seq(Messages) /\ Len(kept) <= MaxMessages
      /\ \A x \in ToSet(kept) : x = m \/ x \in ToSet(messages[n][m.room])
  BY <1>2, <1>4, NewestOf
<1>8. /\ ring2 \in Seq(Records) /\ Len(ring2) <= MaxRecords
      /\ \A x \in ToSet(ring2) : x = new \/ x \in Ring(n)
  BY <1>2, <1>4, <1>5, NewestOf DEF Ring
<1> HIDE DEF kept, ring2
<1>9. /\ \A q \in Nodes \ {n} : /\ messages'[q] = messages[q] /\ records'[q] = records[q]
                                /\ exchangeCursor'[q] = exchangeCursor[q]
                                /\ known'[q] = known[q]
      /\ \A r \in Rooms \ {m.room} : messages'[n][r] = messages[n][r]
      /\ messages'[n][m.room] = kept /\ records'[n] = ring2
      /\ exchangeCursor'[n] = exchangeCursor[n] + 1 /\ known'[n] = known[n] \cup {m.id}
  BY <1>1, <1>2, <1>3 DEF StoresTyped
<1>10. StoresTyped'
  <2>1. messages' \in [Nodes -> [Rooms -> Seq(Messages)]]
    BY <1>1, <1>2, <1>3, <1>7 DEF StoresTyped
  <2>2. records' \in [Nodes -> Seq(Records)]
    BY <1>1, <1>3, <1>8 DEF StoresTyped
  <2>3. exchangeCursor' \in [Nodes -> Nat]
    BY <1>1, <1>3, <1>4 DEF StoresTyped
  <2>4. known' \in [Nodes -> SUBSET Ids]
    BY <1>1, <1>2, <1>3 DEF StoresTyped
  <2>5. lossless' \in BOOLEAN
    BY <1>1, <1>6
  <2>6. ASSUME NEW q \in Nodes
        PROVE  /\ Len(records'[q]) <= MaxRecords
               /\ \A r \in Rooms : Len(messages'[q][r]) <= MaxMessages
    BY <1>3, <1>7, <1>8, <1>9 DEF StoresTyped
  <2> QED
    BY <2>1, <2>2, <2>3, <2>4, <2>5, <2>6 DEF StoresTyped
<1>11. \A q \in Nodes \ {n} : Ring(q)' = Ring(q)
  BY <1>9 DEF Ring
<1>12. \A x \in Ring(n)' : x \in Ring(n) \/ x = new
  <2>1. Ring(n)' = ToSet(ring2)
    BY <1>9 DEF Ring
  <2> QED
    BY <1>8, <2>1
<1>13. \A q \in Nodes : \A x \in Ring(q) : x.cursor \in Nat /\ exchangeCursor[q] \in Nat
  BY RingFacts
<1>14. RingInv'
  <2> SUFFICES ASSUME NEW q \in Nodes, NEW x \in Ring(q)'
               PROVE  /\ 1 <= x.cursor /\ x.cursor <= exchangeCursor'[q]
                      /\ \A y \in Ring(q)' : x.cursor = y.cursor => x = y
    BY DEF RingInv
  <2>1. CASE q # n
    BY <1>9, <1>11, <2>1 DEF RingInv
  <2>2. CASE q = n
    <3>1. \A y \in Ring(n) : 1 <= y.cursor /\ y.cursor <= exchangeCursor[n] /\ y.cursor \in Nat
      BY <1>13 DEF RingInv
    <3>2. \A y \in Ring(n) : y.cursor # new.cursor /\ y.cursor <= exchangeCursor[n] + 1
      BY <1>4, <1>5, <3>1
    <3>3. 1 <= x.cursor /\ x.cursor <= exchangeCursor'[n]
      BY <1>4, <1>5, <1>9, <1>12, <2>2, <3>1, <3>2
    <3>4. \A y \in Ring(n)' : x.cursor = y.cursor => x = y
      BY <1>12, <2>2, <3>2 DEF RingInv
    <3> QED
      BY <2>2, <3>3, <3>4
  <2> QED
    BY <2>1, <2>2
<1>15. KnownInv'
  <2> SUFFICES ASSUME NEW q \in Nodes, NEW r \in Rooms, NEW i \in DOMAIN messages'[q][r]
               PROVE  messages'[q][r][i].id \in known'[q]
    BY DEF KnownInv, HeldIds
  <2>1. \A j \in DOMAIN messages[q][r] : messages[q][r][j].id \in known[q]
    BY DEF KnownInv, HeldIds
  <2>2. CASE q # n \/ r # m.room
    BY <1>9, <2>1, <2>2
  <2>3. CASE q = n /\ r = m.room
    <3>1. \A x \in ToSet(kept) : x.id \in known[n] \cup {m.id}
      BY <1>7, <2>1, <2>3 DEF ToSet
    <3>2. messages'[q][r][i] \in ToSet(kept)
      BY <1>9, <2>3 DEF ToSet
    <3> QED
      BY <1>9, <2>3, <3>1, <3>2
  <2> QED
    BY <2>2, <2>3
<1>16. Grows
  <2> SUFFICES ASSUME NEW q \in Nodes
               PROVE  /\ exchangeCursor'[q] \in Nat /\ exchangeCursor[q] <= exchangeCursor'[q]
                      /\ \A x \in Ring(q)' :
                           x.cursor \in Nat /\ (x \in Ring(q) \/ x.cursor > exchangeCursor[q])
                      /\ known[q] \subseteq known'[q]
    BY DEF Grows
  <2>1. exchangeCursor[q] \in Nat /\ exchangeCursor'[q] \in Nat
    BY <1>10, RingFacts DEF StoresTyped
  <2>2. exchangeCursor[q] <= exchangeCursor'[q]
    BY <1>9, <2>1
  <2>3. \A x \in Ring(q)' :
          x.cursor \in Nat /\ (x \in Ring(q) \/ x.cursor > exchangeCursor[q])
    <3>1. CASE q # n
      BY <1>11, <1>13, <3>1
    <3>2. CASE q = n
      <4>1. new.cursor \in Nat /\ new.cursor > exchangeCursor[n]
        BY <1>4, <1>5
      <4> QED
        BY <1>12, <1>13, <3>2, <4>1
    <3> QED
      BY <3>1, <3>2
  <2>4. known[q] \subseteq known'[q]
    BY <1>9
  <2> QED
    BY <2>1, <2>2, <2>3, <2>4
<1> QED
  BY <1>9, <1>10, <1>14, <1>15, <1>16

-----------------------------------------------------------------------------
(* The worker's bookkeeping *)

\* A step that only adds to the rings leaves what the cursors say.
LEMMA CursorsStay ==
  ASSUME TypeOK, CursorInv, Grows, UNCHANGED <<cursors, outdated>>
  PROVE  CursorInv'
<1> SUFFICES ASSUME NEW n \in Nodes, NEW p \in PeersOf(n), p \notin outdated[n]
             PROVE  /\ cursors[n][p] <= exchangeCursor'[p]
                    /\ \A x \in Ring(p)' : Wants(n, x)' => x.cursor > cursors[n][p]
  BY DEF CursorInv
<1>1. p \in Nodes
  BY PeersFacts
<1>2. /\ cursors[n][p] <= exchangeCursor[p]
      /\ \A x \in Ring(p) : Wants(n, x) => x.cursor > cursors[n][p]
  BY DEF CursorInv
<1>3. /\ exchangeCursor'[p] \in Nat /\ exchangeCursor[p] <= exchangeCursor'[p]
      /\ \A x \in Ring(p)' : x.cursor \in Nat /\ (x \in Ring(p) \/ x.cursor > exchangeCursor[p])
      /\ known[n] \subseteq known'[n]
  BY <1>1 DEF Grows
<1>4. cursors[n][p] \in Nat /\ exchangeCursor[p] \in Nat
  BY <1>1 DEF TypeOK
<1>5. cursors[n][p] <= exchangeCursor'[p]
  BY ONLY <1>2, <1>3, <1>4
<1>6. ASSUME NEW x \in Ring(p)', Wants(n, x)'
      PROVE  x.cursor > cursors[n][p]
  <2>1. Wants(n, x)
    BY <1>3, <1>6 DEF Wants
  <2>2. x.cursor \in Nat /\ (x.cursor > cursors[n][p] \/ x.cursor > exchangeCursor[p])
    BY <1>2, <1>3, <1>6, <2>1
  <2> QED
    BY ONLY <1>2, <1>4, <2>2
<1> QED
  BY <1>5, <1>6

LEMMA FlightStays ==
  ASSUME TypeOK, NEW n \in Nodes, FlightOf(n), Grows,
         sync'[n] = sync[n], outdated'[n] = outdated[n]
  PROVE  FlightOf(n)'
<1> SUFFICES ASSUME Pushing(n), Peer(n) \notin outdated[n]
             PROVE  /\ sync[n].next <= exchangeCursor'[Peer(n)]
                    /\ \A x \in ToSet(records'[Peer(n)]) :
                         Wants(n, x)' => x.cursor > sync[n].next \/ OnTheWay(x) \in sync[n].entries
  BY DEF FlightOf, Pushing, Peer, Ring
<1> PICK p \in Nodes : p = Peer(n)
  BY SyncFacts
<1> PICK next \in Nat : next = sync[n].next
  BY SyncFacts
<1>2. /\ next <= exchangeCursor[p]
      /\ \A x \in Ring(p) : Wants(n, x) => x.cursor > next \/ OnTheWay(x) \in sync[n].entries
  BY DEF FlightOf
<1>3. /\ exchangeCursor'[p] \in Nat /\ exchangeCursor[p] <= exchangeCursor'[p]
      /\ \A x \in Ring(p)' : x.cursor \in Nat /\ (x \in Ring(p) \/ x.cursor > exchangeCursor[p])
      /\ known[n] \subseteq known'[n]
  BY DEF Grows
<1>4. exchangeCursor[p] \in Nat
  BY RingFacts
<1>5. next <= exchangeCursor'[p]
  BY ONLY <1>2, <1>3, <1>4, next \in Nat
<1>6. ASSUME NEW x \in Ring(p)', Wants(n, x)'
      PROVE  x.cursor > next \/ OnTheWay(x) \in sync[n].entries
  <2>1. Wants(n, x)
    BY <1>3, <1>6 DEF Wants
  <2>2. CASE x \in Ring(p)
    BY <1>2, <2>1, <2>2
  <2>3. CASE x \notin Ring(p)
    <3>1. x.cursor \in Nat /\ x.cursor > exchangeCursor[p]
      BY <1>3, <1>6, <2>3
    <3>2. x.cursor > next
      BY ONLY <1>2, <1>4, <3>1, next \in Nat
    <3> QED
      BY <3>2
  <2> QED
    BY <2>2, <2>3
<1> QED
  BY <1>5, <1>6 DEF Ring

\* A step of the worker of n changes what it is doing.
LEMMA SyncChanges ==
  ASSUME SyncTyped, PageInv, NEW n \in Nodes, NEW to \in SyncStates(n),
         IsFiniteSet(to.entries), Cardinality(to.entries) <= Limit,
         \A e, f \in to.entries : e.cursor = f.cursor => e = f,
         sync' = [sync EXCEPT ![n] = to]
  PROVE  /\ SyncTyped' /\ PageInv' /\ sync'[n] = to
         /\ \A q \in Nodes \ {n} : sync'[q] = sync[q]
<1>1. DOMAIN sync' = Nodes /\ sync'[n] = to /\ \A q \in Nodes \ {n} : sync'[q] = sync[q]
  BY DEF SyncTyped
<1>2. SyncTyped'
  <2>1. \A q \in Nodes : sync'[q] \in SyncStates(q) /\ Cardinality(sync'[q].entries) <= Limit
    <3> HIDE DEF SyncStates
    <3> QED
      BY <1>1 DEF SyncTyped
  <2> QED
    BY <1>1, <2>1 DEF SyncTyped, SyncStates
<1>3. PageInv'
  BY <1>1 DEF PageInv
<1> QED
  BY <1>1, <1>2, <1>3

LEMMA PullingFacts ==
  ASSUME NEW n \in Nodes, NEW i \in DOMAIN Peers[n]
  PROVE  /\ Pulling(i) \in SyncStates(n) /\ Pulling(i).entries = {}
         /\ Pulling(i).phase = "pull" /\ IsFiniteSet({}) /\ Cardinality({}) <= Limit
<1>1. IsFiniteSet({}) /\ Cardinality({}) = 0 /\ Limit \in Nat
  BY FS_EmptySet, ExchangeAssumption DEF ExchangeAssumption
<1>2. /\ Pulling(i) \in SyncStates(n) /\ Pulling(i).entries = {}
      /\ Pulling(i).phase = "pull"
  BY DEF Pulling, SyncStates
<1> QED
  BY <1>1, <1>2

\* The worker goes on to a peer: nothing is in flight any more.
LEMMA GoesOn ==
  ASSUME SyncTyped, PageInv, NEW n \in Nodes, NEW i \in DOMAIN Peers[n],
         sync' = [sync EXCEPT ![n] = Pulling(i)]
  PROVE  /\ SyncTyped' /\ PageInv' /\ FlightOf(n)'
         /\ \A q \in Nodes \ {n} : sync'[q] = sync[q]
<1>1. /\ SyncTyped' /\ PageInv' /\ sync'[n] = Pulling(i)
      /\ \A q \in Nodes \ {n} : sync'[q] = sync[q]
  <2> DEFINE to == Pulling(i)
  <2>1. /\ to \in SyncStates(n) /\ IsFiniteSet(to.entries) /\ Cardinality(to.entries) <= Limit
        /\ \A e, f \in to.entries : e.cursor = f.cursor => e = f
    BY PullingFacts
  <2> HIDE DEF to
  <2>2. sync' = [sync EXCEPT ![n] = to]
    BY DEF to
  <2>3. /\ SyncTyped' /\ PageInv' /\ sync'[n] = to
        /\ \A q \in Nodes \ {n} : sync'[q] = sync[q]
    BY <2>1, <2>2, SyncChanges
  <2> QED
    BY <2>3 DEF to
<1>2. ~Pushing(n)'
  BY <1>1, PullingFacts DEF Pushing
<1> QED
  BY <1>1, <1>2 DEF FlightOf

LEMMA MovesOn ==
  ASSUME TypeOK, PageInv, NEW n \in Nodes, sync' = MovedOn(n)
  PROVE  /\ SyncTyped' /\ PageInv' /\ FlightOf(n)'
         /\ \A q \in Nodes \ {n} : sync'[q] = sync[q]
<1>1. SyncTyped
  BY TypeParts
<1>2. sync[n].peer \in DOMAIN Peers[n]
  BY <1>1 DEF SyncTyped, SyncStates
<1> PICK i \in DOMAIN Peers[n] : i = (sync[n].peer % Len(Peers[n])) + 1
  <2>1. \A k \in Int, l \in Nat \ {0} : (k % l) + 1 \in 1..l
    OBVIOUS
  <2>2. sync[n].peer \in Int
    BY <1>2, PeersFacts
  <2> QED
    BY <2>1, <2>2, PeersFacts
<1>3. sync' = [sync EXCEPT ![n] = Pulling(i)]
  BY DEF MovedOn
<1> QED
  BY <1>1, <1>3, GoesOn

LEMMA StoresStay ==
  ASSUME TypeOK, RingInv, KnownInv, UNCHANGED nodeVars
  PROVE  StoresTyped' /\ RingInv' /\ KnownInv' /\ Grows
<1>1. UNCHANGED <<messages, records, exchangeCursor, known, lossless>>
  BY DEF nodeVars
<1>2. StoresTyped'
  BY <1>1, TypeParts DEF StoresTyped
<1>3. \A q \in Nodes : Ring(q)' = Ring(q)
  BY <1>1 DEF Ring
<1>4. RingInv'
  BY <1>1, <1>3 DEF RingInv
<1>5. KnownInv'
  BY <1>1 DEF KnownInv, HeldIds
<1>6. Grows
  BY <1>1, <1>3, RingFacts DEF Grows
<1> QED
  BY <1>2, <1>4, <1>5, <1>6

-----------------------------------------------------------------------------
(* The actions *)

LEMMA PublishKeeps ==
  ASSUME ExchangeInv, NEW s \in Sources, Publish(s)
  PROVE  ExchangeInv'
<1>1. TypeOK /\ RingInv /\ KnownInv /\ PageInv /\ CursorInv /\ FlightInv
  BY DEF ExchangeInv
<1>2. published' = published \cup {s} /\ UNCHANGED <<cursors, sync, outdated, lives>>
  BY DEF Publish, workerVars
<1>3. StoresTyped' /\ RingInv' /\ KnownInv' /\ Grows
  <2>1. CASE UNCHANGED nodeVars
    BY <1>1, <2>1, StoresStay
  <2>2. CASE Accept(s.node, s.msg, s.node, 0, MaxHops[s.node])
    <3>1. s.node \in Nodes /\ s.msg \in Messages /\ MaxHops[s.node] \in Nat
      BY MessageFacts, ExchangeAssumption DEF ExchangeAssumption
    <3> QED
      BY <1>1, <2>2, <3>1, AcceptFacts
  <2> QED
    BY <2>1, <2>2 DEF Publish
<1>4. TypeOK'
  BY <1>1, <1>2, <1>3, TypeParts DEF TypeOK, StoresTyped
<1>5. PageInv'
  BY <1>1, <1>2 DEF PageInv
<1>6. CursorInv'
  BY <1>1, <1>2, <1>3, CursorsStay
<1>7. FlightInv'
  BY <1>1, <1>2, <1>3, FlightStays DEF FlightInv
<1> QED
  BY <1>3, <1>4, <1>5, <1>6, <1>7 DEF ExchangeInv

\* What the ring of the peer has up to next is known, or not wanted, or comes
\* with the page.
LEMMA PullKeeps ==
  ASSUME ExchangeInv, NEW n \in Nodes, Pull(n)
  PROVE  ExchangeInv'
<1>1. TypeOK /\ RingInv /\ KnownInv /\ PageInv /\ CursorInv /\ FlightInv
  BY DEF ExchangeInv
<1> PICK p \in PeersOf(n) : p = Peer(n)
  BY <1>1, SyncFacts
<1>2. p \in Nodes
  BY PeersFacts
<1> PICK after \in Nat : after = cursors[n][p]
  BY <1>1, SyncFacts
<1> DEFINE page == Page(p, n, after)
           entries == {OnTheWay(x) : x \in page}
           next == NextCursor(p, n, after)
           to == [sync[n] EXCEPT !.phase = "reply", !.next = next, !.entries = entries]
<1>3. sync' = [sync EXCEPT ![n] = to] /\ UNCHANGED <<published, nodeVars, cursors, outdated, lives>>
  BY DEF Pull
<1>4. /\ next \in Nat
      /\ after <= exchangeCursor[p] => next <= exchangeCursor[p]
      /\ \A x \in Ring(p) : \/ x.cursor <= after \/ x.cursor > next
                            \/ x.origin = n \/ ~(x.hop < x.max) \/ x \in page
      /\ IsFiniteSet(page) /\ Cardinality(page) <= Limit
      /\ page \subseteq Ring(p) /\ Ring(p) \subseteq Records
  BY <1>1, <1>2, PageFacts
<1> HIDE DEF page, next
<1>5. \A x \in Records : /\ OnTheWay(x) \in Records /\ OnTheWay(x).cursor = x.cursor
                         /\ x.cursor \in Nat /\ x.hop \in Nat /\ x.max \in Nat
  BY DEF Records, OnTheWay
<1>6. /\ entries \subseteq Records /\ IsFiniteSet(entries) /\ Cardinality(entries) <= Limit
      /\ \A e, f \in entries : e.cursor = f.cursor => e = f
  <2>1. entries \subseteq Records
    BY <1>4, <1>5
  <2>2. \A e, f \in entries : e.cursor = f.cursor => e = f
    <3> SUFFICES ASSUME NEW x \in page, NEW y \in page,
                        OnTheWay(x).cursor = OnTheWay(y).cursor
                 PROVE  x = y
      OBVIOUS
    <3>1. x.cursor = y.cursor /\ x \in Ring(p) /\ y \in Ring(p)
      BY <1>4, <1>5
    <3> QED
      BY <1>1, <1>2, <3>1 DEF RingInv
  <2>3. IsFiniteSet(entries) /\ Cardinality(entries) <= Cardinality(page)
    <3> DEFINE f == [x \in page |-> OnTheWay(x)]
    <3>1. f \in Surjection(page, entries)
      BY DEF Surjection
    <3> HIDE DEF f, entries
    <3> QED
      BY <1>4, <3>1, FS_Surjection
  <2>4. Cardinality(entries) \in Nat /\ Cardinality(page) \in Nat /\ Limit \in Nat
    BY <1>4, <2>3, FS_CardinalityType, ExchangeAssumption DEF ExchangeAssumption
  <2> HIDE DEF entries
  <2>5. Cardinality(entries) <= Limit
    BY ONLY <1>4, <2>3, <2>4
  <2> QED
    BY <2>1, <2>2, <2>3, <2>5
<1> HIDE DEF entries
<1>7. SyncTyped
  BY <1>1, TypeParts
<1>8. to \in SyncStates(n) /\ to.entries = entries /\ to.next = next /\ to.peer = sync[n].peer
  BY <1>4, <1>6, <1>7 DEF SyncTyped, SyncStates
<1> HIDE DEF to
<1>9. /\ SyncTyped' /\ PageInv' /\ sync'[n] = to
      /\ \A q \in Nodes \ {n} : sync'[q] = sync[q]
  BY <1>1, <1>3, <1>6, <1>7, <1>8, SyncChanges
<1>10. StoresTyped' /\ RingInv' /\ KnownInv' /\ Grows
  BY <1>1, <1>3, StoresStay
<1>11. TypeOK'
  BY <1>1, <1>3, <1>9, <1>10, TypeParts, TypesJoin
<1>12. CursorInv'
  BY <1>1, <1>3, <1>10, CursorsStay
<1>13. FlightOf(n)'
  <2>1. /\ sync'[n].next = next /\ sync'[n].entries = entries /\ Peer(n)' = p
        /\ Ring(p)' = Ring(p)
    BY <1>3, <1>8, <1>9 DEF Peer, Ring, nodeVars
  <2>2. \A x \in Ring(p) : Wants(n, x)' <=> Wants(n, x)
    BY <1>3 DEF Wants, nodeVars
  <2> SUFFICES ASSUME p \notin outdated[n]
               PROVE  /\ next <= exchangeCursor[p]
                      /\ \A x \in Ring(p) : Wants(n, x) => x.cursor > next \/ OnTheWay(x) \in entries
    BY <1>3, <2>1, <2>2 DEF FlightOf, nodeVars
  <2>3. /\ after <= exchangeCursor[p]
        /\ \A x \in Ring(p) : Wants(n, x) => x.cursor > after
    BY <1>1 DEF CursorInv
  <2>4. ASSUME NEW x \in Ring(p), Wants(n, x)
        PROVE  x.cursor > next \/ OnTheWay(x) \in entries
    <3>1. x.cursor > after /\ x.origin # n /\ x.hop + 1 < x.max
      BY <2>3, <2>4 DEF Wants
    <3>2. x.cursor \in Nat /\ x.hop \in Nat /\ x.max \in Nat
      BY <1>4, <1>5
    <3>3. ~(x.cursor <= after) /\ x.hop < x.max
      BY ONLY <3>1, <3>2, after \in Nat
    <3>4. x.cursor > next \/ x \in page
      BY <1>4, <3>1, <3>3
    <3> QED
      BY <3>4 DEF entries
  <2> QED
    BY <1>4, <2>3, <2>4
<1>14. FlightInv'
  <2> SUFFICES ASSUME NEW q \in Nodes \ {n} PROVE FlightOf(q)'
    BY <1>13 DEF FlightInv
  <2>1. FlightOf(q) /\ sync'[q] = sync[q] /\ outdated'[q] = outdated[q]
    BY <1>1, <1>3, <1>9 DEF FlightInv
  <2> QED
    BY <1>1, <1>10, <2>1, FlightStays
<1> QED
  BY <1>9, <1>10, <1>11, <1>12, <1>14 DEF ExchangeInv

LEMMA PullFailsKeeps ==
  ASSUME ExchangeInv, NEW n \in Nodes, PullFails(n) \/ PushForbidden(n)
  PROVE  ExchangeInv'
<1>1. TypeOK /\ RingInv /\ KnownInv /\ PageInv /\ CursorInv /\ FlightInv
  BY DEF ExchangeInv
<1>2. sync' = MovedOn(n) /\ UNCHANGED <<published, nodeVars, cursors, outdated, lives>>
  BY DEF PullFails, PushForbidden
<1>3. /\ SyncTyped' /\ PageInv' /\ FlightOf(n)'
      /\ \A q \in Nodes \ {n} : sync'[q] = sync[q]
  BY <1>1, <1>2, MovesOn
<1>4. StoresTyped' /\ RingInv' /\ KnownInv' /\ Grows
  BY <1>1, <1>2, StoresStay
<1>5. TypeOK'
  BY <1>1, <1>2, <1>3, <1>4, TypeParts, TypesJoin
<1>6. CursorInv'
  BY <1>1, <1>2, <1>4, CursorsStay
<1>7. FlightInv'
  BY <1>1, <1>2, <1>3, <1>4, FlightStays DEF FlightInv
<1> QED
  BY <1>3, <1>4, <1>5, <1>6, <1>7 DEF ExchangeInv

\* The entries before the one that is accepted are known or never wanted.
LEMMA PushEntryKeeps ==
  ASSUME ExchangeInv, NEW n \in Nodes, PushEntry(n)
  PROVE  ExchangeInv'
<1>1. TypeOK /\ RingInv /\ KnownInv /\ PageInv /\ CursorInv /\ FlightInv
  BY DEF ExchangeInv
<1>2. SyncTyped /\ sync[n].entries \subseteq Records /\ Stops(n) \subseteq sync[n].entries
  BY <1>1, TypeParts, SyncFacts DEF Stops
<1> PICK e \in Stops(n) : e = Stop(n) /\ \A f \in Stops(n) : e.cursor <= f.cursor
  BY <1>2, LeastCursor DEF Stop, PushEntry
<1> DEFINE rest == {f \in sync[n].entries : f.cursor > e.cursor}
           to == [sync[n] EXCEPT !.phase = "push", !.entries = rest]
<1>3. /\ Pushing(n) /\ Accept(n, e.msg, e.origin, e.hop, e.max)
      /\ sync' = [sync EXCEPT ![n] = to] /\ UNCHANGED <<published, cursors, outdated, lives>>
  BY DEF PushEntry
<1>4. e \in Records /\ e \in sync[n].entries
  BY <1>2
<1>5. StoresTyped' /\ RingInv' /\ KnownInv' /\ Grows /\ e.msg.id \in known'[n]
  <2>1. e.msg \in Messages /\ e.origin \in Nodes /\ e.hop \in Nat /\ e.max \in Nat
    BY <1>4 DEF Records
  <2> QED
    BY <1>1, <1>3, <2>1, AcceptFacts
<1>6. /\ rest \subseteq Records /\ IsFiniteSet(rest) /\ Cardinality(rest) <= Limit
      /\ \A f, g \in rest : f.cursor = g.cursor => f = g
  <2>1. IsFiniteSet(sync[n].entries) /\ Cardinality(sync[n].entries) <= Limit
    BY <1>1, <1>2 DEF PageInv, SyncTyped
  <2>2. rest \subseteq sync[n].entries
    OBVIOUS
  <2> HIDE DEF rest
  <2>3. IsFiniteSet(rest) /\ Cardinality(rest) <= Cardinality(sync[n].entries)
    BY <2>1, <2>2, FS_Subset
  <2>4. /\ Cardinality(rest) \in Nat /\ Cardinality(sync[n].entries) \in Nat
        /\ Limit \in Nat
    BY <2>1, <2>3, FS_CardinalityType, ExchangeAssumption DEF ExchangeAssumption
  <2>5. Cardinality(rest) <= Limit
    BY ONLY <2>1, <2>3, <2>4
  <2>6. \A f, g \in rest : f.cursor = g.cursor => f = g
    BY <1>1, <2>2 DEF PageInv
  <2> QED
    BY <1>2, <2>2, <2>3, <2>5, <2>6
<1> HIDE DEF rest
<1>7. /\ to \in SyncStates(n) /\ to.entries = rest /\ to.next = sync[n].next
      /\ to.peer = sync[n].peer
  BY <1>2, <1>6 DEF SyncTyped, SyncStates
<1> HIDE DEF to
<1>8. /\ SyncTyped' /\ PageInv' /\ sync'[n] = to
      /\ \A q \in Nodes \ {n} : sync'[q] = sync[q]
  BY <1>1, <1>2, <1>3, <1>6, <1>7, SyncChanges
<1>9. TypeOK'
  BY <1>1, <1>3, <1>5, <1>8, TypeParts, TypesJoin
<1>10. CursorInv'
  BY <1>1, <1>3, <1>5, CursorsStay
<1>11. FlightOf(n)'
  <2> PICK p \in Nodes : p = Peer(n)
    BY <1>1, SyncFacts
  <2> PICK next \in Nat : next = sync[n].next
    BY <1>1, SyncFacts
  <2>1. sync'[n].next = next /\ sync'[n].entries = rest /\ Peer(n)' = p
    BY <1>7, <1>8 DEF Peer
  <2> SUFFICES ASSUME p \notin outdated[n]
               PROVE  /\ next <= exchangeCursor'[p]
                      /\ \A x \in Ring(p)' : Wants(n, x)' => x.cursor > next \/ OnTheWay(x) \in rest
    BY <1>3, <2>1 DEF FlightOf, Ring
  <2>2. /\ next <= exchangeCursor[p]
        /\ \A x \in Ring(p) : Wants(n, x) => x.cursor > next \/ OnTheWay(x) \in sync[n].entries
    BY <1>1, <1>3 DEF FlightInv, FlightOf
  <2>3. /\ exchangeCursor'[p] \in Nat /\ exchangeCursor[p] <= exchangeCursor'[p]
        /\ \A x \in Ring(p)' : x.cursor \in Nat /\ (x \in Ring(p) \/ x.cursor > exchangeCursor[p])
        /\ known[n] \subseteq known'[n]
    BY <1>5 DEF Grows
  <2>4. exchangeCursor[p] \in Nat
    BY <1>1, RingFacts
  <2>5. next <= exchangeCursor'[p]
    BY ONLY <2>2, <2>3, <2>4, next \in Nat
  <2>6. ASSUME NEW x \in Ring(p)', Wants(n, x)'
        PROVE  x.cursor > next \/ OnTheWay(x) \in rest
    <3>1. Wants(n, x)
      BY <2>3, <2>6 DEF Wants
    <3>2. CASE x \in Ring(p) /\ OnTheWay(x) \in sync[n].entries
      <4> DEFINE f == OnTheWay(x)
      <4>1. /\ x \in Records /\ f.cursor = x.cursor /\ f.msg = x.msg /\ f.origin = x.origin
            /\ f.hop = x.hop + 1 /\ f.max = x.max /\ f.cursor \in Nat /\ e.cursor \in Nat
        <5>1. x \in Records
          BY <1>1, <3>2, RingFacts
        <5> QED
          BY <1>4, <5>1 DEF Records, OnTheWay
      <4>2. f.origin # n /\ f.hop < f.max /\ f.msg.id \notin known'[n] /\ f.msg.id \notin known[n]
        BY <2>3, <2>6, <4>1 DEF Wants
      <4> HIDE DEF f
      <4>3. f \in sync[n].entries
        BY <3>2 DEF f
      <4>4. x.msg.room \in Rooms /\ f.msg.room \in Rooms
        BY <4>1, MessageFacts DEF Records
      <4>5. f.msg.id \notin HeldIds(n, f.msg.room)
        BY <1>1, <4>2, <4>4 DEF KnownInv
      <4>6. f \in Stops(n)
        BY <4>2, <4>3, <4>5 DEF Stops, Acceptable
      <4>7. e.cursor <= f.cursor /\ f # e
        BY <1>5, <4>2, <4>6
      <4>8. e.cursor # f.cursor
        BY <1>1, <1>4, <4>3, <4>7 DEF PageInv
      <4>9. f.cursor > e.cursor
        BY ONLY <4>1, <4>7, <4>8
      <4>10. f \in rest
        BY <4>3, <4>9 DEF rest
      <4> QED
        BY <4>10 DEF f
    <3>3. CASE x \notin Ring(p)
      <4>1. x.cursor \in Nat /\ x.cursor > exchangeCursor[p]
        BY <2>3, <2>6, <3>3
      <4>2. x.cursor > next
        BY ONLY <2>2, <2>4, <4>1, next \in Nat
      <4> QED
        BY <4>2
    <3> QED
      BY <2>2, <3>1, <3>2, <3>3
  <2> QED
    BY <2>5, <2>6
<1>12. FlightInv'
  <2> SUFFICES ASSUME NEW q \in Nodes \ {n} PROVE FlightOf(q)'
    BY <1>11 DEF FlightInv
  <2>1. FlightOf(q) /\ sync'[q] = sync[q] /\ outdated'[q] = outdated[q]
    BY <1>1, <1>3, <1>8 DEF FlightInv
  <2> QED
    BY <1>1, <1>5, <2>1, FlightStays
<1> QED
  BY <1>5, <1>8, <1>9, <1>10, <1>12 DEF ExchangeInv

\* Nothing on the page was acceptable: what is behind the cursor is known or
\* never wanted.
LEMMA PushDoneKeeps ==
  ASSUME ExchangeInv, NEW n \in Nodes, PushDone(n)
  PROVE  ExchangeInv'
<1>1. TypeOK /\ RingInv /\ KnownInv /\ PageInv /\ CursorInv /\ FlightInv
  BY DEF ExchangeInv
<1> PICK p \in PeersOf(n) : p = Peer(n)
  BY <1>1, SyncFacts
<1> PICK next \in Nat : next = sync[n].next
  BY <1>1, SyncFacts
<1> PICK before \in Nat : before = cursors[n][p]
  BY <1>1, SyncFacts
<1> PICK after \in Nat : after = Max({before, next})
  <2>1. Max({before, next}) \in {before, next}
    <3>1. \E x \in {before, next} : \A y \in {before, next} : x >= y
      OBVIOUS
    <3> QED
      BY <3>1 DEF Max
  <2> QED
    BY <2>1
<1>2. after \in {before, next} /\ before <= after
  <2>1. \E x \in {before, next} : \A y \in {before, next} : x >= y
    OBVIOUS
  <2>2. after \in {before, next} /\ \A y \in {before, next} : after >= y
    BY <2>1 DEF Max
  <2> QED
    BY <2>2
<1>3. /\ Pushing(n) /\ Stops(n) = {}
      /\ cursors' = [cursors EXCEPT ![n][p] = after]
      /\ sync' = MovedOn(n) /\ UNCHANGED <<published, nodeVars, outdated, lives>>
  BY DEF PushDone
<1>4. p \in Nodes
  BY PeersFacts
<1>5. /\ SyncTyped' /\ PageInv' /\ FlightOf(n)'
      /\ \A q \in Nodes \ {n} : sync'[q] = sync[q]
  BY <1>1, <1>3, MovesOn
<1>6. StoresTyped' /\ RingInv' /\ KnownInv' /\ Grows
  BY <1>1, <1>3, StoresStay
<1>7. cursors \in [Nodes -> [Nodes -> Nat]]
  BY <1>1 DEF TypeOK
<1>8. cursors' \in [Nodes -> [Nodes -> Nat]]
  BY <1>3, <1>4, <1>7
<1>9. TypeOK'
  BY <1>1, <1>3, <1>5, <1>6, <1>8, TypeParts, TypesJoin
<1>10. FlightInv'
  BY <1>1, <1>3, <1>5, <1>6, FlightStays DEF FlightInv
<1>11. CursorInv'
  <2> SUFFICES ASSUME NEW m \in Nodes, NEW q \in PeersOf(m), q \notin outdated[m]
               PROVE  /\ cursors'[m][q] <= exchangeCursor[q]
                      /\ \A x \in Ring(q) : Wants(m, x) => x.cursor > cursors'[m][q]
    BY <1>3 DEF CursorInv, Wants, Ring, nodeVars
  <2>1. /\ cursors[m][q] <= exchangeCursor[q]
        /\ \A x \in Ring(q) : Wants(m, x) => x.cursor > cursors[m][q]
    BY <1>1 DEF CursorInv
  <2>2. q \in Nodes
    BY PeersFacts
  <2>3. CASE m # n \/ q # p
    <3>1. cursors'[m][q] = cursors[m][q]
      BY <1>3, <1>4, <1>7, <2>2, <2>3
    <3> QED
      BY <2>1, <3>1
  <2>4. CASE m = n /\ q = p
    <3>1. cursors'[m][q] = after
      BY <1>3, <1>4, <1>7, <2>4
    <3>2. /\ next <= exchangeCursor[p]
          /\ \A x \in Ring(p) :
               Wants(n, x) => x.cursor > next \/ OnTheWay(x) \in sync[n].entries
      BY <1>1, <1>3, <2>4 DEF FlightInv, FlightOf
    <3>3. ASSUME NEW x \in Ring(p), Wants(n, x)
          PROVE  x.cursor > next
      <4> SUFFICES ASSUME OnTheWay(x) \in sync[n].entries
                   PROVE  FALSE
        BY <3>2, <3>3
      <4> DEFINE f == OnTheWay(x)
      <4>1. /\ x \in Records /\ f.msg = x.msg /\ f.origin = x.origin
            /\ f.hop = x.hop + 1 /\ f.max = x.max
        <5>1. x \in Records
          BY <1>1, <1>4, RingFacts
        <5> QED
          BY <5>1 DEF Records, OnTheWay
      <4>2. f.origin # n /\ f.hop < f.max /\ f.msg.id \notin known[n] /\ f.msg.room \in Rooms
        BY <3>3, <4>1, MessageFacts DEF Wants, Records
      <4>3. f \in sync[n].entries
        OBVIOUS
      <4> HIDE DEF f
      <4>4. f.msg.id \notin HeldIds(n, f.msg.room)
        BY <1>1, <4>2 DEF KnownInv
      <4> QED
        BY <1>3, <4>2, <4>3, <4>4 DEF Stops, Acceptable
    <3>4. after <= exchangeCursor[p]
      BY <1>2, <2>1, <2>4, <3>2
    <3>5. \A x \in Ring(p) : Wants(n, x) => x.cursor > after
      BY <1>2, <2>1, <2>4, <3>3
    <3> QED
      BY <2>4, <3>1, <3>4, <3>5
  <2> QED
    BY <2>3, <2>4
<1> QED
  BY <1>5, <1>6, <1>9, <1>10, <1>11 DEF ExchangeInv

\* A relay that starts again holds and wants nothing behind its cursors; what
\* others know of it is outdated.
LEMMA RestartKeeps ==
  ASSUME ExchangeInv, NEW n \in Nodes, Restart(n)
  PROVE  ExchangeInv'
<1>1. TypeOK /\ RingInv /\ KnownInv /\ PageInv /\ CursorInv /\ FlightInv
  BY DEF ExchangeInv
<1>2. StoresTyped /\ SyncTyped /\ cursors \in [Nodes -> [Nodes -> Nat]]
      /\ lives \in [Nodes -> Nat] /\ outdated \in [Nodes -> SUBSET Nodes]
      /\ published \subseteq Sources
  BY <1>1, TypeParts
<1>3. /\ lives' = [lives EXCEPT ![n] = lives[n] + 1]
      /\ messages' = [messages EXCEPT ![n] = [r \in Rooms |-> << >>]]
      /\ records' = [records EXCEPT ![n] = << >>]
      /\ exchangeCursor' = [exchangeCursor EXCEPT ![n] = 0]
      /\ cursors' = [cursors EXCEPT ![n] = [p \in Nodes |-> 0]]
      /\ sync' = [sync EXCEPT ![n] = Pulling(1)]
      /\ known' = [known EXCEPT ![n] = {}]
      /\ UNCHANGED <<published, lossless>>
  BY DEF Restart
<1>4. 1 \in DOMAIN Peers[n]
  BY PeersFacts
<1>5. /\ SyncTyped' /\ PageInv' /\ FlightOf(n)'
      /\ \A q \in Nodes \ {n} : sync'[q] = sync[q]
  BY <1>1, <1>2, <1>3, <1>4, GoesOn
<1>6. /\ messages'[n] = [r \in Rooms |-> << >>] /\ records'[n] = << >>
      /\ exchangeCursor'[n] = 0 /\ cursors'[n] = [p \in Nodes |-> 0] /\ known'[n] = {}
      /\ \A q \in Nodes \ {n} :
           /\ messages'[q] = messages[q] /\ records'[q] = records[q]
           /\ exchangeCursor'[q] = exchangeCursor[q] /\ cursors'[q] = cursors[q]
           /\ known'[q] = known[q]
  BY <1>2, <1>3 DEF StoresTyped
<1>7. /\ outdated'[n] = {} /\ outdated' \in [Nodes -> SUBSET Nodes]
      /\ \A q \in Nodes \ {n} :
           /\ outdated[q] \subseteq outdated'[q]
           /\ n \notin outdated'[q] => /\ n \notin outdated[q] /\ ~(cursors[q][n] > 0)
                                       /\ ~(Pushing(q) /\ Peer(q) = n)
  <2>1. outdated' = [p \in Nodes |->
          IF p = n THEN {}
          ELSE IF cursors[p][n] > 0 \/ (Pushing(p) /\ Peer(p) = n) THEN outdated[p] \cup {n}
          ELSE outdated[p]]
    BY DEF Restart
  <2>2. \A q \in Nodes : outdated[q] \in SUBSET Nodes
    BY <1>2
  <2>3. outdated' \in [Nodes -> SUBSET Nodes]
    BY <2>1, <2>2
  <2> QED
    BY <2>1, <2>3
<1>8. StoresTyped'
  <2>1. << >> \in Seq(Messages) /\ << >> \in Seq(Records) /\ Len(<< >>) = 0
    OBVIOUS
  <2>2. MaxRecords \in Nat /\ MaxMessages \in Nat
    BY ExchangeAssumption DEF ExchangeAssumption
  <2>3. messages' \in [Nodes -> [Rooms -> Seq(Messages)]] /\ records' \in [Nodes -> Seq(Records)]
    BY <1>2, <1>3, <2>1 DEF StoresTyped
  <2>4. exchangeCursor' \in [Nodes -> Nat] /\ known' \in [Nodes -> SUBSET Ids]
    BY <1>2, <1>3 DEF StoresTyped
  <2>5. \A q \in Nodes : /\ Len(records'[q]) <= MaxRecords
                         /\ \A r \in Rooms : Len(messages'[q][r]) <= MaxMessages
    <3> SUFFICES ASSUME NEW q \in Nodes
                 PROVE  /\ Len(records'[q]) <= MaxRecords
                        /\ \A r \in Rooms : Len(messages'[q][r]) <= MaxMessages
      OBVIOUS
    <3>1. CASE q = n
      <4>1. records'[q] = << >> /\ \A r \in Rooms : messages'[q][r] = << >>
        BY <1>6, <3>1
      <4> QED
        BY <2>1, <2>2, <4>1
    <3>2. CASE q # n
      BY <1>2, <1>6, <3>2 DEF StoresTyped
    <3> QED
      BY <3>1, <3>2
  <2>6. lossless' \in BOOLEAN
    BY <1>2, <1>3 DEF StoresTyped
  <2> QED
    BY <2>3, <2>4, <2>5, <2>6 DEF StoresTyped
<1>9. TypeOK'
  <2>1. cursors' \in [Nodes -> [Nodes -> Nat]] /\ lives' \in [Nodes -> Nat]
    BY <1>2, <1>3
  <2> QED
    BY <1>2, <1>3, <1>5, <1>7, <1>8, <2>1, TypesJoin
<1>10. Ring(n)' = {} /\ \A q \in Nodes \ {n} : Ring(q)' = Ring(q)
  BY <1>6 DEF Ring, ToSet
<1>11. RingInv'
  BY <1>1, <1>6, <1>10 DEF RingInv
<1>12. KnownInv'
  BY <1>1, <1>6 DEF KnownInv, HeldIds
<1>13. CursorInv'
  <2> SUFFICES ASSUME NEW m \in Nodes, NEW q \in PeersOf(m), q \notin outdated'[m]
               PROVE  /\ cursors'[m][q] <= exchangeCursor'[q]
                      /\ \A x \in Ring(q)' : Wants(m, x)' => x.cursor > cursors'[m][q]
    BY DEF CursorInv
  <2>1. q \in Nodes /\ q # m
    BY PeersFacts
  <2>2. CASE m = n
    <3>1. cursors'[m][q] = 0 /\ exchangeCursor'[q] = exchangeCursor[q] /\ Ring(q)' = Ring(q)
      BY <1>6, <1>10, <2>1, <2>2
    <3>2. exchangeCursor[q] \in Nat /\ \A x \in Ring(q) : 1 <= x.cursor /\ x.cursor \in Nat
      BY <1>1, <2>1, RingFacts DEF RingInv
    <3> QED
      BY <3>1, <3>2
  <2>3. CASE m # n /\ q = n
    <3>1. cursors'[m][q] = cursors[m][n] /\ cursors[m][n] \in Nat /\ ~(cursors[m][n] > 0)
      BY <1>2, <1>6, <1>7, <2>3
    <3>2. exchangeCursor'[q] = 0 /\ Ring(q)' = {}
      BY <1>6, <1>10, <2>3
    <3> QED
      BY <3>1, <3>2
  <2>4. CASE m # n /\ q # n
    <3>1. /\ cursors'[m] = cursors[m] /\ exchangeCursor'[q] = exchangeCursor[q]
          /\ Ring(q)' = Ring(q) /\ known'[m] = known[m] /\ q \notin outdated[m]
      BY <1>6, <1>7, <1>10, <2>1, <2>4
    <3> QED
      BY <1>1, <3>1 DEF CursorInv, Wants
  <2> QED
    BY <2>2, <2>3, <2>4
<1>14. FlightInv'
  <2> SUFFICES ASSUME NEW m \in Nodes \ {n} PROVE FlightOf(m)'
    BY <1>5 DEF FlightInv
  <2>1. sync'[m] = sync[m] /\ known'[m] = known[m] /\ FlightOf(m)
    BY <1>1, <1>5, <1>6 DEF FlightInv
  <2> PICK p \in Nodes : p = Peer(m)
    BY <1>1, SyncFacts
  <2>2. Peer(m)' = p /\ (Pushing(m)' <=> Pushing(m))
    BY <2>1 DEF Peer, Pushing
  <2>3. CASE p = n
    BY <1>7, <2>2, <2>3 DEF FlightOf
  <2>4. CASE p # n
    <3>1. exchangeCursor'[p] = exchangeCursor[p] /\ Ring(p)' = Ring(p)
      BY <1>6, <1>10, <2>4
    <3>2. p \notin outdated'[m] => p \notin outdated[m]
      BY <1>7
    <3>3. \A x \in Ring(p) : Wants(m, x)' <=> Wants(m, x)
      BY <2>1 DEF Wants
    <3> SUFFICES ASSUME Pushing(m), p \notin outdated[m]
                 PROVE  /\ sync[m].next <= exchangeCursor[p]
                        /\ \A x \in Ring(p) :
                             Wants(m, x) => x.cursor > sync[m].next \/ OnTheWay(x) \in sync[m].entries
      BY <2>1, <2>2, <3>1, <3>2, <3>3 DEF FlightOf
    <3> QED
      BY <2>1 DEF FlightOf
  <2> QED
    BY <2>3, <2>4
<1> QED
  BY <1>5, <1>9, <1>11, <1>12, <1>13, <1>14 DEF ExchangeInv

-----------------------------------------------------------------------------
(* The theorems *)

LEMMA InvInitially == Init => ExchangeInv
<1> SUFFICES ASSUME Init PROVE ExchangeInv
  OBVIOUS
<1>1. /\ published = {} /\ messages = [n \in Nodes |-> [r \in Rooms |-> << >>]]
      /\ records = [n \in Nodes |-> << >>] /\ exchangeCursor = [n \in Nodes |-> 0]
      /\ cursors = [n \in Nodes |-> [p \in Nodes |-> 0]]
      /\ sync = [n \in Nodes |-> Pulling(1)]
      /\ lives = [n \in Nodes |-> 0] /\ outdated = [n \in Nodes |-> {}]
      /\ known = [n \in Nodes |-> {}] /\ lossless = TRUE
  BY DEF Init
<1>2. \A n \in Nodes : /\ sync[n] = Pulling(1) /\ Pulling(1) \in SyncStates(n)
                       /\ sync[n].entries = {} /\ IsFiniteSet({}) /\ Cardinality({}) <= Limit
                       /\ ~Pushing(n)
  <2> TAKE n \in Nodes
  <2>1. 1 \in DOMAIN Peers[n] /\ sync[n] = Pulling(1)
    BY <1>1, PeersFacts
  <2> QED
    BY <2>1, PullingFacts DEF Pushing
<1>3. \A n \in Nodes : records[n] = << >> /\ \A r \in Rooms : messages[n][r] = << >>
  BY <1>1
<1>4. \A n \in Nodes : Ring(n) = {}
  BY <1>3 DEF Ring, ToSet
<1>5. StoresTyped
  <2>1. << >> \in Seq(Messages) /\ << >> \in Seq(Records) /\ Len(<< >>) = 0
    OBVIOUS
  <2>2. MaxRecords \in Nat /\ MaxMessages \in Nat
    BY ExchangeAssumption DEF ExchangeAssumption
  <2>3. \A n \in Nodes : Len(records[n]) <= MaxRecords
                         /\ \A r \in Rooms : Len(messages[n][r]) <= MaxMessages
    BY <1>3, <2>1, <2>2
  <2>4. messages \in [Nodes -> [Rooms -> Seq(Messages)]] /\ records \in [Nodes -> Seq(Records)]
    BY <1>1, <2>1
  <2>5. exchangeCursor \in [Nodes -> Nat] /\ known \in [Nodes -> SUBSET Ids]
    BY <1>1
  <2> QED
    BY <1>1, <2>3, <2>4, <2>5 DEF StoresTyped
<1>6. SyncTyped
  BY <1>1, <1>2 DEF SyncTyped
<1>7. TypeOK
  <2>1. cursors \in [Nodes -> [Nodes -> Nat]] /\ lives \in [Nodes -> Nat]
        /\ outdated \in [Nodes -> SUBSET Nodes] /\ published \subseteq Sources
    BY <1>1
  <2> QED
    BY <1>5, <1>6, <2>1, TypeParts
<1>8. RingInv
  BY <1>4 DEF RingInv
<1>9. KnownInv
  BY <1>3 DEF KnownInv, HeldIds
<1>10. PageInv
  BY <1>2 DEF PageInv
<1>11. CursorInv
  <2> SUFFICES ASSUME NEW n \in Nodes, NEW p \in PeersOf(n)
               PROVE  /\ cursors[n][p] <= exchangeCursor[p]
                      /\ \A x \in Ring(p) : Wants(n, x) => x.cursor > cursors[n][p]
    BY DEF CursorInv
  <2>1. p \in Nodes
    BY PeersFacts
  <2> QED
    BY <1>1, <1>4, <2>1
<1>12. FlightInv
  BY <1>2 DEF FlightInv, FlightOf
<1> QED
  BY <1>7, <1>8, <1>9, <1>10, <1>11, <1>12 DEF ExchangeInv

LEMMA StutterKeeps ==
  ASSUME ExchangeInv, UNCHANGED vars
  PROVE  ExchangeInv'
<1>1. TypeOK /\ RingInv /\ KnownInv /\ PageInv /\ CursorInv /\ FlightInv
  BY DEF ExchangeInv
<1>2. UNCHANGED <<published, nodeVars, cursors, sync, outdated, lives>>
  BY DEF vars, workerVars
<1>3. StoresTyped' /\ RingInv' /\ KnownInv' /\ Grows
  BY <1>1, <1>2, StoresStay
<1>4. TypeOK'
  <2>1. SyncTyped'
    BY <1>1, <1>2, TypeParts DEF SyncTyped, SyncStates
  <2> QED
    BY <1>1, <1>2, <1>3, <2>1, TypeParts, TypesJoin
<1>5. PageInv'
  BY <1>1, <1>2 DEF PageInv
<1>6. CursorInv'
  BY <1>1, <1>2, <1>3, CursorsStay
<1>7. FlightInv'
  BY <1>1, <1>2, <1>3, FlightStays DEF FlightInv
<1> QED
  BY <1>3, <1>4, <1>5, <1>6, <1>7 DEF ExchangeInv

LEMMA Inductive == Spec => []ExchangeInv
<1>1. ExchangeInv /\ [Next]_vars => ExchangeInv'
  <2> SUFFICES ASSUME ExchangeInv, [Next]_vars PROVE ExchangeInv'
    OBVIOUS
  <2>1. CASE \E s \in Sources : Publish(s)
    BY <2>1, PublishKeeps
  <2>2. CASE \E n \in Nodes : Pull(n)
    BY <2>2, PullKeeps
  <2>3. CASE \E n \in Nodes : PullFails(n) \/ PushForbidden(n)
    BY <2>3, PullFailsKeeps
  <2>4. CASE \E n \in Nodes : PushEntry(n)
    BY <2>4, PushEntryKeeps
  <2>5. CASE \E n \in Nodes : PushDone(n)
    BY <2>5, PushDoneKeeps
  <2>6. CASE \E n \in Nodes : Restart(n)
    BY <2>6, RestartKeeps
  <2>7. CASE UNCHANGED vars
    BY <2>7, StutterKeeps
  <2> QED
    BY <2>1, <2>2, <2>3, <2>4, <2>5, <2>6, <2>7 DEF Next
<1> QED
  BY <1>1, InvInitially, PTL DEF Spec

\* The variables have their types: pages, rings and rooms stay within their
\* limits, and a worker is always at one of its peers.
THEOREM ExchangeTyped == Spec => []TypeOK
<1>1. ExchangeInv => TypeOK
  BY DEF ExchangeInv
<1> QED
  BY <1>1, Inductive, PTL

\* A worker's cursor passes over no record it has not brought home
\* (syncOnce, selectCacheExchangeEntries, handleCacheExchangePush).
THEOREM NothingPassed == Spec => []CursorPassesNothing
<1>1. ExchangeInv => CursorPassesNothing
  <2> SUFFICES ASSUME ExchangeInv, NEW n \in Nodes, NEW p \in PeersOf(n), p \notin outdated[n],
                      NEW i \in DOMAIN records[p],
                      records[p][i].cursor <= cursors[n][p], records[p][i].origin # n,
                      records[p][i].hop + 1 < records[p][i].max
               PROVE  records[p][i].msg.id \in known[n]
    BY DEF CursorPassesNothing
  <2>1. TypeOK /\ CursorInv /\ p \in Nodes
    BY PeersFacts DEF ExchangeInv
  <2> PICK x \in Ring(p) : x = records[p][i]
    BY DEF Ring, ToSet
  <2>2. x.cursor \in Nat /\ cursors[n][p] \in Nat
    <3>1. x.cursor \in Nat
      BY <2>1, RingFacts
    <3>2. cursors \in [Nodes -> [Nodes -> Nat]]
      BY <2>1 DEF TypeOK
    <3> QED
      BY <2>1, <3>1, <3>2
  <2>3. ~(x.cursor > cursors[n][p])
    BY <2>2
  <2>4. ~Wants(n, x)
    BY <2>1, <2>3 DEF CursorInv
  <2> QED
    BY <2>4 DEF Wants
<1> QED
  BY <1>1, Inductive, PTL
-----------------------------------------------------------------------------
(* Copies and their ways *)

Copy == [source : Sources, way : Seq(Nodes)]

\* A copy that went on to n.
Onward(t, n) == [source |-> t.source, way |-> Append(t.way, n)]

LEMMA BoundedSequences ==
  ASSUME NEW S, NEW k \in Nat
  PROVE  BoundedSeq(S, k) = {w \in Seq(S) : Len(w) <= k}
<1>1. BoundedSeq(S, k) = UNION {[1..m -> S] : m \in 0..k}
  BY DEF BoundedSeq, SeqOf
<1>2. ASSUME NEW w \in BoundedSeq(S, k) PROVE w \in Seq(S) /\ Len(w) <= k
  <2>1. PICK m \in 0..k : w \in [1..m -> S]
    BY <1>1
  <2>2. w \in Seq(S) /\ Len(w) = m
    <3>1. m \in Nat
      OBVIOUS
    <3>2. \A i \in 1..m : w[i] \in S
      BY <2>1
    <3>3. w = [i \in 1..m |-> w[i]]
      BY <2>1
    <3>4. w \in Seq(S)
      BY <2>1, <3>1, SeqDef
    <3>5. DOMAIN w = 1..Len(w) /\ Len(w) \in Nat
      BY <3>4, LenProperties
    <3>6. DOMAIN w = 1..m
      BY <2>1
    <3>7. \A l \in Nat : 1..l = 1..m => l = m
      <4> SUFFICES ASSUME NEW l \in Nat, 1..l = 1..m PROVE l = m
        OBVIOUS
      <4>1. l \in 1..l <=> l >= 1
        OBVIOUS
      <4>2. m \in 1..m <=> m >= 1
        BY <3>1
      <4>3. l >= 1 => l <= m
        BY <4>1
      <4>4. m >= 1 => m <= l
        BY <3>1, <4>2
      <4> QED
        BY <3>1, <4>3, <4>4
    <3> QED
      BY <3>4, <3>5, <3>6, <3>7
  <2> QED
    BY <2>2
<1>3. ASSUME NEW w \in Seq(S), Len(w) <= k PROVE w \in BoundedSeq(S, k)
  <2>1. Len(w) \in 0..k /\ w \in [1..Len(w) -> S]
    BY <1>3, LenProperties
  <2> QED
    BY <1>1, <2>1
<1> QED
  BY <1>2, <1>3

\* A copy goes by peers, and never back to its source.
LEMMA CopyFacts ==
  ASSUME NEW requests \in SUBSET Sources, NEW n \in Nodes, NEW t
  PROVE  t \in Copies(requests, n) <=>
           /\ t \in Copy /\ t.source \in requests
           /\ Len(t.way) > 0 /\ Len(t.way) <= MaxHops[t.source.node]
           /\ t.way[1] = t.source.node /\ t.way[Len(t.way)] = n
           /\ \A i \in 2..Len(t.way) :
                t.way[i] # t.source.node /\ t.way[i - 1] \in PeersOf(t.way[i])
<1> DEFINE IsWay(w, o) ==
             /\ Len(w) > 0 /\ w[1] = o /\ w[Len(w)] = n
             /\ \A i \in 2..Len(w) : w[i] # o /\ w[i - 1] \in PeersOf(w[i])
<1>1. ASSUME NEW s \in Sources
      PROVE  Routes[s.node][n] = {w \in Seq(Nodes) : Len(w) <= MaxHops[s.node] /\ IsWay(w, s.node)}
  <2>1. s.node \in Nodes /\ MaxHops[s.node] \in Nat
    BY MessageFacts, ExchangeAssumption DEF ExchangeAssumption
  <2>2. Routes[s.node][n] = {w \in BoundedSeq(Nodes, MaxHops[s.node]) : IsWay(w, s.node)}
    BY <2>1 DEF Routes
  <2> HIDE DEF IsWay
  <2> QED
    BY <2>1, <2>2, BoundedSequences
<1>2. t \in Copies(requests, n) <=>
        \E s \in requests : t \in [source : {s}, way : Routes[s.node][n]]
  BY DEF Copies
<1> HIDE DEF IsWay
<1>3. t \in Copies(requests, n) <=>
        /\ t \in Copy /\ t.source \in requests
        /\ Len(t.way) <= MaxHops[t.source.node] /\ IsWay(t.way, t.source.node)
  <2>1. ASSUME t \in Copies(requests, n)
        PROVE  /\ t \in Copy /\ t.source \in requests
               /\ Len(t.way) <= MaxHops[t.source.node] /\ IsWay(t.way, t.source.node)
    <3>1. PICK s \in requests : t \in [source : {s}, way : Routes[s.node][n]]
      BY <1>2, <2>1
    <3>2. t.source = s /\ t.way \in Routes[s.node][n] /\ s \in Sources
      BY <3>1
    <3>3. t.way \in Seq(Nodes) /\ Len(t.way) <= MaxHops[s.node] /\ IsWay(t.way, s.node)
      BY <1>1, <3>2
    <3>4. t \in Copy
      BY <3>1, <3>2, <3>3 DEF Copy
    <3> QED
      BY <3>2, <3>3, <3>4
  <2>2. ASSUME t \in Copy, t.source \in requests,
               Len(t.way) <= MaxHops[t.source.node], IsWay(t.way, t.source.node)
        PROVE  t \in Copies(requests, n)
    <3>1. t.way \in Seq(Nodes) /\ t.source \in Sources
      BY <2>2 DEF Copy
    <3>2. t.way \in Routes[t.source.node][n]
      BY <1>1, <2>2, <3>1
    <3>3. t \in [source : {t.source}, way : Routes[t.source.node][n]]
      BY <2>2, <3>2 DEF Copy
    <3> QED
      BY <1>2, <2>2, <3>3
  <2> QED
    BY <2>1, <2>2
<1> QED
  BY <1>3 DEF IsWay

LEMMA CopyKnown ==
  ASSUME NEW requests \in SUBSET Sources, NEW n \in Nodes, NEW t \in Copies(requests, n)
  PROVE  /\ t \in Copy /\ t.source \in requests
         /\ Len(t.way) > 0 /\ t.way[Len(t.way)] = n
BY CopyFacts

\* What is published is a copy at its relay.
LEMMA FirstCopy ==
  ASSUME NEW requests \in SUBSET Sources, NEW s \in requests
  PROVE  [source |-> s, way |-> <<s.node>>] \in Copies(requests, s.node)
<1> DEFINE t == [source |-> s, way |-> <<s.node>>]
<1>1. s \in Sources /\ s.node \in Nodes /\ MaxHops[s.node] \in Nat \ {0}
  BY MessageFacts, ExchangeAssumption DEF ExchangeAssumption
<1>2. t \in Copy /\ t.source = s /\ t.way = <<s.node>>
  BY <1>1 DEF Copy
<1>3. Len(<<s.node>>) = 1 /\ <<s.node>>[1] = s.node
  OBVIOUS
<1> HIDE DEF t
<1>4. \A i \in 2..Len(t.way) : FALSE
  BY <1>2, <1>3
<1>5. 0 < 1 /\ 1 <= MaxHops[s.node]
  BY <1>1
<1>6. t \in Copies(requests, s.node)
  BY <1>1, <1>2, <1>3, <1>4, <1>5, CopyFacts
<1> QED
  BY <1>6 DEF t

\* A copy that may still travel goes on to a relay that has its own as a peer.
LEMMA NextCopy ==
  ASSUME NEW requests \in SUBSET Sources, NEW n \in Nodes, NEW p \in PeersOf(n),
         NEW t \in Copies(requests, p), t.source.node # n, Len(t.way) < MaxHops[t.source.node]
  PROVE  /\ Onward(t, n) \in Copies(requests, n)
         /\ Len(Onward(t, n).way) = Len(t.way) + 1 /\ Onward(t, n).source = t.source
<1> DEFINE u == Onward(t, n)
<1>1. p \in Nodes
  BY PeersFacts
<1>2. /\ t \in Copy /\ t.source \in requests /\ Len(t.way) > 0
      /\ t.way[1] = t.source.node /\ t.way[Len(t.way)] = p
      /\ \A i \in 2..Len(t.way) :
           t.way[i] # t.source.node /\ t.way[i - 1] \in PeersOf(t.way[i])
  BY <1>1, CopyFacts
<1> PICK way \in Seq(Nodes) : way = t.way
  BY <1>2 DEF Copy
<1> PICK k \in Nat : k = Len(way)
  BY LenProperties
<1>3. u.source = t.source /\ u.way = Append(way, n)
  BY DEF Onward
<1>4. u \in Copy
  BY <1>2 DEF Onward, Copy
<1> HIDE DEF u
<1>5. /\ Len(u.way) = k + 1 /\ u.way[k + 1] = n /\ \A i \in 1..k : u.way[i] = way[i]
  BY <1>3, AppendProperties
<1>6. t.source \in Sources /\ MaxHops[t.source.node] \in Nat
  BY <1>2, MessageFacts, ExchangeAssumption DEF ExchangeAssumption
<1>7. \A i \in 2..Len(u.way) : u.way[i] # u.source.node /\ u.way[i - 1] \in PeersOf(u.way[i])
  <2> SUFFICES ASSUME NEW i \in 2..(k + 1)
               PROVE  u.way[i] # t.source.node /\ u.way[i - 1] \in PeersOf(u.way[i])
    BY <1>3, <1>5
  <2>1. CASE i = k + 1
    <3>1. u.way[i - 1] = way[k]
      BY <1>2, <1>5, <2>1
    <3> QED
      BY <1>2, <1>5, <2>1, <3>1
  <2>2. CASE i # k + 1
    <3>1. i \in 2..k /\ i \in 1..k /\ i - 1 \in 1..k
      BY <2>2
    <3> QED
      BY <1>2, <1>5, <3>1
  <2> QED
    BY <2>1, <2>2
<1>8. u.way[1] = u.source.node
  BY <1>2, <1>3, <1>5
<1>9. Len(u.way) > 0 /\ Len(u.way) <= MaxHops[u.source.node]
  BY <1>3, <1>5, <1>6
<1>10. u \in Copies(requests, n)
  BY <1>2, <1>3, <1>4, <1>5, <1>7, <1>8, <1>9, CopyFacts
<1> QED
  BY <1>3, <1>5, <1>10 DEF u

\* Where a copy comes from can be told from its way.
LEMMA OnwardInjective ==
  ASSUME NEW t \in Copy, NEW u \in Copy, NEW n \in Nodes, Onward(t, n) = Onward(u, n)
  PROVE  t = u
<1>1. t.source = u.source /\ Append(t.way, n) = Append(u.way, n)
  BY DEF Onward
<1>2. t.way \in Seq(Nodes) /\ u.way \in Seq(Nodes)
  BY DEF Copy
<1>3. \A v, w \in Seq(Nodes) : Append(v, n) = Append(w, n) => v = w
  BY AppendInjective
<1>4. t.way = u.way
  BY <1>1, <1>2, <1>3
<1> QED
  BY <1>1, <1>4 DEF Copy

\* There are finitely many copies.
LEMMA CopiesFinite ==
  ASSUME NEW requests \in SUBSET Sources, NEW n \in Nodes
  PROVE  IsFiniteSet(Copies(requests, n))
<1> DEFINE Ways(s) == Routes[s.node][n]
           Part(s) == [source : {s}, way : Ways(s)]
           Parts == {Part(s) : s \in requests}
<1>1. IsFiniteSet(requests) /\ IsFiniteSet(Nodes)
  BY ExchangeAssumption, FS_Subset DEF ExchangeAssumption
<1>2. ASSUME NEW s \in requests PROVE IsFiniteSet(Ways(s))
  <2> PICK k \in Nat : k = MaxHops[s.node]
    BY MessageFacts, ExchangeAssumption DEF ExchangeAssumption
  <2>1. Ways(s) \subseteq {w \in Seq(Nodes) : Len(w) <= k}
    <3>1. s.node \in Nodes
      BY MessageFacts
    <3>2. Ways(s) \subseteq BoundedSeq(Nodes, k)
      BY <3>1 DEF Routes
    <3> QED
      BY <3>2, BoundedSequences
  <2> HIDE DEF Ways
  <2> DEFINE Graph(w) == {<<i, w[i]>> : i \in 1..Len(w)}
             places == SUBSET ((1..k) \X Nodes)
             f == [w \in Ways(s) |-> Graph(w)]
  <2>2. ASSUME NEW w \in Ways(s)
        PROVE  /\ w \in Seq(Nodes) /\ Len(w) \in Nat /\ Len(w) <= k /\ DOMAIN w = 1..Len(w)
               /\ Graph(w) \in places
    <3>1. w \in Seq(Nodes) /\ Len(w) \in Nat /\ Len(w) <= k /\ DOMAIN w = 1..Len(w)
      BY <2>1, LenProperties
    <3>2. \A i \in 1..Len(w) : i \in 1..k /\ w[i] \in Nodes
      BY <3>1, ElementOfSeq
    <3> QED
      BY <3>1, <3>2
  <2>3. ASSUME NEW v \in Ways(s), NEW w \in Ways(s), Graph(v) = Graph(w)
        PROVE  v = w
    <3>1. \A i \in 1..Len(v) : i \in 1..Len(w) /\ v[i] = w[i]
      <4> TAKE i \in 1..Len(v)
      <4>1. <<i, v[i]>> \in Graph(w)
        BY <2>3
      <4> QED
        BY <4>1
    <3>2. \A i \in 1..Len(w) : i \in 1..Len(v)
      <4> TAKE i \in 1..Len(w)
      <4>1. <<i, w[i]>> \in Graph(v)
        BY <2>3
      <4> QED
        BY <4>1
    <3>3. 1..Len(v) = 1..Len(w)
      BY <3>1, <3>2
    <3>4. v = [i \in 1..Len(v) |-> v[i]] /\ w = [i \in 1..Len(w) |-> w[i]]
      <4>1. v \in [1..Len(v) -> Nodes] /\ w \in [1..Len(w) -> Nodes]
        BY <2>2, LenProperties
      <4> QED
        BY <4>1
    <3> QED
      BY <3>1, <3>3, <3>4
  <2> HIDE DEF Graph
  <2>4. f \in Injection(Ways(s), places)
    <3>1. f \in [Ways(s) -> places]
      BY <2>2
    <3>2. \A v, w \in Ways(s) : f[v] = f[w] => v = w
      BY <2>3
    <3> HIDE DEF f, places
    <3> QED
      BY <3>1, <3>2 DEF Injection, IsInjective
  <2>5. IsFiniteSet(places)
    <3>1. IsFiniteSet(1..k)
      BY FS_Interval
    <3>2. IsFiniteSet((1..k) \X Nodes)
      BY <1>1, <3>1, FS_Product
    <3> QED
      BY <3>2, FS_SUBSET
  <2> HIDE DEF f, places
  <2> QED
    BY <2>4, <2>5, FS_Injection
<1>3. ASSUME NEW s \in requests PROVE IsFiniteSet(Part(s))
  <2> DEFINE f == [w \in Ways(s) |-> [source |-> s, way |-> w]]
  <2>1. IsFiniteSet(Ways(s))
    BY <1>2
  <2> HIDE DEF Ways
  <2>2. f \in Surjection(Ways(s), Part(s))
    <3>1. f \in [Ways(s) -> Part(s)]
      OBVIOUS
    <3>2. \A t \in Part(s) : t.way \in Ways(s) /\ t = f[t.way]
      OBVIOUS
    <3> HIDE DEF f, Part
    <3> QED
      BY <3>1, <3>2 DEF Surjection
  <2> HIDE DEF f, Part
  <2> QED
    BY <2>1, <2>2, FS_Surjection
<1> HIDE DEF Part
<1>4. IsFiniteSet(Parts)
  <2> DEFINE f == [s \in requests |-> Part(s)]
  <2>1. f \in Surjection(requests, Parts)
    BY DEF Surjection
  <2> HIDE DEF f, Parts
  <2> QED
    BY <1>1, <2>1, FS_Surjection
<1>5. \A P \in Parts : IsFiniteSet(P)
  BY <1>3
<1>6. Copies(requests, n) = UNION Parts
  BY DEF Copies, Part
<1> HIDE DEF Parts
<1> QED
  BY <1>4, <1>5, <1>6, FS_UNION

-----------------------------------------------------------------------------
(* What every relay accepted *)

Histories == [Nodes -> Seq(Copy)]

\* T[n] are the copies that n accepted, in their order and none twice.
History(T, n) ==
  /\ Len(T[n]) = exchangeCursor[n]
  /\ \A i \in DOMAIN T[n] : T[n][i] \in Copies(published, n)
  /\ \A i, j \in DOMAIN T[n] : T[n][i] = T[n][j] => i = j

\* A record stands for a copy.
Stands(x, t) ==
  x.msg = t.source.msg /\ x.origin = t.source.node /\ x.max = MaxHops[t.source.node]

RingTold(T, n) ==
  \A x \in Ring(n) :
    Stands(x, T[n][x.cursor]) /\ x.hop + 1 = Len(T[n][x.cursor].way)

\* A page is ahead of the cursor, and brings copies that the peer accepted.
PageTold(T, n) ==
  Pushing(n) =>
    \A e \in sync[n].entries :
      /\ cursors[n][Peer(n)] < e.cursor /\ e.cursor <= sync[n].next
      /\ e.cursor \in DOMAIN T[Peer(n)]
      /\ Stands(e, T[Peer(n)][e.cursor]) /\ e.hop = Len(T[Peer(n)][e.cursor].way)

\* The worker of n does not take the record c of p again: it is behind the
\* cursor, or behind what is left of the page that is being pushed.
Passed(n, p, c) ==
  \/ c <= cursors[n][p]
  \/ /\ sync[n].phase = "push" /\ Peer(n) = p /\ c <= sync[n].next
     /\ \A e \in sync[n].entries : c < e.cursor

\* What n did not get from a client was accepted by a peer and passed since.
Brought(T, n, t) ==
  \E p \in PeersOf(n) : \E c \in DOMAIN T[p] : t = Onward(T[p][c], n) /\ Passed(n, p, c)
Came(T, n) == \A i \in DOMAIN T[n] : Len(T[n][i].way) > 1 => Brought(T, n, T[n][i])

Told(T) == \A n \in Nodes : History(T, n) /\ RingTold(T, n) /\ PageTold(T, n) /\ Came(T, n)
FloodInv == Undisturbed => \E T \in Histories : Told(T)

LEMMA HistoryFacts ==
  ASSUME NEW T \in Histories, NEW n \in Nodes
  PROVE  /\ T[n] \in Seq(Copy) /\ Len(T[n]) \in Nat /\ DOMAIN T[n] = 1..Len(T[n])
         /\ \A i \in DOMAIN T[n] : T[n][i] \in Copy
<1>1. T[n] \in Seq(Copy)
  BY DEF Histories
<1>2. Len(T[n]) \in Nat /\ DOMAIN T[n] = 1..Len(T[n])
  BY <1>1, LenProperties
<1> QED
  BY <1>1, <1>2, ElementOfSeq

\* Histories only get longer.
Extends(T, U) ==
  \A n \in Nodes : \A i \in DOMAIN T[n] : i \in DOMAIN U[n] /\ U[n][i] = T[n][i]

LEMMA StoresToldStay ==
  ASSUME NEW T \in Histories, NEW n \in Nodes, History(T, n), RingTold(T, n),
         UNCHANGED nodeVars, published \subseteq published'
  PROVE  History(T, n)' /\ RingTold(T, n)'
<1>1. exchangeCursor' = exchangeCursor /\ records' = records
  BY DEF nodeVars
<1>2. \A t : t \in Copies(published, n) => t \in Copies(published', n)
  BY DEF Copies
<1>3. History(T, n)'
  BY <1>1, <1>2 DEF History
<1>4. RingTold(T, n)'
  BY <1>1 DEF RingTold, Ring
<1> QED
  BY <1>3, <1>4

LEMMA PageToldStays ==
  ASSUME TypeOK, NEW T \in Histories, NEW U \in Histories, Extends(T, U),
         NEW n \in Nodes, PageTold(T, n), sync'[n] = sync[n], cursors'[n] = cursors[n]
  PROVE  PageTold(U, n)'
<1> PICK p \in Nodes : p = Peer(n)
  BY SyncFacts
<1>1. Peer(n)' = p /\ (Pushing(n)' <=> Pushing(n))
  BY DEF Peer, Pushing
<1>2. \A i \in DOMAIN T[p] : i \in DOMAIN U[p] /\ U[p][i] = T[p][i]
  BY DEF Extends
<1> QED
  BY <1>1, <1>2 DEF PageTold

LEMMA BroughtStays ==
  ASSUME NEW T \in Histories, NEW U \in Histories, Extends(T, U), NEW n \in Nodes, NEW t,
         Brought(T, n, t),
         \A p \in PeersOf(n) : \A c \in Nat : Passed(n, p, c) => Passed(n, p, c)'
  PROVE  Brought(U, n, t)'
<1> PICK p \in PeersOf(n) : \E c \in DOMAIN T[p] : t = Onward(T[p][c], n) /\ Passed(n, p, c)
  BY DEF Brought
<1> PICK c \in DOMAIN T[p] : t = Onward(T[p][c], n) /\ Passed(n, p, c)
  OBVIOUS
<1>1. p \in Nodes
  BY PeersFacts
<1>2. c \in DOMAIN U[p] /\ U[p][c] = T[p][c]
  BY <1>1 DEF Extends
<1>3. c \in Nat
  BY <1>1, HistoryFacts
<1>4. Passed(n, p, c)'
  BY <1>3
<1> QED
  BY <1>2, <1>4 DEF Brought

LEMMA CameStays ==
  ASSUME NEW T \in Histories, NEW U \in Histories, Extends(T, U), NEW n \in Nodes,
         Came(T, n),
         \A i \in DOMAIN U[n] :
           i \in DOMAIN T[n] \/ (Len(U[n][i].way) > 1 => Brought(U, n, U[n][i])'),
         \A p \in PeersOf(n) : \A c \in Nat : Passed(n, p, c) => Passed(n, p, c)'
  PROVE  Came(U, n)'
<1> SUFFICES ASSUME NEW i \in DOMAIN U[n], Len(U[n][i].way) > 1
             PROVE  Brought(U, n, U[n][i])'
  BY DEF Came
<1>1. CASE i \in DOMAIN T[n]
  <2> PICK t : t = U[n][i]
    OBVIOUS
  <2>1. t = T[n][i]
    BY <1>1 DEF Extends
  <2>2. Brought(T, n, t)
    BY <1>1, <2>1 DEF Came
  <2>3. Brought(U, n, t)'
    BY <2>2, BroughtStays
  <2> QED
    BY <2>3
<1>2. CASE i \notin DOMAIN T[n]
  BY <1>2
<1> QED
  BY <1>1, <1>2

LEMMA PassedStays ==
  ASSUME NEW n \in Nodes, sync'[n] = sync[n], cursors'[n] = cursors[n]
  PROVE  \A p \in PeersOf(n) : \A c \in Nat : Passed(n, p, c) => Passed(n, p, c)'
BY DEF Passed, Peer

\* A relay accepts a copy that it has not accepted before.
AcceptsCopy(T, U, n, t, hop) ==
  /\ t \in Copies(published', n) /\ \A i \in DOMAIN T[n] : T[n][i] # t
  /\ hop \in Nat /\ hop + 1 = Len(t.way)
  /\ Accept(n, t.source.msg, t.source.node, hop, MaxHops[t.source.node])
  /\ U = [T EXCEPT ![n] = Append(T[n], t)]

LEMMA AcceptTold ==
  ASSUME TypeOK, RingInv, published \subseteq published', published' \subseteq Sources,
         NEW T \in Histories, \A q \in Nodes : History(T, q) /\ RingTold(T, q),
         NEW n \in Nodes, NEW t, NEW hop, NEW U, AcceptsCopy(T, U, n, t, hop)
  PROVE  /\ U \in Histories /\ Extends(T, U)
         /\ \A q \in Nodes \ {n} : U[q] = T[q]
         /\ \A i \in DOMAIN U[n] : i \in DOMAIN T[n] \/ U[n][i] = t
         /\ \A q \in Nodes : History(U, q)' /\ RingTold(U, q)'
<1> /\ t \in Copies(published', n) /\ \A i \in DOMAIN T[n] : T[n][i] # t
    /\ hop \in Nat /\ hop + 1 = Len(t.way)
    /\ Accept(n, t.source.msg, t.source.node, hop, MaxHops[t.source.node])
    /\ U = [T EXCEPT ![n] = Append(T[n], t)]
  BY DEF AcceptsCopy
<1> PICK k \in Nat : k = Len(T[n])
  BY HistoryFacts
<1>1. t \in Copy /\ t.source \in Sources
  BY CopyKnown DEF Copy
<1>2. /\ T[n] \in Seq(Copy) /\ DOMAIN T[n] = 1..k
      /\ \A i \in 1..k : T[n][i] \in Copy
  BY HistoryFacts
<1>3. /\ U[n] = Append(T[n], t) /\ \A q \in Nodes \ {n} : U[q] = T[q]
      /\ DOMAIN U = Nodes
  BY DEF Histories
<1>4. /\ U[n] \in Seq(Copy) /\ Len(U[n]) = k + 1 /\ U[n][k + 1] = t
      /\ \A i \in 1..k : U[n][i] = T[n][i]
  BY <1>1, <1>2, <1>3, AppendProperties
<1>5. U \in Histories
  BY <1>1, <1>2, <1>4 DEF Histories
<1>6. DOMAIN U[n] = 1..(k + 1)
  BY <1>4, LenProperties
<1>7. Extends(T, U)
  BY <1>2, <1>3, <1>4, <1>6 DEF Extends
<1>8. \A i \in DOMAIN U[n] : i \in DOMAIN T[n] \/ U[n][i] = t
  BY <1>2, <1>4, <1>6
<1> DEFINE m == t.source.msg
           new == [cursor |-> exchangeCursor[n] + 1, msg |-> m, origin |-> t.source.node,
                   hop |-> hop, max |-> MaxHops[t.source.node]]
           ring == Append(records[n], new)
           ring2 == Newest(ring, MaxRecords)
<1>9. /\ records' = [records EXCEPT ![n] = ring2]
      /\ exchangeCursor' = [exchangeCursor EXCEPT ![n] = exchangeCursor[n] + 1]
  BY DEF Accept
<1>10. /\ records[n] \in Seq(Records) /\ records \in [Nodes -> Seq(Records)]
       /\ exchangeCursor \in [Nodes -> Nat] /\ exchangeCursor[n] = k
  BY DEF TypeOK, History
<1>11. new \in Records /\ new.cursor = k + 1 /\ Stands(new, t) /\ new.hop = hop
  <2>1. /\ m \in Messages /\ t.source.node \in Nodes /\ MaxHops[t.source.node] \in Nat
    BY <1>1, MessageFacts, ExchangeAssumption DEF ExchangeAssumption
  <2> QED
    BY <1>10, <2>1 DEF Records, Stands
<1> HIDE DEF new
<1>12. \A x \in ToSet(ring2) : x = new \/ x \in Ring(n)
  <2>1. MaxRecords \in Nat \ {0}
    BY ExchangeAssumption DEF ExchangeAssumption
  <2> QED
    BY <1>10, <1>11, <2>1, NewestOf DEF Ring
<1> HIDE DEF ring2, ring
<1>13. /\ records'[n] = ring2 /\ exchangeCursor'[n] = k + 1
       /\ \A q \in Nodes \ {n} : /\ records'[q] = records[q]
                                 /\ exchangeCursor'[q] = exchangeCursor[q]
  BY <1>9, <1>10
<1>14. \A q \in Nodes : \A c : c \in Copies(published, q) => c \in Copies(published', q)
  BY DEF Copies
<1>15. ASSUME NEW q \in Nodes \ {n} PROVE History(U, q)' /\ RingTold(U, q)'
  <2>1. U[q] = T[q] /\ exchangeCursor'[q] = exchangeCursor[q] /\ Ring(q)' = Ring(q)
    BY <1>3, <1>13 DEF Ring
  <2>2. History(T, q) /\ RingTold(T, q)
    OBVIOUS
  <2> QED
    BY <1>14, <2>1, <2>2 DEF History, RingTold
<1>16. History(U, n)'
  <2>1. \A i \in DOMAIN U[n] : U[n][i] \in Copies(published', n)
    BY <1>2, <1>4, <1>6, <1>14 DEF History
  <2>2. \A i, j \in DOMAIN U[n] : U[n][i] = U[n][j] => i = j
    <3>1. \A i \in 1..(k + 1) : i \in 1..k \/ i = k + 1
      OBVIOUS
    <3>2. \A i, j \in 1..k : T[n][i] = T[n][j] => i = j
      BY <1>2 DEF History
    <3> QED
      BY <1>2, <1>4, <1>6, <3>1, <3>2
  <2> QED
    BY <1>4, <1>13, <2>1, <2>2 DEF History
<1>17. RingTold(U, n)'
  <2> SUFFICES ASSUME NEW x \in ToSet(ring2)
               PROVE  Stands(x, U[n][x.cursor]) /\ x.hop + 1 = Len(U[n][x.cursor].way)
    BY <1>13 DEF RingTold, Ring, Stands
  <2>1. CASE x = new
    BY <1>4, <1>11, <2>1
  <2>2. CASE x \in Ring(n)
    <3>1. x.cursor \in 1..k
      BY <1>10, <2>2, RingFacts DEF RingInv
    <3> QED
      BY <1>4, <2>2, <3>1 DEF RingTold
  <2> QED
    BY <1>12, <2>1, <2>2
<1> QED
  BY <1>3, <1>5, <1>7, <1>8, <1>15, <1>16, <1>17
-----------------------------------------------------------------------------
(* The actions, for copies *)

\* What is undisturbed was so before.
LEMMA WasUndisturbed ==
  ASSUME published \subseteq published', lives' = lives, Undisturbed'
  PROVE  Undisturbed
BY DEF Undisturbed, Unlocked

LEMMA PublishTells ==
  ASSUME ExchangeInv, ExchangeInv', NEW s \in Sources, Publish(s), NEW T \in Histories, Told(T)
  PROVE  \E U \in Histories : Told(U)'
<1>1. /\ published' = published \cup {s} /\ s \notin published
      /\ UNCHANGED <<cursors, sync, outdated, lives>>
  BY DEF Publish, workerVars
<1>2. TypeOK /\ RingInv /\ published \subseteq Sources /\ published' \subseteq Sources
  BY <1>1 DEF ExchangeInv, TypeOK
<1>3. CASE UNCHANGED nodeVars
  <2>1. ASSUME NEW n \in Nodes
        PROVE  History(T, n)' /\ RingTold(T, n)' /\ PageTold(T, n)' /\ Came(T, n)'
    <3>1. History(T, n) /\ RingTold(T, n) /\ PageTold(T, n) /\ Came(T, n)
      BY DEF Told
    <3>2. History(T, n)' /\ RingTold(T, n)'
      BY <1>1, <1>3, <3>1, StoresToldStay
    <3>3. Extends(T, T)
      BY DEF Extends
    <3>4. PageTold(T, n)'
      BY <1>1, <1>2, <3>1, <3>3, PageToldStays
    <3>5. Came(T, n)'
      BY <1>1, <3>1, <3>3, PassedStays, CameStays
    <3> QED
      BY <3>2, <3>4, <3>5
  <2> QED
    BY <2>1 DEF Told
<1>4. CASE Accept(s.node, s.msg, s.node, 0, MaxHops[s.node])
  <2> PICK n \in Nodes : n = s.node
    BY MessageFacts
  <2> PICK t \in Copies(published', n) : t = [source |-> s, way |-> <<s.node>>]
    BY <1>1, <1>2, FirstCopy
  <2>1. t.source = s /\ Len(t.way) = 1
    OBVIOUS
  <2>2. \A i \in DOMAIN T[n] : T[n][i] # t
    <3> SUFFICES ASSUME NEW i \in DOMAIN T[n] PROVE T[n][i].source # s
      BY <2>1
    <3>1. T[n][i] \in Copies(published, n)
      BY DEF Told, History
    <3>2. T[n][i].source \in published
      BY <1>2, <3>1, CopyKnown
    <3> QED
      BY <1>1, <3>2
  <2> PICK U : U = [T EXCEPT ![n] = Append(T[n], t)]
    OBVIOUS
  <2>3. AcceptsCopy(T, U, n, t, 0)
    BY <1>4, <2>1, <2>2 DEF AcceptsCopy
  <2>4. \A q \in Nodes : History(T, q) /\ RingTold(T, q) /\ PageTold(T, q) /\ Came(T, q)
    BY DEF Told
  <2>5. /\ U \in Histories /\ Extends(T, U)
        /\ \A q \in Nodes \ {n} : U[q] = T[q]
        /\ \A i \in DOMAIN U[n] : i \in DOMAIN T[n] \/ U[n][i] = t
        /\ \A q \in Nodes : History(U, q)' /\ RingTold(U, q)'
    <3>1. \A q \in Nodes : History(T, q) /\ RingTold(T, q)
      BY <2>4
    <3>2. published \subseteq published' /\ published' \subseteq Sources
      BY <1>1, <1>2
    <3> QED
      BY ONLY <1>2, <2>3, <3>1, <3>2, T \in Histories, n \in Nodes, AcceptTold
  <2>6. ASSUME NEW q \in Nodes PROVE PageTold(U, q)' /\ Came(U, q)'
    <3>1. PageTold(U, q)'
      BY <1>1, <1>2, <2>4, <2>5, PageToldStays
    <3>2. \A i \in DOMAIN U[q] : i \in DOMAIN T[q] \/ ~(Len(U[q][i].way) > 1)
      BY <2>1, <2>5
    <3>3. Came(U, q)'
      BY <1>1, <2>4, <2>5, <3>2, PassedStays, CameStays
    <3> QED
      BY <3>1, <3>3
  <2> QED
    BY <2>5, <2>6 DEF Told
<1> QED
  BY <1>3, <1>4 DEF Publish

\* A step of a worker that brings nothing in.
LEMMA WorkerTells ==
  ASSUME ExchangeInv, NEW n \in Nodes, NEW T \in Histories, Told(T),
         UNCHANGED <<published, nodeVars>>,
         \A q \in Nodes \ {n} : sync'[q] = sync[q] /\ cursors'[q] = cursors[q],
         PageTold(T, n)',
         \A p \in PeersOf(n) : \A c \in Nat : Passed(n, p, c) => Passed(n, p, c)'
  PROVE  Told(T)'
<1>1. TypeOK /\ Extends(T, T)
  BY DEF ExchangeInv, Extends
<1>2. ASSUME NEW q \in Nodes
      PROVE  History(T, q)' /\ RingTold(T, q)' /\ PageTold(T, q)' /\ Came(T, q)'
  <2>1. History(T, q) /\ RingTold(T, q) /\ PageTold(T, q) /\ Came(T, q)
    BY DEF Told
  <2>2. History(T, q)' /\ RingTold(T, q)'
    BY <2>1, StoresToldStay
  <2>3. PageTold(T, q)'
    BY <1>1, <2>1, PageToldStays
  <2>4. Came(T, q)'
    <3>1. CASE q = n
      BY <1>1, <2>1, <3>1, CameStays
    <3>2. CASE q # n
      BY <1>1, <2>1, <3>2, PassedStays, CameStays
    <3> QED
      BY <3>1, <3>2
  <2> QED
    BY <2>2, <2>3, <2>4
<1> QED
  BY <1>2 DEF Told

LEMMA PullTells ==
  ASSUME ExchangeInv, NEW n \in Nodes, Pull(n), NEW T \in Histories, Told(T)
  PROVE  Told(T)'
<1>1. TypeOK /\ RingInv
  BY DEF ExchangeInv
<1> PICK p \in PeersOf(n) : p = Peer(n)
  BY <1>1, SyncFacts
<1>2. p \in Nodes
  BY PeersFacts
<1> PICK after \in Nat : after = cursors[n][p]
  BY <1>1, SyncFacts
<1> DEFINE page == Page(p, n, after)
           entries == {OnTheWay(x) : x \in page}
           next == NextCursor(p, n, after)
           to == [sync[n] EXCEPT !.phase = "reply", !.next = next, !.entries = entries]
<1>3. /\ sync' = [sync EXCEPT ![n] = to] /\ sync[n].phase = "pull"
      /\ UNCHANGED <<published, nodeVars, cursors>>
  BY DEF Pull
<1>4. /\ page \subseteq Ring(p) /\ Ring(p) \subseteq Records
      /\ \A x \in page : after < x.cursor /\ x.cursor <= next
  BY <1>1, <1>2, PageFacts
<1> HIDE DEF page, next
<1>5. sync[n] \in SyncStates(n) /\ DOMAIN sync = Nodes
  BY <1>1, TypeParts DEF SyncTyped
<1>6. /\ to.entries = entries /\ to.next = next /\ to.peer = sync[n].peer
      /\ to.phase = "reply"
  BY <1>5 DEF SyncStates
<1> HIDE DEF to
<1>7. sync'[n] = to /\ \A q \in Nodes \ {n} : sync'[q] = sync[q]
  BY <1>3, <1>5
<1>8. /\ sync'[n].entries = entries /\ sync'[n].next = next
      /\ Peer(n)' = p /\ cursors'[n][p] = after
  BY <1>3, <1>6, <1>7 DEF Peer
<1>9. ASSUME NEW x \in page, NEW e, e = OnTheWay(x)
      PROVE  /\ after < e.cursor /\ e.cursor <= next /\ e.cursor \in DOMAIN T[p]
             /\ Stands(e, T[p][e.cursor]) /\ e.hop = Len(T[p][e.cursor].way)
  <2>1. x \in Ring(p) /\ x \in Records
    BY <1>4
  <2>2. /\ e.cursor = x.cursor /\ e.msg = x.msg /\ e.origin = x.origin /\ e.max = x.max
        /\ e.hop = x.hop + 1
    BY <1>9, <2>1 DEF OnTheWay, Records
  <2>3. x.cursor \in DOMAIN T[p]
    <3>1. Len(T[p]) = exchangeCursor[p] /\ DOMAIN T[p] = 1..Len(T[p])
      BY <1>2, HistoryFacts DEF Told, History
    <3>2. /\ 1 <= x.cursor /\ x.cursor <= exchangeCursor[p]
          /\ x.cursor \in Nat /\ exchangeCursor[p] \in Nat
      BY <1>1, <1>2, <2>1, RingFacts DEF RingInv
    <3> QED
      BY <3>1, <3>2
  <2>4. Stands(x, T[p][x.cursor]) /\ x.hop + 1 = Len(T[p][x.cursor].way)
    BY <1>2, <2>1 DEF Told, RingTold
  <2> QED
    BY <1>4, <2>2, <2>3, <2>4 DEF Stands
<1>10. PageTold(T, n)'
  <2>1. \A e \in entries :
          /\ after < e.cursor /\ e.cursor <= next /\ e.cursor \in DOMAIN T[p]
          /\ Stands(e, T[p][e.cursor]) /\ e.hop = Len(T[p][e.cursor].way)
    BY <1>9
  <2> HIDE DEF entries
  <2> QED
    BY <1>8, <2>1 DEF PageTold, Stands
<1>11. \A q \in PeersOf(n) : \A c \in Nat : Passed(n, q, c) => Passed(n, q, c)'
  BY <1>3 DEF Passed
<1> QED
  BY <1>3, <1>7, <1>10, <1>11, WorkerTells

\* The worker moves on: nothing of a page that was not pushed was passed.
LEMMA PullFailsTells ==
  ASSUME ExchangeInv, NEW n \in Nodes, PullFails(n), NEW T \in Histories, Told(T)
  PROVE  Told(T)'
<1>1. /\ sync' = MovedOn(n) /\ sync[n].phase = "reply"
      /\ UNCHANGED <<published, nodeVars, cursors>>
  BY DEF PullFails
<1>2. SyncTyped
  BY TypeParts DEF ExchangeInv
<1>3. sync'[n].phase = "pull" /\ \A q \in Nodes \ {n} : sync'[q] = sync[q]
  BY <1>1, <1>2 DEF MovedOn, Pulling, SyncTyped
<1>4. PageTold(T, n)'
  BY <1>3 DEF PageTold, Pushing
<1>5. \A q \in PeersOf(n) : \A c \in Nat : Passed(n, q, c) => Passed(n, q, c)'
  BY <1>1 DEF Passed
<1> QED
  BY <1>1, <1>3, <1>4, <1>5, WorkerTells

\* What a page brings is in no room that is locked.
LEMMA NothingForbidden ==
  ASSUME ExchangeInv, Undisturbed, NEW n \in Nodes, NEW T \in Histories, Told(T),
         Pushing(n), NEW e \in sync[n].entries
  PROVE  ~Forbidden(n, e)
<1>1. TypeOK
  BY DEF ExchangeInv
<1> PICK p \in Nodes : p = Peer(n)
  BY <1>1, SyncFacts
<1>2. e.cursor \in DOMAIN T[p] /\ e.msg = T[p][e.cursor].source.msg
  BY DEF Told, PageTold, Stands
<1>3. T[p][e.cursor] \in Copies(published, p)
  BY <1>2 DEF Told, History
<1>4. published \in SUBSET Sources
  BY <1>1 DEF TypeOK
<1>5. T[p][e.cursor].source \in published
  BY <1>3, <1>4, CopyKnown
<1> QED
  BY <1>2, <1>5 DEF Undisturbed, Unlocked, Forbidden

\* The cursor passes what was passed on the page.
LEMMA PushDoneTells ==
  ASSUME ExchangeInv, NEW n \in Nodes, PushDone(n), NEW T \in Histories, Told(T)
  PROVE  Told(T)'
<1>1. TypeOK /\ SyncTyped
  BY TypeParts DEF ExchangeInv
<1> PICK p \in PeersOf(n) : p = Peer(n)
  BY <1>1, SyncFacts
<1>2. p \in Nodes
  BY PeersFacts
<1> PICK next \in Nat : next = sync[n].next
  BY <1>1, SyncFacts
<1> PICK before \in Nat : before = cursors[n][p]
  BY <1>1, SyncFacts
<1> PICK after : after = Max({before, next})
  OBVIOUS
<1>3. after \in Nat /\ before <= after /\ next <= after
  <2>1. \E x \in {before, next} : \A y \in {before, next} : x >= y
    OBVIOUS
  <2>2. after \in {before, next} /\ \A y \in {before, next} : after >= y
    BY <2>1 DEF Max
  <2> QED
    BY <2>2
<1>4. /\ cursors' = [cursors EXCEPT ![n][p] = after]
      /\ sync' = MovedOn(n) /\ UNCHANGED <<published, nodeVars>>
  BY DEF PushDone
<1>5. cursors \in [Nodes -> [Nodes -> Nat]]
  BY <1>1 DEF TypeOK
<1>6. /\ sync'[n].phase = "pull" /\ cursors'[n][p] = after
      /\ \A q \in Nodes \ {n} : sync'[q] = sync[q] /\ cursors'[q] = cursors[q]
      /\ \A q \in Nodes \ {p} : cursors'[n][q] = cursors[n][q]
  BY <1>1, <1>2, <1>4, <1>5 DEF MovedOn, Pulling, SyncTyped
<1>7. PageTold(T, n)'
  BY <1>6 DEF PageTold, Pushing
<1>8. ASSUME NEW q \in PeersOf(n), NEW c \in Nat, Passed(n, q, c)
      PROVE  c <= cursors'[n][q]
  <2>1. q \in Nodes
    BY PeersFacts
  <2>2. CASE q = p
    <3>1. c <= before \/ c <= next
      BY <1>8, <2>2 DEF Passed
    <3> QED
      BY <1>3, <1>6, <2>2, <3>1
  <2>3. CASE q # p
    BY <1>6, <1>8, <2>1, <2>3 DEF Passed
  <2> QED
    BY <2>2, <2>3
<1>9. \A q \in PeersOf(n) : \A c \in Nat : Passed(n, q, c) => Passed(n, q, c)'
  BY <1>8 DEF Passed
<1> QED
  BY <1>4, <1>6, <1>7, <1>9, WorkerTells

\* The copy goes on from the peer: had n accepted it before, it would have
\* passed the peer's record.
LEMMA PushEntryTells ==
  ASSUME ExchangeInv, Undisturbed, NEW n \in Nodes, PushEntry(n), NEW T \in Histories, Told(T)
  PROVE  \E U \in Histories : Told(U)'
<1>1. TypeOK /\ RingInv /\ SyncTyped
  BY TypeParts DEF ExchangeInv
<1>2. sync[n].entries \subseteq Records /\ Stops(n) \subseteq sync[n].entries
  BY <1>1, SyncFacts DEF Stops
<1> PICK e \in Stops(n) : e = Stop(n) /\ \A f \in Stops(n) : e.cursor <= f.cursor
  BY <1>2, LeastCursor DEF Stop, PushEntry
<1> DEFINE rest == {f \in sync[n].entries : f.cursor > e.cursor}
           to == [sync[n] EXCEPT !.phase = "push", !.entries = rest]
<1>3. /\ Pushing(n) /\ Accept(n, e.msg, e.origin, e.hop, e.max) /\ ~Forbidden(n, e)
      /\ sync' = [sync EXCEPT ![n] = to] /\ UNCHANGED <<published, cursors>>
  BY DEF PushEntry
<1>4. e \in sync[n].entries /\ e.origin # n /\ e.hop < e.max
  BY <1>3 DEF Stops, Acceptable
<1>5. /\ rest \subseteq sync[n].entries /\ \A f \in rest : f.cursor > e.cursor
      /\ \A f \in sync[n].entries : f.cursor \in Nat
  BY <1>2 DEF Records
<1>6. sync[n] \in SyncStates(n) /\ DOMAIN sync = Nodes
  BY <1>1 DEF SyncTyped
<1> HIDE DEF rest
<1>7. /\ to.entries = rest /\ to.next = sync[n].next /\ to.peer = sync[n].peer
      /\ to.phase = "push"
  BY <1>6 DEF SyncStates
<1> HIDE DEF to
<1>8. /\ sync'[n] = to /\ \A q \in Nodes \ {n} : sync'[q] = sync[q]
      /\ \A q \in Nodes : cursors'[q] = cursors[q]
  BY <1>3, <1>6
<1> PICK p \in PeersOf(n) : p = Peer(n)
  BY <1>1, SyncFacts
<1>9. p \in Nodes /\ Peer(n)' = p
  BY <1>7, <1>8, PeersFacts DEF Peer
<1>10. \A q \in Nodes : History(T, q) /\ RingTold(T, q) /\ PageTold(T, q) /\ Came(T, q)
  BY DEF Told
<1>11. /\ cursors[n][p] < e.cursor /\ e.cursor <= sync[n].next /\ e.cursor \in DOMAIN T[p]
       /\ Stands(e, T[p][e.cursor]) /\ e.hop = Len(T[p][e.cursor].way)
  BY <1>3, <1>4, <1>10 DEF PageTold
<1> PICK u \in Copies(published, p) : u = T[p][e.cursor]
  BY <1>9, <1>10, <1>11 DEF History
<1>12. published \in SUBSET Sources /\ published' = published
  BY <1>1, <1>3 DEF TypeOK
<1>13. /\ Onward(u, n) \in Copies(published, n)
       /\ Len(Onward(u, n).way) = Len(u.way) + 1 /\ Onward(u, n).source = u.source
  BY <1>4, <1>11, <1>12, NextCopy DEF Stands
<1> PICK t \in Copies(published, n) : t = Onward(u, n)
  BY <1>13
<1>14. u \in Copy /\ Len(u.way) \in Nat /\ Len(u.way) > 0 /\ u.way[Len(u.way)] = p
  <2>1. u \in Copy /\ Len(u.way) > 0 /\ u.way[Len(u.way)] = p
    BY <1>9, <1>12, CopyKnown
  <2> QED
    BY <2>1, LenProperties DEF Copy
<1>15. \A i \in DOMAIN T[n] : T[n][i] # t
  <2> SUFFICES ASSUME NEW i \in DOMAIN T[n], T[n][i] = t PROVE FALSE
    OBVIOUS
  <2>1. Brought(T, n, t)
    BY <1>10, <1>13, <1>14 DEF Came
  <2> PICK q \in PeersOf(n) : \E c \in DOMAIN T[q] : t = Onward(T[q][c], n) /\ Passed(n, q, c)
    BY <2>1 DEF Brought
  <2> PICK c \in DOMAIN T[q] : t = Onward(T[q][c], n) /\ Passed(n, q, c)
    OBVIOUS
  <2>2. q \in Nodes
    BY PeersFacts
  <2>3. T[q][c] \in Copy /\ T[q][c] \in Copies(published, q)
    BY <1>10, <2>2, HistoryFacts DEF History
  <2>4. T[q][c] = u
    BY <1>14, <2>3, OnwardInjective
  <2>5. q = p
    BY <1>12, <1>14, <2>2, <2>3, <2>4, CopyKnown
  <2>6. c = e.cursor
    BY <1>9, <1>10, <1>11, <2>4, <2>5 DEF History
  <2>7. c <= cursors[n][p] \/ c < e.cursor
    BY <1>4, <2>5 DEF Passed
  <2>8. cursors[n][p] \in Nat /\ e.cursor \in Nat
    BY <1>1, <1>4, <1>5, SyncFacts
  <2> QED
    BY ONLY <1>11, <2>6, <2>7, <2>8
<1> PICK U : U = [T EXCEPT ![n] = Append(T[n], t)]
  OBVIOUS
<1> PICK hop \in Nat : hop = e.hop
  BY <1>2, <1>4 DEF Records
<1>16. AcceptsCopy(T, U, n, t, hop)
  <2>1. Accept(n, t.source.msg, t.source.node, hop, MaxHops[t.source.node])
    BY <1>3, <1>11, <1>13 DEF Stands
  <2>2. hop + 1 = Len(t.way)
    BY <1>11, <1>13
  <2> QED
    BY <1>12, <1>15, <2>1, <2>2 DEF AcceptsCopy
<1>17. /\ U \in Histories /\ Extends(T, U)
       /\ \A q \in Nodes \ {n} : U[q] = T[q]
       /\ \A i \in DOMAIN U[n] : i \in DOMAIN T[n] \/ U[n][i] = t
       /\ \A q \in Nodes : History(U, q)' /\ RingTold(U, q)'
  <2>1. \A q \in Nodes : History(T, q) /\ RingTold(T, q)
    BY <1>10
  <2>2. published \subseteq published' /\ published' \subseteq Sources
    BY <1>12
  <2> QED
    BY ONLY <1>1, <1>16, <2>1, <2>2, T \in Histories, n \in Nodes, AcceptTold
<1>18. ASSUME NEW q \in Nodes \ {n} PROVE PageTold(U, q)' /\ Came(U, q)'
  <2>1. PageTold(U, q)'
    BY <1>1, <1>8, <1>10, <1>17, PageToldStays
  <2>2. \A i \in DOMAIN U[q] : i \in DOMAIN T[q]
    BY <1>17
  <2>3. Came(U, q)'
    BY <1>8, <1>10, <1>17, <2>2, PassedStays, CameStays
  <2> QED
    BY <2>1, <2>3
<1>19. PageTold(U, n)'
  <2> SUFFICES ASSUME NEW f \in rest
               PROVE  /\ cursors[n][p] < f.cursor /\ f.cursor <= sync[n].next
                      /\ f.cursor \in DOMAIN U[p]
                      /\ Stands(f, U[p][f.cursor]) /\ f.hop = Len(U[p][f.cursor].way)
    BY <1>7, <1>8, <1>9 DEF PageTold, Stands
  <2>1. /\ cursors[n][p] < f.cursor /\ f.cursor <= sync[n].next /\ f.cursor \in DOMAIN T[p]
        /\ Stands(f, T[p][f.cursor]) /\ f.hop = Len(T[p][f.cursor].way)
    BY <1>3, <1>5, <1>10 DEF PageTold
  <2>2. f.cursor \in DOMAIN U[p] /\ U[p][f.cursor] = T[p][f.cursor]
    BY <1>9, <1>17, <2>1 DEF Extends
  <2> QED
    BY <2>1, <2>2
<1>20. Came(U, n)'
  <2>1. \A q \in PeersOf(n) : \A c \in Nat : Passed(n, q, c) => Passed(n, q, c)'
    BY <1>5, <1>7, <1>8, <1>9 DEF Passed
  <2>2. Brought(U, n, t)'
    <3>1. Passed(n, p, e.cursor)'
      BY <1>5, <1>7, <1>8, <1>9, <1>11 DEF Passed
    <3>2. e.cursor \in DOMAIN U[p] /\ U[p][e.cursor] = u
      BY <1>9, <1>11, <1>17 DEF Extends
    <3> QED
      BY <3>1, <3>2 DEF Brought
  <2>3. \A i \in DOMAIN U[n] : i \in DOMAIN T[n] \/ Brought(U, n, U[n][i])'
    BY <1>17, <2>2
  <2> QED
    BY <1>10, <1>17, <2>1, <2>3, CameStays
<1>21. \A q \in Nodes : PageTold(U, q)' /\ Came(U, q)'
  BY <1>18, <1>19, <1>20
<1>22. Told(U)'
  BY <1>17, <1>21 DEF Told
<1> QED
  BY <1>17, <1>22

-----------------------------------------------------------------------------
LEMMA FloodInitially == Init => FloodInv
<1> SUFFICES ASSUME Init PROVE \E T \in Histories : Told(T)
  BY DEF FloodInv
<1> DEFINE T == [n \in Nodes |-> << >>]
<1>1. T \in Histories
  BY DEF Histories
<1>2. ASSUME NEW n \in Nodes
      PROVE  History(T, n) /\ RingTold(T, n) /\ PageTold(T, n) /\ Came(T, n)
  <2>1. T[n] = << >> /\ Len(T[n]) = 0 /\ DOMAIN T[n] = {}
    OBVIOUS
  <2>2. exchangeCursor[n] = 0 /\ records[n] = << >> /\ sync[n].phase = "pull"
    BY DEF Init, Pulling
  <2>3. Ring(n) = {}
    BY <2>2 DEF Ring, ToSet
  <2> HIDE DEF T
  <2> QED
    BY <2>1, <2>2, <2>3 DEF History, RingTold, PageTold, Came, Pushing
<1> HIDE DEF T
<1> QED
  BY <1>1, <1>2 DEF Told

LEMMA FloodKeeps ==
  ASSUME ExchangeInv, ExchangeInv', FloodInv, [Next]_vars
  PROVE  FloodInv'
<1> SUFFICES ASSUME Undisturbed' PROVE \E U \in Histories : Told(U)'
  BY DEF FloodInv
<1>1. ~\E n \in Nodes : Restart(n)
  <2> SUFFICES ASSUME NEW n \in Nodes, Restart(n) PROVE FALSE
    OBVIOUS
  <2>1. lives'[n] = lives[n] + 1 /\ lives[n] \in Nat
    BY DEF Restart, ExchangeInv, TypeOK
  <2>2. lives'[n] = 0
    BY DEF Undisturbed
  <2> QED
    BY <2>1, <2>2
<1>2. published \subseteq published' /\ lives' = lives
  BY <1>1 DEF Next, Publish, Pull, PullFails, PushEntry, PushForbidden, PushDone, vars
<1>3. Undisturbed
  BY <1>2, WasUndisturbed
<1> PICK T \in Histories : Told(T)
  BY <1>3 DEF FloodInv
<1>4. CASE \E s \in Sources : Publish(s)
  BY <1>4, PublishTells
<1>5. CASE \E n \in Nodes : Pull(n)
  BY <1>5, PullTells
<1>6. CASE \E n \in Nodes : PullFails(n)
  BY <1>6, PullFailsTells
<1>7. CASE \E n \in Nodes : PushForbidden(n)
  <2> PICK n \in Nodes : PushForbidden(n)
    BY <1>7
  <2>1. Pushing(n) /\ Stops(n) # {} /\ Forbidden(n, Stop(n)) /\ Stops(n) \subseteq sync[n].entries
    BY DEF PushForbidden, Stops
  <2>2. Stop(n) \in Stops(n)
    <3>1. sync[n].entries \subseteq Records
      BY SyncFacts DEF ExchangeInv
    <3> QED
      BY <2>1, <3>1, LeastCursor DEF Stop
  <2> QED
    BY <1>3, <2>1, <2>2, NothingForbidden
<1>8. CASE \E n \in Nodes : PushEntry(n)
  BY <1>3, <1>8, PushEntryTells
<1>9. CASE \E n \in Nodes : PushDone(n)
  BY <1>9, PushDoneTells
<1>10. CASE UNCHANGED vars
  <2>1. UNCHANGED <<published, nodeVars, cursors, sync>>
    BY <1>10 DEF vars, workerVars
  <2>2. \A n \in Nodes : History(T, n) /\ RingTold(T, n) /\ PageTold(T, n) /\ Came(T, n)
    BY DEF Told
  <2>3. TypeOK /\ Extends(T, T)
    BY DEF ExchangeInv, Extends
  <2>4. ASSUME NEW n \in Nodes
        PROVE  History(T, n)' /\ RingTold(T, n)' /\ PageTold(T, n)' /\ Came(T, n)'
    BY <2>1, <2>2, <2>3, StoresToldStay, PageToldStays, PassedStays, CameStays
  <2> QED
    BY <2>4 DEF Told
<1> QED
  BY <1>1, <1>4, <1>5, <1>6, <1>7, <1>8, <1>9, <1>10 DEF Next

\* Copies die out although rooms forget messages and then take them in again:
\* a relay accepts a message at most once per way from its origin that the hop
\* limit allows (handleCacheExchangePush, selectCacheExchangeEntries).
THEOREM FloodEnds == Spec => []FloodIsFinite
<1>1. ExchangeInv /\ FloodInv => FloodIsFinite
  <2> SUFFICES ASSUME ExchangeInv, FloodInv, Undisturbed, NEW n \in Nodes
               PROVE  exchangeCursor[n] <= Cardinality(Copies(published, n))
    BY DEF FloodIsFinite
  <2> PICK T \in Histories : Told(T)
    BY DEF FloodInv
  <2> PICK k \in Nat : k = Len(T[n])
    BY HistoryFacts
  <2>1. published \in SUBSET Sources
    BY DEF ExchangeInv, TypeOK
  <2>2. /\ T[n] \in Seq(Copy) /\ k = exchangeCursor[n] /\ DOMAIN T[n] = 1..k
        /\ \A i \in 1..k : T[n][i] \in Copies(published, n)
        /\ \A i, j \in 1..k : T[n][i] = T[n][j] => i = j
    BY HistoryFacts DEF Told, History
  <2> DEFINE f == [i \in 1..k |-> T[n][i]]
  <2>3. f \in Injection(1..k, Copies(published, n))
    <3>1. f \in [1..k -> Copies(published, n)]
      BY <2>2
    <3>2. \A i, j \in DOMAIN f : f[i] = f[j] => i = j
      BY <2>2
    <3> HIDE DEF f
    <3> QED
      BY <3>1, <3>2 DEF Injection, IsInjective
  <2>4. Cardinality(1..k) = k
    <3>1. \A l \in Int : Cardinality(1..l) = IF 1 > l THEN 0 ELSE l - 1 + 1
      BY FS_Interval
    <3>2. Cardinality(1..k) = IF 1 > k THEN 0 ELSE k - 1 + 1
      BY <3>1
    <3> QED
      BY <3>2
  <2>5. IsFiniteSet(Copies(published, n))
    BY <2>1, CopiesFinite
  <2> HIDE DEF f
  <2>6. Cardinality(1..k) <= Cardinality(Copies(published, n))
    BY <2>3, <2>5, FS_Injection
  <2> QED
    BY <2>2, <2>4, <2>6
<1>2. ExchangeInv /\ ExchangeInv' /\ FloodInv /\ [Next]_vars => FloodInv'
  BY FloodKeeps
<1> QED
  BY <1>1, <1>2, FloodInitially, Inductive, PTL DEF Spec
=============================================================================
