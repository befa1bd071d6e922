------------------------ MODULE GitServeSession_proofs ------------------------
(***************************************************************************)
(* For any number of requests, polls, respond calls and registrations, in   *)
(* either deployment.                                                      *)
(***************************************************************************)
EXTENDS GitServeSession, SequenceTheorems, TLAPS

\* How often a promise was resolved follows from what its client has seen.
SettlesMatchClients ==
  \A r \in Requests :
    settles[r] = IF client[r] \in {"ok", "denied", "closed", "timeout"} THEN 1 ELSE 0

\* An active session has a timer that will close it.
ActiveIsTimed == active <=> ttlArmed

\* Everything the safety invariants need about each other.
SessionInv ==
  /\ TypeOK
  /\ WaitingIsTracked
  /\ SettlesMatchClients
  /\ WaitersAreTracked
  /\ NoLostWakeup
  /\ AckMeansDelivered
  /\ EventsMatchVerdicts
  /\ ActiveIsTimed

\* Names of single expressions are expanded everywhere.
USE DEF Armed, Disarmed, Answerable, Outstanding, Announces

-----------------------------------------------------------------------------
(* The queue of waiters *)

LEMMA HeadLeaves ==
  ASSUME NEW S, NEW s \in Seq(S), s # << >>, IsInjective(s)
  PROVE  /\ Head(s) \in S
         /\ Tail(s) \in Seq(S)
         /\ ToSet(Tail(s)) = ToSet(s) \ {Head(s)}
         /\ IsInjective(Tail(s))
         /\ Head(s) \in ToSet(s)
<1>1. /\ Tail(s) \in Seq(S)
      /\ Head(s) = s[1]
      /\ Len(s) > 0
      /\ Len(Tail(s)) = Len(s) - 1
      /\ \A i \in 1..Len(Tail(s)) : Tail(s)[i] = s[i + 1]
  BY HeadTailProperties
<1>2. DOMAIN s = 1..Len(s) /\ DOMAIN Tail(s) = 1..(Len(s) - 1)
  BY <1>1
<1>3. ToSet(Tail(s)) \subseteq ToSet(s) \ {Head(s)}
  BY <1>1, <1>2 DEF ToSet, IsInjective
<1>4. ToSet(s) \ {Head(s)} \subseteq ToSet(Tail(s))
  <2> SUFFICES ASSUME NEW i \in DOMAIN s, s[i] # Head(s)
               PROVE  \E j \in DOMAIN Tail(s) : Tail(s)[j] = s[i]
    BY DEF ToSet
  <2>1. i - 1 \in DOMAIN Tail(s)
    BY <1>1, <1>2
  <2>2. Tail(s)[i - 1] = s[i]
    BY <1>1, <1>2, <2>1
  <2> QED
    BY <2>1, <2>2
<1>5. IsInjective(Tail(s))
  BY <1>1, <1>2 DEF IsInjective
<1>6. Head(s) \in S /\ Head(s) \in ToSet(s)
  BY <1>1, <1>2 DEF ToSet
<1> QED
  BY <1>1, <1>3, <1>4, <1>5, <1>6

LEMMA AppendedAtEnd ==
  ASSUME NEW S, NEW s \in Seq(S), NEW e \in S, IsInjective(s), e \notin ToSet(s)
  PROVE  /\ Append(s, e) \in Seq(S)
         /\ ToSet(Append(s, e)) = ToSet(s) \cup {e}
         /\ IsInjective(Append(s, e))
         /\ Append(s, e) # << >>
<1>1. /\ Append(s, e) \in Seq(S)
      /\ Append(s, e) # << >>
      /\ Len(Append(s, e)) = Len(s) + 1
      /\ \A i \in 1..Len(s) : Append(s, e)[i] = s[i]
      /\ Append(s, e)[Len(s) + 1] = e
  BY AppendProperties
<1>2. DOMAIN s = 1..Len(s) /\ DOMAIN Append(s, e) = 1..(Len(s) + 1) /\ Len(s) \in Nat
  BY <1>1
<1>3. ToSet(Append(s, e)) = ToSet(s) \cup {e}
  <2>1. ToSet(Append(s, e)) \subseteq ToSet(s) \cup {e}
    BY <1>1, <1>2 DEF ToSet
  <2>2. ToSet(s) \cup {e} \subseteq ToSet(Append(s, e))
    <3>1. ASSUME NEW i \in DOMAIN s PROVE s[i] \in ToSet(Append(s, e))
      BY <1>1, <1>2 DEF ToSet
    <3>2. e \in ToSet(Append(s, e))
      BY <1>1, <1>2 DEF ToSet
    <3> QED
      BY <3>1, <3>2 DEF ToSet
  <2> QED
    BY <2>1, <2>2
<1>4. IsInjective(Append(s, e))
  BY <1>1, <1>2 DEF IsInjective, ToSet
<1> QED
  BY <1>1, <1>3, <1>4

LEMMA SplicedOut ==
  ASSUME NEW S, NEW s \in Seq(S), IsInjective(s), NEW i \in DOMAIN s
  PROVE  /\ RemoveAt(s, i) \in Seq(S)
         /\ ToSet(RemoveAt(s, i)) = ToSet(s) \ {s[i]}
         /\ IsInjective(RemoveAt(s, i))
<1> DEFINE n == Len(s)
           a == SubSeq(s, 1, i - 1)
           b == SubSeq(s, i + 1, n)
           t == RemoveAt(s, i)
<1>1. DOMAIN s = 1..n /\ n \in Nat /\ i \in 1..n
  OBVIOUS
<1>2. a \in Seq(S) /\ Len(a) = i - 1 /\ \A j \in 1..(i - 1) : a[j] = s[j]
  BY <1>1, SubSeqProperties
<1>3. b \in Seq(S) /\ Len(b) = n - i /\ \A j \in 1..(n - i) : b[j] = s[i + j]
  BY <1>1, SubSeqProperties
<1>4. /\ t \in Seq(S) /\ Len(t) = n - 1
      /\ \A j \in 1..(n - 1) : t[j] = IF j < i THEN s[j] ELSE s[j + 1]
  <2>1. t = a \o b
    BY DEF RemoveAt
  <2> HIDE DEF a, b, t
  <2>1a. a \in Seq(S) /\ b \in Seq(S)
    BY <1>2, <1>3
  <2>1b. /\ t \in Seq(S) /\ Len(t) = Len(a) + Len(b)
         /\ \A j \in 1..(Len(a) + Len(b)) :
              t[j] = IF j <= Len(a) THEN a[j] ELSE b[j - Len(a)]
    BY ONLY <2>1, <2>1a, ConcatProperties
  <2> HIDE DEF n
  <2>1c. Len(a) = i - 1 /\ Len(a) + Len(b) = n - 1
    BY ONLY <1>1, <1>2, <1>3
  <2>2. t \in Seq(S) /\ Len(t) = n - 1
    BY <2>1b, <2>1c
  <2>3. ASSUME NEW j \in 1..(n - 1)
        PROVE  t[j] = IF j < i THEN s[j] ELSE s[j + 1]
    <3>1. t[j] = IF j <= Len(a) THEN a[j] ELSE b[j - Len(a)]
      BY <2>1b, <2>1c
    <3>2. n \in Nat /\ i \in 1..n
      BY <1>1
    <3>3. CASE j < i
      <4>1. j \in 1..(i - 1) /\ j <= Len(a)
        BY <1>2, <3>2, <3>3
      <4> QED
        BY <1>2, <3>1, <3>3, <4>1
    <3>4. CASE ~(j < i)
      <4>1. /\ j - (i - 1) \in 1..(n - i) /\ ~(j <= Len(a))
            /\ j - Len(a) = j - (i - 1) /\ i + (j - (i - 1)) = j + 1
        BY <1>2, <3>2, <3>4
      <4>2. b[j - (i - 1)] = s[i + (j - (i - 1))]
        BY <1>3, <4>1
      <4> QED
        BY <3>1, <3>4, <4>1, <4>2
    <3> QED
      BY <3>3, <3>4
  <2> QED
    BY <2>2, <2>3
<1> HIDE DEF t, a, b
<1>5. DOMAIN t = 1..(n - 1)
  BY <1>4
<1>6. ToSet(t) \subseteq ToSet(s) \ {s[i]}
  BY <1>1, <1>4, <1>5 DEF ToSet, IsInjective
<1>7. ToSet(s) \ {s[i]} \subseteq ToSet(t)
  <2> SUFFICES ASSUME NEW k \in DOMAIN s, s[k] # s[i]
               PROVE  \E j \in DOMAIN t : t[j] = s[k]
    BY DEF ToSet
  <2>1. CASE k < i
    BY <1>1, <1>4, <1>5, <2>1
  <2>2. CASE k > i
    <3>1. k - 1 \in DOMAIN t /\ t[k - 1] = s[k]
      BY <1>1, <1>4, <1>5, <2>2
    <3> QED
      BY <3>1
  <2> QED
    BY <1>1, <2>1, <2>2
<1>8. IsInjective(t)
  <2> SUFFICES ASSUME NEW j \in DOMAIN t, NEW k \in DOMAIN t, t[j] = t[k]
               PROVE  j = k
    BY DEF IsInjective
  <2> DEFINE from(m) == IF m < i THEN m ELSE m + 1
  <2>1. from(j) \in DOMAIN s /\ from(k) \in DOMAIN s
    BY <1>1, <1>5
  <2>2. s[from(j)] = s[from(k)]
    BY <1>1, <1>4, <1>5
  <2>3. from(j) = from(k)
    BY <2>1, <2>2 DEF IsInjective
  <2> QED
    BY <1>1, <1>5, <2>3
<1>9. t \in Seq(S) /\ ToSet(t) = ToSet(s) \ {s[i]} /\ IsInjective(t)
  BY <1>4, <1>6, <1>7, <1>8
<1>10. t = RemoveAt(s, i)
  BY DEF t
<1> QED
  BY <1>9, <1>10

-----------------------------------------------------------------------------
(* The invariant *)

\* A request that is queued keeps every promise tracked and leaves no poll
\* waiting that has not seen it.
LEMMA EnqueueKeepsInv ==
  ASSUME SessionInv, NEW r \in Requests, client[r] \in {"new", "reading"},
         Enqueue(r), UNCHANGED <<sessionVars, daemonVars>>
  PROVE  SessionInv'
<1> USE SessionAssumption DEF SessionAssumption
<1>0. /\ TypeOK /\ WaitingIsTracked /\ SettlesMatchClients /\ WaitersAreTracked
      /\ NoLostWakeup /\ AckMeansDelivered /\ EventsMatchVerdicts /\ ActiveIsTimed
  BY DEF SessionInv
<1>1. /\ client' = [client EXCEPT ![r] = "waiting"]
      /\ pending' = pending \cup {r}
      /\ settles' = settles /\ stranded' = stranded /\ events' = events
      /\ active' = active /\ token' = token /\ ttlArmed' = ttlArmed
      /\ lastToken' = lastToken /\ registering' = registering
      /\ issued' = issued /\ stored' = stored
      /\ responder' = responder /\ acked' = acked
  BY DEF Enqueue, sessionVars, daemonVars
<1>2. /\ waiters' \in Seq(Pollers) /\ IsInjective(waiters')
      /\ poller' \in [Pollers -> {"idle", "open", "gone"}]
      /\ timers' = (timers \cup {r}) \ (Pollers \ ToSet(waiters'))
      /\ ToSet(waiters') = {p \in Pollers : poller'[p] # "idle"}
      /\ waiters' # << >> => pending' \subseteq handed'
      /\ handed' \subseteq Requests /\ known' \subseteq Requests
      /\ ToSet(waiters') \subseteq ToSet(waiters)
  <2>1. CASE waiters = << >>
    BY <1>0, <1>1, <2>1 DEF Enqueue, TypeOK, WaitersAreTracked
  <2>2. CASE waiters # << >>
    <3> DEFINE p == Head(waiters)
    <3>1. /\ p \in Pollers /\ Tail(waiters) \in Seq(Pollers)
          /\ ToSet(Tail(waiters)) = ToSet(waiters) \ {p}
          /\ IsInjective(Tail(waiters)) /\ p \in ToSet(waiters)
      BY <1>0, <2>2, HeadLeaves DEF TypeOK, WaitersAreTracked
    <3>2. /\ timers' = (timers \cup {r}) \ {p}
          /\ waiters' = Tail(waiters)
          /\ poller' = [poller EXCEPT ![p] = "idle"]
          /\ handed' = handed \cup pending'
          /\ known' \in {known, known \cup pending'}
      BY <2>2 DEF Enqueue, Deliver
    <3> HIDE DEF p
    <3> QED
      BY <1>0, <1>1, <3>1, <3>2 DEF TypeOK, WaitersAreTracked
  <2> QED
    BY <2>1, <2>2
<1>3. TypeOK'
  BY <1>0, <1>1, <1>2 DEF TypeOK, Open
<1>4. WaitingIsTracked'
  BY <1>0, <1>1, <1>2 DEF TypeOK, WaitingIsTracked
<1>5. SettlesMatchClients'
  BY <1>0, <1>1 DEF TypeOK, SettlesMatchClients
<1>6. WaitersAreTracked'
  BY <1>0, <1>1, <1>2 DEF TypeOK, WaitersAreTracked
<1>7. NoLostWakeup'
  BY <1>2 DEF NoLostWakeup
<1>8. AckMeansDelivered' /\ ActiveIsTimed'
  BY <1>0, <1>1 DEF TypeOK, AckMeansDelivered, ActiveIsTimed
<1>9. EventsMatchVerdicts'
  BY <1>0, <1>1 DEF TypeOK, EventsMatchVerdicts, WaitingIsTracked, HasIncomingRefs
<1> QED
  BY <1>3, <1>4, <1>5, <1>6, <1>7, <1>8, <1>9 DEF SessionInv

\* Closing a session answers everything that waits in it.
LEMMA SessionTimeoutKeepsInv ==
  ASSUME SessionInv, SessionTimeout PROVE SessionInv'
<1> USE SessionAssumption DEF SessionAssumption
<1>0. /\ TypeOK /\ WaitingIsTracked /\ SettlesMatchClients /\ WaitersAreTracked
      /\ NoLostWakeup /\ AckMeansDelivered /\ EventsMatchVerdicts /\ ActiveIsTimed
  BY DEF SessionInv
<1>1. /\ client' = [r \in Requests |->
                     IF r \in pending /\ client[r] \in Open THEN "closed" ELSE client[r]]
      /\ settles' = [r \in Requests |-> settles[r] + (IF r \in pending THEN 1 ELSE 0)]
      /\ pending' = {} /\ waiters' = << >>
      /\ poller' = [p \in Pollers |-> IF p \in ToSet(waiters) THEN "idle" ELSE poller[p]]
      /\ timers' = timers \ (pending \cup ToSet(waiters))
      /\ active' = FALSE /\ ttlArmed' = FALSE
      /\ ttlArmed
      /\ token' = token /\ lastToken' = lastToken /\ registering' = registering
      /\ issued' = issued /\ stored' = stored
      /\ stranded' = stranded /\ events' = events /\ handed' = handed /\ known' = known
      /\ responder' = responder /\ acked' = acked
  BY DEF SessionTimeout, Cleanup, Settle, daemonVars
<1>2. ToSet(waiters') = {} /\ IsInjective(waiters') /\ waiters' \in Seq(Pollers)
  BY <1>1 DEF ToSet, IsInjective
<1>3. timers' = {}
  BY <1>0, <1>1 DEF TypeOK, WaitingIsTracked, WaitersAreTracked
<1>4. TypeOK'
  <2>1. token \in Tokens
    BY <1>0, <1>1 DEF TypeOK, ActiveIsTimed, Tokens
  <2>2. /\ client' \in [Requests -> Open \cup Answers]
        /\ settles' \in [Requests -> Nat]
        /\ poller' \in [Pollers -> {"idle", "open", "gone"}]
    BY <1>0, <1>1 DEF TypeOK, Answers
  <2> QED
    BY <1>0, <1>1, <1>2, <1>3, <2>1, <2>2 DEF TypeOK
<1>5. WaitingIsTracked'
  BY <1>0, <1>1, <1>3 DEF TypeOK, WaitingIsTracked, Open
<1>6. SettlesMatchClients'
  BY <1>0, <1>1 DEF TypeOK, SettlesMatchClients, WaitingIsTracked, Open
<1>7. WaitersAreTracked' /\ NoLostWakeup'
  BY <1>0, <1>1, <1>2, <1>3 DEF TypeOK, WaitersAreTracked, NoLostWakeup
<1>8. AckMeansDelivered' /\ ActiveIsTimed'
  BY <1>0, <1>1 DEF TypeOK, AckMeansDelivered, ActiveIsTimed, Open
<1>9. EventsMatchVerdicts'
  BY <1>0, <1>1 DEF TypeOK, EventsMatchVerdicts, WaitingIsTracked, HasIncomingRefs, Open
<1> QED
  BY <1>4, <1>5, <1>6, <1>7, <1>8, <1>9 DEF SessionInv

\* A restart forgets queue, polls and timers together.
LEMMA RestartKeepsInv ==
  ASSUME SessionInv, Restart PROVE SessionInv'
<1> USE SessionAssumption DEF SessionAssumption
<1>0. /\ TypeOK /\ WaitingIsTracked /\ SettlesMatchClients /\ WaitersAreTracked
      /\ NoLostWakeup /\ AckMeansDelivered /\ EventsMatchVerdicts /\ ActiveIsTimed
  BY DEF SessionInv
<1>2. ToSet(waiters') = {} /\ IsInjective(waiters') /\ waiters' \in Seq(Pollers)
  BY DEF Restart, ToSet, IsInjective
<1>4. TypeOK'
  BY <1>0, <1>2 DEF TypeOK, Answers, Tokens, Restart, Persistable
<1>5. WaitingIsTracked'
  BY <1>0 DEF TypeOK, WaitingIsTracked, Restart
<1>6. SettlesMatchClients'
  BY <1>0 DEF TypeOK, SettlesMatchClients, Restart
<1>7. WaitersAreTracked' /\ NoLostWakeup'
  BY <1>0, <1>2 DEF TypeOK, WaitersAreTracked, NoLostWakeup, Restart
<1>8. AckMeansDelivered' /\ ActiveIsTimed'
  BY <1>0 DEF TypeOK, AckMeansDelivered, ActiveIsTimed, Restart
<1>9. EventsMatchVerdicts'
  BY <1>0 DEF TypeOK, EventsMatchVerdicts, WaitingIsTracked, HasIncomingRefs, Restart
<1> QED
  BY <1>4, <1>5, <1>6, <1>7, <1>8, <1>9 DEF SessionInv

\* A request timeout finds its request pending, so it is the first to answer.
LEMMA RequestTimeoutKeepsInv ==
  ASSUME SessionInv, NEW r \in Requests, RequestTimeout(r) PROVE SessionInv'
<1> USE SessionAssumption DEF SessionAssumption
<1>0. /\ TypeOK /\ WaitingIsTracked /\ SettlesMatchClients /\ WaitersAreTracked
      /\ NoLostWakeup /\ AckMeansDelivered /\ EventsMatchVerdicts /\ ActiveIsTimed
  BY DEF SessionInv
<1>1. /\ r \in pending /\ client[r] = "waiting"
      /\ timers' = timers \ {r} /\ pending' = pending \ {r}
      /\ client' = [q \in Requests |->
                     IF q \in {r} /\ client[q] \in Open THEN "timeout" ELSE client[q]]
      /\ settles' = [q \in Requests |-> settles[q] + (IF q \in {r} THEN 1 ELSE 0)]
      /\ stranded' = stranded /\ events' = events
      /\ waiters' = waiters /\ poller' = poller /\ handed' = handed /\ known' = known
      /\ active' = active /\ token' = token /\ ttlArmed' = ttlArmed
      /\ lastToken' = lastToken /\ registering' = registering
      /\ issued' = issued /\ stored' = stored
      /\ responder' = responder /\ acked' = acked
  BY <1>0 DEF RequestTimeout, Settle, WaitingIsTracked, sessionVars, daemonVars
<1>2. /\ client'[r] = "timeout" /\ settles'[r] = settles[r] + 1
      /\ \A q \in Requests \ {r} : client'[q] = client[q] /\ settles'[q] = settles[q]
  BY <1>0, <1>1 DEF TypeOK, Open
<1>4. TypeOK'
  BY <1>0, <1>1 DEF TypeOK, Answers
<1>5. WaitingIsTracked'
  BY <1>0, <1>1, <1>2 DEF TypeOK, WaitingIsTracked
<1>6. SettlesMatchClients'
  BY <1>0, <1>1, <1>2 DEF TypeOK, SettlesMatchClients
<1>7. WaitersAreTracked' /\ NoLostWakeup'
  BY <1>0, <1>1 DEF TypeOK, WaitersAreTracked, NoLostWakeup
<1>8. AckMeansDelivered' /\ ActiveIsTimed'
  BY <1>0, <1>1, <1>2 DEF TypeOK, AckMeansDelivered, ActiveIsTimed
<1>9. EventsMatchVerdicts'
  BY <1>0, <1>1, <1>2 DEF TypeOK, EventsMatchVerdicts, WaitingIsTracked, HasIncomingRefs
<1> QED
  BY <1>4, <1>5, <1>6, <1>7, <1>8, <1>9 DEF SessionInv

\* The first half of a respond call and everything a poll does.
LEMMA PollKeepsInv ==
  ASSUME SessionInv, NEW p \in Pollers, Poll(p) PROVE SessionInv'
<1> USE SessionAssumption DEF SessionAssumption
<1>0. /\ TypeOK /\ WaitingIsTracked /\ SettlesMatchClients /\ WaitersAreTracked
      /\ NoLostWakeup /\ AckMeansDelivered /\ EventsMatchVerdicts /\ ActiveIsTimed
  BY DEF SessionInv
<1>1. /\ UNCHANGED <<active, token, ttlArmed, lastToken, registering, issued, stored>>
      /\ UNCHANGED <<client, settles, pending, stranded, events, responder, acked>>
      /\ poller[p] = "idle"
  BY DEF Poll, sessionVars, clientVars, daemonVars
<1>2. CASE pending # {} /\ Deliver(p, pending) /\ UNCHANGED <<waiters, poller, timers>>
  <2>1. /\ handed' = handed \cup pending /\ known' \in {known, known \cup pending}
        /\ waiters' = waiters /\ poller' = poller /\ timers' = timers
    BY <1>2 DEF Deliver
  <2> QED
    BY <1>0, <1>1, <2>1 DEF SessionInv, TypeOK, WaitingIsTracked, SettlesMatchClients,
       WaitersAreTracked, NoLostWakeup, AckMeansDelivered, EventsMatchVerdicts,
       ActiveIsTimed, HasIncomingRefs
<1>3. CASE /\ pending = {}
           /\ waiters' = Append(waiters, p)
           /\ poller' = [poller EXCEPT ![p] = "open"]
           /\ timers' = timers \cup {p}
           /\ UNCHANGED <<handed, known>>
  <2>1. /\ waiters' \in Seq(Pollers) /\ IsInjective(waiters')
        /\ ToSet(waiters') = ToSet(waiters) \cup {p}
    <3>1. p \notin ToSet(waiters)
      BY <1>0, <1>1 DEF WaitersAreTracked
    <3> QED
      BY <1>0, <1>3, <3>1, AppendedAtEnd DEF TypeOK, WaitersAreTracked
  <2>2. TypeOK' /\ WaitingIsTracked'
    BY <1>0, <1>1, <1>3, <2>1 DEF TypeOK, WaitingIsTracked
  <2>3. WaitersAreTracked' /\ NoLostWakeup'
    BY <1>0, <1>1, <1>3, <2>1 DEF TypeOK, WaitersAreTracked, NoLostWakeup
  <2> QED
    BY <1>0, <1>1, <2>2, <2>3 DEF SessionInv, SettlesMatchClients, AckMeansDelivered,
       EventsMatchVerdicts, ActiveIsTimed, HasIncomingRefs
<1> QED
  BY <1>2, <1>3 DEF Poll

\* A poll timeout takes its own waiter out of the queue, wherever it stands.
LEMMA PollTimeoutKeepsInv ==
  ASSUME SessionInv, NEW p \in Pollers, PollTimeout(p) PROVE SessionInv'
<1> USE SessionAssumption DEF SessionAssumption
<1>0. /\ TypeOK /\ WaitingIsTracked /\ SettlesMatchClients /\ WaitersAreTracked
      /\ NoLostWakeup /\ AckMeansDelivered /\ EventsMatchVerdicts /\ ActiveIsTimed
  BY DEF SessionInv
<1>1. /\ UNCHANGED <<active, token, ttlArmed, lastToken, registering, issued, stored>>
      /\ UNCHANGED <<client, settles, pending, stranded, events, responder, acked>>
      /\ UNCHANGED <<handed, known>>
      /\ timers' = timers \ {p} /\ p \in ToSet(waiters)
      /\ poller' = [poller EXCEPT ![p] = "idle"]
  BY <1>0 DEF PollTimeout, sessionVars, clientVars, daemonVars, WaitersAreTracked
<1>2. PICK i \in DOMAIN waiters : waiters[i] = p /\ waiters' = RemoveAt(waiters, i)
  BY <1>1 DEF PollTimeout
<1>3. /\ waiters' \in Seq(Pollers) /\ IsInjective(waiters')
      /\ ToSet(waiters') = ToSet(waiters) \ {p}
  BY <1>0, <1>2, SplicedOut DEF TypeOK, WaitersAreTracked
<1>4. waiters # << >>
  BY <1>1 DEF ToSet
<1>5. TypeOK' /\ WaitingIsTracked'
  BY <1>0, <1>1, <1>3 DEF TypeOK, WaitingIsTracked
<1>6. WaitersAreTracked' /\ NoLostWakeup'
  BY <1>0, <1>1, <1>3, <1>4 DEF TypeOK, WaitersAreTracked, NoLostWakeup
<1> QED
  BY <1>0, <1>1, <1>5, <1>6 DEF SessionInv, SettlesMatchClients, AckMeansDelivered,
     EventsMatchVerdicts, ActiveIsTimed, HasIncomingRefs

\* A respond call finds its request pending and is the first to answer, or
\* changes nothing.
LEMMA RespondBodyKeepsInv ==
  ASSUME SessionInv, NEW x \in Responders, NEW body \in Bodies, RespondBody(x, body)
  PROVE  SessionInv'
<1> USE SessionAssumption DEF SessionAssumption
<1> DEFINE r == responder[x]
<1>0. /\ TypeOK /\ WaitingIsTracked /\ SettlesMatchClients /\ WaitersAreTracked
      /\ NoLostWakeup /\ AckMeansDelivered /\ EventsMatchVerdicts /\ ActiveIsTimed
  BY DEF SessionInv
<1>1. /\ UNCHANGED <<active, token, ttlArmed, lastToken, registering, issued, stored>>
      /\ UNCHANGED <<waiters, poller, handed, known>>
      /\ r \in Requests
      /\ responder' = [responder EXCEPT ![x] = NoRequest]
      /\ responder' \in [Responders -> Requests \cup {NoRequest}]
  BY <1>0 DEF RespondBody, sessionVars, TypeOK
<1>2. CASE body = "badJson" \/ r \notin pending
  <2>1. UNCHANGED <<client, settles, pending, stranded, events, timers, acked>>
    BY <1>2 DEF RespondBody, clientVars
  <2> QED
    BY <1>0, <1>1, <2>1 DEF SessionInv, TypeOK, WaitingIsTracked, SettlesMatchClients,
       WaitersAreTracked, NoLostWakeup, AckMeansDelivered, EventsMatchVerdicts,
       ActiveIsTimed, HasIncomingRefs
<1>3. CASE body # "badJson" /\ r \in pending
  <2> DEFINE announces == /\ HasListener /\ HasIncomingRefs(r)
                          /\ body # "undecodable"
                          /\ (body = "nullBody" \/ FinalVerdict(r, body) = "ok")
  <2>1. /\ pending' = pending \ {r} /\ timers' = timers \ {r}
        /\ events' = [events EXCEPT ![r] = @ + (IF announces THEN 1 ELSE 0)]
    BY <1>3 DEF RespondBody
  <2>2. client[r] = "waiting" /\ r \notin stranded /\ events[r] = 0 /\ settles[r] = 0
    <3>1. client[r] = "waiting" /\ r \notin stranded
      BY <1>0, <1>1, <1>3 DEF WaitingIsTracked
    <3>2. settles[r] = 0
      BY <1>0, <1>1, <3>1 DEF SettlesMatchClients
    <3>3. events[r] \in Nat /\ events[r] <= 1 /\ events[r] # 1
      BY <1>0, <1>1, <3>1 DEF TypeOK, EventsMatchVerdicts
    <3> QED
      BY <3>1, <3>2, <3>3
  <2>3. FinalVerdict(r, body) \in {"ok", "denied"}
    BY DEF FinalVerdict
  <2>4. announces \in BOOLEAN /\ (announces => HasListener /\ HasIncomingRefs(r))
    OBVIOUS
  <2>5. FinalVerdict(r, body) = "ok" /\ body \notin {"undecodable", "nullBody"} =>
          (announces <=> HasListener /\ HasIncomingRefs(r))
    OBVIOUS
  <2>6. body \notin {"undecodable", "nullBody"} /\ announces => FinalVerdict(r, body) = "ok"
    OBVIOUS
  <2>7. /\ events'[r] = (IF announces THEN 1 ELSE 0)
        /\ \A q \in Requests \ {r} : events'[q] = events[q]
        /\ events' \in [Requests -> Nat]
    BY <1>0, <1>1, <2>1, <2>2 DEF TypeOK
  <2> HIDE DEF announces, r
  <2>8. WaitersAreTracked' /\ NoLostWakeup' /\ ActiveIsTimed'
    BY <1>0, <1>1, <2>1 DEF TypeOK, WaitersAreTracked, NoLostWakeup, ActiveIsTimed
  <2>9. CASE body \in {"undecodable", "nullBody"}
    <3>1. /\ stranded' = stranded \cup {r}
          /\ client' = client /\ settles' = settles /\ acked' = acked
      BY <1>3, <2>9 DEF RespondBody, r
    <3>2. TypeOK' /\ WaitingIsTracked' /\ SettlesMatchClients' /\ AckMeansDelivered'
      BY <1>0, <1>1, <1>3, <2>1, <2>7, <3>1 DEF TypeOK, WaitingIsTracked,
         SettlesMatchClients, AckMeansDelivered
    <3>3. EventsMatchVerdicts'
      BY <1>0, <1>1, <2>2, <2>4, <2>7, <3>1 DEF EventsMatchVerdicts, HasIncomingRefs, TypeOK
    <3> QED
      BY <2>8, <3>2, <3>3 DEF SessionInv
  <2>10. CASE body \notin {"undecodable", "nullBody"}
    <3>1. /\ Settle({r}, FinalVerdict(r, body))
          /\ acked' = acked \cup {r} /\ stranded' = stranded
      BY <1>3, <2>10 DEF RespondBody, r
    <3>2. /\ client' \in [Requests -> Open \cup Answers]
          /\ settles' \in [Requests -> Nat]
          /\ client'[r] = FinalVerdict(r, body) /\ settles'[r] = 1
          /\ \A q \in Requests \ {r} : client'[q] = client[q] /\ settles'[q] = settles[q]
      BY <1>0, <1>1, <2>2, <2>3, <3>1 DEF Settle, Open, Answers, TypeOK
    <3>3. TypeOK' /\ WaitingIsTracked' /\ AckMeansDelivered'
      BY <1>0, <1>1, <1>3, <2>1, <2>3, <2>7, <3>1, <3>2 DEF TypeOK, WaitingIsTracked,
         AckMeansDelivered
    <3>4. SettlesMatchClients'
      BY <1>0, <1>1, <2>3, <3>2 DEF SettlesMatchClients
    <3>5. EventsMatchVerdicts'
      <4>1. ASSUME NEW q \in Requests \ {r}
            PROVE  events'[q] = events[q] /\ client'[q] = client[q]
        BY <2>7, <3>2
      <4>2. /\ events'[r] <= 1
            /\ events'[r] = 1 => HasListener /\ HasIncomingRefs(r) /\ client'[r] = "ok"
            /\ HasListener /\ HasIncomingRefs(r) /\ client'[r] = "ok" => events'[r] = 1
        BY <2>4, <2>5, <2>6, <2>7, <2>10, <3>2
      <4> QED
        BY <1>0, <3>1, <4>1, <4>2 DEF EventsMatchVerdicts, HasIncomingRefs
    <3> QED
      BY <2>8, <3>3, <3>4, <3>5 DEF SessionInv
  <2> QED
    BY <2>9, <2>10
<1> QED
  BY <1>2, <1>3

-----------------------------------------------------------------------------
(* The theorems *)

LEMMA InitInv == Init => SessionInv
<1> SUFFICES ASSUME Init PROVE SessionInv
  OBVIOUS
<1> USE SessionAssumption DEF SessionAssumption
<1>1. ToSet(waiters) = {} /\ IsInjective(waiters) /\ waiters \in Seq(Pollers)
  BY DEF Init, ToSet, IsInjective
<1>2. TypeOK
  <2>1. /\ client \in [Requests -> Open \cup Answers]
        /\ settles \in [Requests -> Nat] /\ events \in [Requests -> Nat]
        /\ poller \in [Pollers -> {"idle", "open", "gone"}]
        /\ responder \in [Responders -> Requests \cup {NoRequest}]
    BY DEF Init, Open
  <2>2. stored \in Persistable /\ ~stored.active
    BY DEF Init, Persistable, NotStored
  <2>3. active = FALSE /\ ttlArmed \in BOOLEAN
    BY DEF Init
  <2>5. token \in 0..MaxTokens /\ lastToken \in 0..MaxTokens
    BY DEF Init
  <2>4. /\ registering = {} /\ issued = {} /\ pending = {} /\ stranded = {}
        /\ timers = {} /\ handed = {} /\ known = {} /\ acked = {}
    BY DEF Init
  <2> QED
    BY <1>1, <2>1, <2>2, <2>3, <2>4, <2>5 DEF TypeOK
<1>3. WaitingIsTracked /\ SettlesMatchClients /\ WaitersAreTracked /\ NoLostWakeup
  BY <1>1 DEF Init, WaitingIsTracked, SettlesMatchClients, WaitersAreTracked, NoLostWakeup
<1>4. AckMeansDelivered /\ EventsMatchVerdicts /\ ActiveIsTimed
  BY DEF Init, AckMeansDelivered, EventsMatchVerdicts, ActiveIsTimed
<1> QED
  BY <1>2, <1>3, <1>4 DEF SessionInv

LEMMA NextKeepsInv == SessionInv /\ [Next]_vars => SessionInv'
<1> SUFFICES ASSUME SessionInv, [Next]_vars PROVE SessionInv'
  OBVIOUS
<1> USE SessionAssumption DEF SessionAssumption
<1>0. /\ TypeOK /\ WaitingIsTracked /\ SettlesMatchClients /\ WaitersAreTracked
      /\ NoLostWakeup /\ AckMeansDelivered /\ EventsMatchVerdicts /\ ActiveIsTimed
  BY DEF SessionInv
<1>1. CASE Register
  BY <1>0, <1>1 DEF Register, clientVars, pollVars, daemonVars, SessionInv, TypeOK, Tokens,
     WaitingIsTracked, SettlesMatchClients, WaitersAreTracked, NoLostWakeup,
     AckMeansDelivered, EventsMatchVerdicts, ActiveIsTimed, HasIncomingRefs
<1>2. ASSUME NEW t \in Tokens, PersistRegister(t) PROVE SessionInv'
  <2>1. /\ UNCHANGED <<active, token, ttlArmed, lastToken>>
        /\ UNCHANGED <<clientVars, pollVars, daemonVars>>
    BY <1>2 DEF PersistRegister
  <2>2. /\ registering' \subseteq Tokens /\ issued' \subseteq Tokens
        /\ stored' \in Persistable /\ (stored'.active => stored'.token # 0)
    <3>1. CASE /\ stored' = IF HasStorage THEN [active |-> active, token |-> token] ELSE stored
               /\ issued' = issued \cup {t}
      BY <1>0, <1>2, <3>1 DEF PersistRegister, TypeOK, Tokens, Persistable
    <3>2. CASE UNCHANGED <<stored, issued>>
      BY <1>0, <1>2, <3>2 DEF PersistRegister, TypeOK
    <3> QED
      BY <1>2, <3>1, <3>2 DEF PersistRegister
  <2>3. TypeOK'
    BY <1>0, <2>1, <2>2 DEF TypeOK, clientVars, pollVars, daemonVars
  <2> QED
    BY <1>0, <2>1, <2>3 DEF clientVars, pollVars, daemonVars, SessionInv, WaitingIsTracked,
       SettlesMatchClients, WaitersAreTracked, NoLostWakeup, AckMeansDelivered,
       EventsMatchVerdicts, ActiveIsTimed, HasIncomingRefs
<1>3. ASSUME NEW r \in Requests, GitRequest(r) PROVE SessionInv'
  <2>1. client[r] = "new" /\ UNCHANGED <<sessionVars, daemonVars>>
    BY <1>3 DEF GitRequest
  <2>2. CASE Enqueue(r)
    BY <2>1, <2>2, EnqueueKeepsInv
  <2>3. CASE /\ client' \in {[client EXCEPT ![r] = "refused"], [client EXCEPT ![r] = "reading"]}
             /\ UNCHANGED <<settles, pending, stranded, events, pollVars>>
    <3>1. /\ client'[r] \in {"refused", "reading"}
          /\ \A q \in Requests \ {r} : client'[q] = client[q]
          /\ client' \in [Requests -> Open \cup Answers]
      BY <1>0, <2>3 DEF TypeOK, Open, Answers
    <3>2. r \notin pending /\ r \notin stranded /\ r \notin acked /\ events[r] # 1
      BY <1>0, <2>1 DEF WaitingIsTracked, AckMeansDelivered, EventsMatchVerdicts
    <3>3. TypeOK' /\ WaitersAreTracked' /\ NoLostWakeup' /\ ActiveIsTimed'
      BY <1>0, <2>1, <2>3, <3>1 DEF sessionVars, daemonVars, pollVars, TypeOK,
         WaitersAreTracked, NoLostWakeup, ActiveIsTimed
    <3>4. /\ timers' = timers /\ pending' = pending /\ stranded' = stranded
          /\ acked' = acked /\ settles' = settles
      BY <2>1, <2>3 DEF daemonVars, pollVars
    <3>6. WaitingIsTracked'
      BY <1>0, <2>1, <3>1, <3>2, <3>4 DEF WaitingIsTracked
    <3>7. SettlesMatchClients'
      BY <1>0, <2>1, <3>1, <3>4 DEF SettlesMatchClients
    <3>8. AckMeansDelivered'
      BY <1>0, <3>1, <3>2, <3>4 DEF AckMeansDelivered, TypeOK
    <3>5. EventsMatchVerdicts'
      BY <1>0, <2>1, <2>3, <3>1, <3>2 DEF EventsMatchVerdicts, HasIncomingRefs
    <3> QED
      BY <3>3, <3>5, <3>6, <3>7, <3>8 DEF SessionInv
  <2> QED
    BY <1>3, <2>2, <2>3 DEF GitRequest
<1>4. ASSUME NEW r \in Requests, GitBody(r) PROVE SessionInv'
  BY <1>4, EnqueueKeepsInv DEF GitBody
<1>5. ASSUME NEW r \in Requests, GitBodyFails(r) PROVE SessionInv'
  <2>1. /\ client[r] = "reading" /\ client' = [client EXCEPT ![r] = "lost"]
        /\ UNCHANGED <<sessionVars, pollVars, daemonVars, settles, pending, stranded, events>>
    BY <1>5 DEF GitBodyFails
  <2>2. /\ client'[r] = "lost"
        /\ \A q \in Requests \ {r} : client'[q] = client[q]
        /\ client' \in [Requests -> Open \cup Answers]
    BY <1>0, <2>1 DEF TypeOK, Answers
  <2>3. r \notin pending /\ r \notin stranded /\ r \notin acked /\ events[r] # 1
    BY <1>0, <2>1 DEF WaitingIsTracked, AckMeansDelivered, EventsMatchVerdicts
  <2>4. TypeOK' /\ WaitersAreTracked' /\ NoLostWakeup' /\ ActiveIsTimed'
    BY <1>0, <2>1, <2>2 DEF sessionVars, daemonVars, pollVars, TypeOK,
       WaitersAreTracked, NoLostWakeup, ActiveIsTimed
  <2>5. WaitingIsTracked' /\ SettlesMatchClients' /\ AckMeansDelivered'
    BY <1>0, <2>1, <2>2, <2>3 DEF sessionVars, daemonVars, pollVars, TypeOK,
       WaitingIsTracked, SettlesMatchClients, AckMeansDelivered
  <2>6. EventsMatchVerdicts'
    BY <1>0, <2>1, <2>2, <2>3 DEF EventsMatchVerdicts, HasIncomingRefs
  <2> QED
    BY <2>4, <2>5, <2>6 DEF SessionInv
<1>6. ASSUME NEW p \in Pollers, HangUp(p) PROVE SessionInv'
  BY <1>0, <1>6 DEF HangUp, sessionVars, clientVars, daemonVars, SessionInv, TypeOK,
     WaitingIsTracked, SettlesMatchClients, WaitersAreTracked, NoLostWakeup,
     AckMeansDelivered, EventsMatchVerdicts, ActiveIsTimed, HasIncomingRefs
<1>7. ASSUME NEW x \in Responders, NEW r \in Requests, Respond(x, r) PROVE SessionInv'
  BY <1>0, <1>7 DEF Respond, sessionVars, clientVars, pollVars, SessionInv, TypeOK,
     WaitingIsTracked, SettlesMatchClients, WaitersAreTracked, NoLostWakeup,
     AckMeansDelivered, EventsMatchVerdicts, ActiveIsTimed, HasIncomingRefs
<1>8. CASE UNCHANGED vars
  BY <1>0, <1>8 DEF vars, sessionVars, clientVars, pollVars, daemonVars, SessionInv, TypeOK,
     WaitingIsTracked, SettlesMatchClients, WaitersAreTracked, NoLostWakeup,
     AckMeansDelivered, EventsMatchVerdicts, ActiveIsTimed, HasIncomingRefs
<1> QED
  BY <1>1, <1>2, <1>3, <1>4, <1>5, <1>6, <1>7, <1>8, SessionTimeoutKeepsInv,
     RestartKeepsInv, RequestTimeoutKeepsInv, PollKeepsInv, PollTimeoutKeepsInv,
     RespondBodyKeepsInv
     DEF Next

LEMMA SpecInv == Spec => []SessionInv
  BY InitInv, NextKeepsInv, PTL DEF Spec

\* The variables of the session keep their types.
THEOREM TypeCorrect == Spec => []TypeOK
<1>1. SessionInv => TypeOK
  BY DEF SessionInv
<1> QED
  BY <1>1, SpecInv, PTL

\* handleGitRequest, handleRespond, the request timeout and cleanup never
\* leave a waiting client without a pending entry and an armed timeout, a
\* respond call that threw aside.
THEOREM WaitingTracked == Spec => []WaitingIsTracked
<1>1. SessionInv => WaitingIsTracked
  BY DEF SessionInv
<1> QED
  BY <1>1, SpecInv, PTL

\* A poll that waits never sleeps beside a request nobody was handed.
THEOREM WakeupsKept == Spec => []PollsAreTracked
<1>1. SessionInv => PollsAreTracked
  BY DEF SessionInv, PollsAreTracked
<1> QED
  BY <1>1, SpecInv, PTL

\* Respond, timeout and cleanup never resolve the same promise twice; what the
\* daemon was acknowledged is what the client got, and the events emitted fit
\* the verdicts.
THEOREM VerdictsKept == Spec => []VerdictsAgree
<1>1. SessionInv => SettledAtMostOnce
  BY DEF SessionInv, SettlesMatchClients, SettledAtMostOnce
<1>2. SessionInv => VerdictsAgree
  BY <1>1 DEF SessionInv, VerdictsAgree
<1> QED
  BY <1>2, SpecInv, PTL

-----------------------------------------------------------------------------
(* Refinement *)

\* A respond call answers a request the daemon has received.
RespondersKnow ==
  \A x \in Responders : responder[x] # NoRequest => responder[x] \in known

LEMMA RespondersKnowInv == Spec => [](SessionInv /\ RespondersKnow)
<1>1. Init => RespondersKnow
  BY DEF Init, RespondersKnow
<1>2. SessionInv /\ RespondersKnow /\ [Next]_vars => RespondersKnow'
  <2> SUFFICES ASSUME SessionInv, RespondersKnow, [Next]_vars PROVE RespondersKnow'
    OBVIOUS
  <2>1. known \subseteq known'
    BY DEF Next, Register, PersistRegister, SessionTimeout, Restart, GitRequest, GitBody,
       GitBodyFails, RequestTimeout, Poll, HangUp, PollTimeout, Respond, RespondBody,
       Enqueue, Deliver, vars, pollVars
  <2>2. \/ responder' = responder
        \/ responder' = [x \in Responders |-> NoRequest]
        \/ \E x \in Responders, r \in known : responder' = [responder EXCEPT ![x] = r]
        \/ \E x \in Responders : responder' = [responder EXCEPT ![x] = NoRequest]
    BY DEF Next, Register, PersistRegister, SessionTimeout, Restart, GitRequest, GitBody,
       GitBodyFails, RequestTimeout, Poll, HangUp, PollTimeout, Respond, RespondBody,
       vars, daemonVars
  <2> QED
    BY <2>1, <2>2 DEF RespondersKnow, SessionInv, TypeOK
<1> QED
  BY <1>1, <1>2, InitInv, NextKeepsInv, PTL DEF Spec

LEMMA InitRefines == Init => Relay!RelayInit
  BY DEF Init, Relay!RelayInit, Outcome, Announced

\* Steps that change nothing the relay can see.
LEMMA Invisible ==
  ASSUME client' = client, known' = known, events' = events
  PROVE  UNCHANGED Relay!relayVars
BY DEF Relay!relayVars, Outcome, Announced

\* Requests that are being read or wait may all fail together.
LEMMA GivingUp ==
  ASSUME NEW S \in SUBSET Requests, NEW f \in {"closed", "timeout", "lost"},
         \A r \in S : client[r] \in {"reading", "waiting"},
         client' = [r \in Requests |-> IF r \in S THEN f ELSE client[r]],
         known' = known, events' = events
  PROVE  Relay!RelayNext \/ UNCHANGED Relay!relayVars
<1>1. Announced' = Announced
  BY DEF Announced
<1>2. CASE S = {}
  BY <1>1, <1>2 DEF Relay!relayVars, Outcome
<1>3. CASE S # {}
  <2>1. \A r \in S : Outcome[r] = "accepted"
    BY DEF Outcome
  <2>2. Outcome' = [r \in Requests |-> IF r \in S THEN f ELSE Outcome[r]]
    BY DEF Outcome
  <2>3. Relay!GiveUp(S, f)
    BY <1>1, <1>3, <2>1, <2>2 DEF Relay!GiveUp
  <2> QED
    BY <2>3 DEF Relay!RelayNext, Relay!Failures
<1> QED
  BY <1>2, <1>3

\* A request that is queued is accepted, or forwarded with the rest.
LEMMA Enqueuing ==
  ASSUME SessionInv, NEW r \in Requests, client[r] \in {"new", "reading"}, Enqueue(r)
  PROVE  Relay!RelayNext \/ UNCHANGED Relay!relayVars
<1>1. /\ client' = [client EXCEPT ![r] = "waiting"]
      /\ pending' = pending \cup {r} /\ events' = events
      /\ client \in [Requests -> Open \cup Answers]
  BY DEF Enqueue, SessionInv, TypeOK
<1>2. PICK S \in {{}, pending'} : known' = known \cup S
  BY DEF Enqueue, Deliver
<1>3. /\ S \subseteq Requests
      /\ \A q \in S : q = r \/ Outcome[q] = "accepted"
  BY <1>1, <1>2 DEF SessionInv, TypeOK, WaitingIsTracked, Outcome
<1>4. Announced' = Announced
  BY <1>1 DEF Announced
<1>5. Outcome' = [Outcome EXCEPT ![r] = "accepted"]
  BY <1>1 DEF Outcome
<1>6. CASE client[r] = "new"
  <2>1. Outcome[r] = "new"
    BY <1>6 DEF Outcome
  <2>2. Relay!Accept(r, S)
    BY <1>2, <1>4, <1>5, <2>1 DEF Relay!Accept
  <2> QED
    BY <1>3, <2>2 DEF Relay!RelayNext
<1>7. CASE client[r] = "reading"
  <2>1. Outcome[r] = "accepted"
    BY <1>7 DEF Outcome
  <2>2. Outcome' = Outcome
    BY <1>5, <2>1 DEF Outcome
  <2>3. Relay!Forward(S)
    BY <1>2, <1>3, <1>4, <2>1, <2>2 DEF Relay!Forward
  <2> QED
    BY <1>3, <2>3 DEF Relay!RelayNext
<1> QED
  BY <1>6, <1>7

\* The daemon's verdict is an answer, a call that throws strands its request.
LEMMA Responding ==
  ASSUME SessionInv, RespondersKnow, NEW x \in Responders, NEW body \in Bodies,
         RespondBody(x, body)
  PROVE  Relay!RelayNext \/ UNCHANGED Relay!relayVars
<1> DEFINE r == responder[x]
<1>1. r \in Requests /\ r \in known /\ known' = known
  BY DEF RespondBody, SessionInv, TypeOK, RespondersKnow
<1>2. CASE body = "badJson" \/ r \notin pending
  BY <1>1, <1>2, Invisible DEF RespondBody, clientVars
<1>3. CASE body # "badJson" /\ r \in pending
  <2>1. PICK n \in {0, 1} : events' = [events EXCEPT ![r] = events[r] + n]
    BY <1>3 DEF RespondBody
  <2>2. n = 1 /\ body \notin {"undecodable", "nullBody"} => FinalVerdict(r, body) = "ok"
    BY <1>1, <1>3, <2>1 DEF RespondBody, SessionInv, TypeOK
  <2> HIDE DEF r
  <2>3. client[r] = "waiting" /\ events[r] = 0
    <3>1. client[r] = "waiting" /\ r \notin stranded
      BY <1>1, <1>3 DEF SessionInv, WaitingIsTracked
    <3>2. events[r] \in Nat /\ events[r] <= 1 /\ events[r] # 1
      BY <1>1, <3>1 DEF SessionInv, TypeOK, EventsMatchVerdicts
    <3> QED
      BY <3>1, <3>2
  <2>4. /\ events'[r] = n
        /\ \A q \in Requests \ {r} : events'[q] = events[q]
    BY <1>1, <2>1, <2>3 DEF SessionInv, TypeOK
  <2>5. r \notin Announced /\ Announced' = IF n = 1 THEN Announced \cup {r} ELSE Announced
    BY <1>1, <2>3, <2>4 DEF Announced
  <2>6. Outcome[r] = "accepted"
    BY <1>1, <2>3 DEF Outcome
  <2>7. CASE body \in {"undecodable", "nullBody"}
    <3>1. client' = client
      BY <1>3, <2>7 DEF RespondBody, r
    <3>2. Outcome' = Outcome
      BY <3>1 DEF Outcome
    <3>3. CASE n = 0
      BY <1>1, <2>5, <3>2, <3>3 DEF Relay!relayVars
    <3>4. CASE n = 1
      <4>1. Relay!Strand(r)
        BY <1>1, <2>5, <2>6, <3>2, <3>4 DEF Relay!Strand
      <4> QED
        BY <1>1, <4>1 DEF Relay!RelayNext
    <3> QED
      BY <3>3, <3>4
  <2>8. CASE body \notin {"undecodable", "nullBody"}
    <3> DEFINE v == FinalVerdict(r, body)
    <3>1. v \in {"ok", "denied"}
      BY DEF FinalVerdict
    <3>2. Settle({r}, v)
      BY <1>3, <2>8 DEF RespondBody, r
    <3>3. client' = [q \in Requests |-> IF q = r THEN v ELSE client[q]]
      BY <2>3, <3>2 DEF Settle, Open
    <3>4. Outcome' = [Outcome EXCEPT ![r] = v]
      BY <3>1, <3>3 DEF Outcome
    <3>5. Relay!Answer(r, v)
      BY <1>1, <2>2, <2>5, <2>6, <2>8, <3>4 DEF Relay!Answer
    <3> QED
      BY <1>1, <3>1, <3>5 DEF Relay!RelayNext, Relay!Verdicts
  <2> QED
    BY <2>7, <2>8
<1> QED
  BY <1>2, <1>3

LEMMA NextRefines ==
  SessionInv /\ RespondersKnow /\ [Next]_vars => [Relay!RelayNext]_(Relay!relayVars)
<1> SUFFICES ASSUME SessionInv, RespondersKnow, [Next]_vars
             PROVE  Relay!RelayNext \/ UNCHANGED Relay!relayVars
  OBVIOUS
<1>0. client \in [Requests -> Open \cup Answers]
  BY DEF SessionInv, TypeOK
<1>1. CASE \/ Register
           \/ \E t \in Tokens : PersistRegister(t)
           \/ \E p \in Pollers : HangUp(p) \/ PollTimeout(p)
           \/ \E x \in Responders, r \in Requests : Respond(x, r)
           \/ UNCHANGED vars
  BY <1>1, Invisible DEF Register, PersistRegister, HangUp, PollTimeout, Respond, vars,
     clientVars, pollVars
<1>2. CASE SessionTimeout
  <2>1. /\ \A r \in pending : client[r] = "waiting"
        /\ pending \in SUBSET Requests
    BY DEF SessionInv, TypeOK, WaitingIsTracked
  <2>2. client' = [r \in Requests |-> IF r \in pending THEN "closed" ELSE client[r]]
    BY <1>2, <2>1 DEF SessionTimeout, Cleanup, Settle, Open
  <2>3. known' = known /\ events' = events
    BY <1>2 DEF SessionTimeout
  <2> QED
    BY <2>1, <2>2, <2>3, GivingUp
<1>3. CASE Restart
  <2> DEFINE S == {r \in Requests : client[r] \in {"reading", "waiting"}}
  <2>1. client' = [r \in Requests |-> IF r \in S THEN "lost" ELSE client[r]]
    BY <1>3 DEF Restart
  <2>2. known' = known /\ events' = events
    BY <1>3 DEF Restart
  <2>3. \A r \in S : client[r] \in {"reading", "waiting"}
    OBVIOUS
  <2> HIDE DEF S
  <2>4. S \in SUBSET Requests
    BY DEF S
  <2> QED
    BY <2>1, <2>2, <2>3, <2>4, GivingUp
<1>4. ASSUME NEW r \in Requests, GitRequest(r)
      PROVE  Relay!RelayNext \/ UNCHANGED Relay!relayVars
  <2>1. client[r] = "new"
    BY <1>4 DEF GitRequest
  <2>2. CASE Enqueue(r)
    BY <2>1, <2>2, Enqueuing
  <2>3. ASSUME NEW a \in {"refused", "reading"}, client' = [client EXCEPT ![r] = a],
               known' = known, events' = events
        PROVE  Relay!RelayNext \/ UNCHANGED Relay!relayVars
    <3>1. Outcome[r] = "new" /\ Announced' = Announced
      BY <2>1, <2>3 DEF Outcome, Announced
    <3>2. CASE a = "refused"
      <4>1. Outcome' = [Outcome EXCEPT ![r] = "refused"]
        BY <1>0, <2>3, <3>2 DEF Outcome
      <4>2. Relay!Refuse(r)
        BY <2>3, <3>1, <4>1 DEF Relay!Refuse
      <4> QED
        BY <4>2 DEF Relay!RelayNext
    <3>3. CASE a = "reading"
      <4>1. Outcome' = [Outcome EXCEPT ![r] = "accepted"]
        BY <1>0, <2>3, <3>3 DEF Outcome
      <4>2. Relay!Accept(r, {})
        BY <2>3, <3>1, <4>1 DEF Relay!Accept
      <4> QED
        BY <4>2 DEF Relay!RelayNext
    <3> QED
      BY <3>2, <3>3
  <2> QED
    BY <1>4, <2>2, <2>3 DEF GitRequest, pollVars
<1>5. ASSUME NEW r \in Requests, GitBody(r)
      PROVE  Relay!RelayNext \/ UNCHANGED Relay!relayVars
  BY <1>5, Enqueuing DEF GitBody
<1>6. ASSUME NEW r \in Requests, GitBodyFails(r)
      PROVE  Relay!RelayNext \/ UNCHANGED Relay!relayVars
  <2>1. /\ client[r] = "reading"
        /\ client' = [q \in Requests |-> IF q \in {r} THEN "lost" ELSE client[q]]
        /\ known' = known /\ events' = events
    BY <1>0, <1>6 DEF GitBodyFails, pollVars
  <2> QED
    BY <2>1, GivingUp
<1>7. ASSUME NEW r \in Requests, RequestTimeout(r)
      PROVE  Relay!RelayNext \/ UNCHANGED Relay!relayVars
  <2>1. client[r] = "waiting"
    BY <1>7 DEF RequestTimeout, SessionInv, WaitingIsTracked
  <2>2. client' = [q \in Requests |-> IF q \in {r} THEN "timeout" ELSE client[q]]
    BY <1>7, <2>1 DEF RequestTimeout, Settle, Open
  <2>3. known' = known /\ events' = events
    BY <1>7 DEF RequestTimeout
  <2> QED
    BY <2>1, <2>2, <2>3, GivingUp
<1>8. ASSUME NEW p \in Pollers, Poll(p)
      PROVE  Relay!RelayNext \/ UNCHANGED Relay!relayVars
  <2>1. client' = client /\ events' = events
    BY <1>8 DEF Poll, clientVars
  <2>2. PICK S \in {{}, pending} : known' = known \cup S
    BY <1>8 DEF Poll, Deliver
  <2>3. S \in SUBSET Requests /\ \A r \in S : Outcome[r] = "accepted"
    BY <2>2 DEF SessionInv, TypeOK, WaitingIsTracked, Outcome
  <2>4. Outcome' = Outcome /\ Announced' = Announced
    BY <2>1 DEF Outcome, Announced
  <2>5. Relay!Forward(S)
    BY <2>2, <2>3, <2>4 DEF Relay!Forward
  <2> QED
    BY <2>3, <2>5 DEF Relay!RelayNext
<1>9. ASSUME NEW x \in Responders, NEW body \in Bodies, RespondBody(x, body)
      PROVE  Relay!RelayNext \/ UNCHANGED Relay!relayVars
  BY <1>9, Responding
<1> QED
  BY <1>1, <1>2, <1>3, <1>4, <1>5, <1>6, <1>7, <1>8, <1>9 DEF Next

\* The session answers each clone request at most once, and with the
\* daemon's verdict only if the daemon had received the request.
THEOREM Refinement == Spec => ImplementsRelay
  BY InitRefines, NextRefines, RespondersKnowInv, PTL
     DEF Spec, ImplementsRelay, Relay!RelaySpec
=============================================================================
