----------------------------- MODULE Caches_proofs -----------------------------
(***************************************************************************)
(* Proofs about the two cache components, which share no state.            *)
(*                                                                         *)
(* GitCacheFallback, for any requests, questions, versions and number of   *)
(* faults: the types, that a client is given what the daemon once said and *)
(* a copy where one is kept, and that it is given nothing older while      *)
(* requests for one question do not overlap.                               *)
(*                                                                         *)
(* R2CacheStore, for any callers, keys, sizes, policy and page length: the *)
(* types, what a reader can miss, and that the bucket is within its limit  *)
(* and agrees with the store in memory when the calls are over.            *)
(***************************************************************************)
EXTENDS GitCacheFallback, R2CacheStore, FiniteSetTheorems, FunctionTheorems, SequenceTheorems, TLAPS

-----------------------------------------------------------------------------
(* Git cache fallback *)

\* The daemon gave content c with status 200 to question q.
Served(q, c) == \E s \in Requests : question[s] = q /\ reply[s] = Reply("ok", c)

\* A request that was made asks something.
Asked == \A r \in Requests : stage[r] # "new" => question[r] \in Questions

\* How far a request is, and what is known of it there.
Progress(r) ==
  /\ stage[r] = "new" =>
       r \notin forwarded /\ r \notin relied /\ held[r] = 0 /\ outcome[r] = "new"
  /\ stage[r] # "done" => answer[r] = Pending
  /\ r \notin forwarded => reply[r] = Pending
  /\ reply[r].status = "ok" => reply[r].content \in 1..version
  /\ outcome[r] = "ok" \/ stage[r] = "writing" => reply[r].status = "ok"

ProgressInv == \A r \in Requests : Progress(r)

\* Copies, and what was read from them, are 200 answers of the daemon.
CopiesWereServed ==
  /\ \A q \in Questions : copies[q] # 0 => Served(q, copies[q])
  /\ \A r \in Requests : held[r] # 0 => Served(question[r], held[r])
  /\ \A r \in Requests : answer[r].status = "ok" =>
       answer[r] = Reply("ok", answer[r].content) /\ Served(question[r], answer[r].content)

\* A question that is kept has a copy, and a request that relies on it finds
\* the copy or holds it.
KeptHasCopy ==
  /\ \A q \in kept : copies[q] # 0
  /\ \A r \in relied :
       /\ stage[r] = "reading" => copies[question[r]] # 0
       /\ stage[r] = "forwarded" => held[r] # 0
       /\ answer[r].status # "notFound"

\* At most one request of a steady question is on its way, and neither the
\* copy nor what this request read or was answered is older than what clients
\* were given.
Steady(q) ==
  /\ copies[q] # 0 => copies[q] >= newest[q]
  /\ \A r, s \in InFlight(q) : r = s
  /\ \A r \in InFlight(q) :
       /\ held[r] # 0 => held[r] >= newest[q]
       /\ reply[r].status = "ok" => reply[r].content >= newest[q]

SteadyIsNewest ==
  /\ \A q \in Questions : newest[q] <= version
  /\ \A q \in Questions \ unsteady : Steady(q)

FallbackInv ==
  TypeOK /\ Asked /\ ProgressInv /\ CopiesWereServed /\ KeptHasCopy /\ SteadyIsNewest

\* What every step of the handler is made of.
USE DEF CopyOrNotFound, Reply, Pending, Fault

-----------------------------------------------------------------------------
(* Git cache fallback: types *)

LEMMA ReplyTypes ==
  /\ 0 \in Contents /\ ErrorBody \in Contents /\ 1..MaxVersion \subseteq Contents
  /\ \A c \in Contents : c \in Int /\ CopyOrNotFound(c) \in Replies
  /\ Pending \in Replies /\ Reply("error", 0) \in Replies
  /\ \A v \in 1..MaxVersion : Reply("ok", v) \in Replies
  /\ \A status \in {"notFound", "error"} : Reply(status, ErrorBody) \in Replies
<1>1. /\ 0 \in Contents /\ ErrorBody \in Contents /\ 1..MaxVersion \subseteq Contents
      /\ Contents \subseteq Int
  BY FallbackAssumption DEF FallbackAssumption, Contents, ErrorBody
<1>2. \A status \in {"none", "ok", "notFound", "error"}, c \in Contents :
        Reply(status, c) \in Replies
  BY DEF Replies
<1> HIDE DEF Reply, Pending, CopyOrNotFound
<1>3. \A c \in Contents : c \in Int /\ CopyOrNotFound(c) \in Replies
  BY <1>1, <1>2 DEF CopyOrNotFound
<1>4. Pending \in Replies
  BY <1>1, <1>2 DEF Reply, Pending
<1> QED
  BY <1>1, <1>2, <1>3, <1>4

LEMMA InitTyped == Init => TypeOK /\ Asked
<1> HIDE DEF Pending
<1>1. Init => version \in 1..MaxVersion /\ faults \in 0..MaxFaults
  BY FallbackAssumption DEF FallbackAssumption, Init
<1>2. Init => reply \in [Requests -> Replies] /\ answer \in [Requests -> Replies]
  BY ReplyTypes DEF Init
<1>3. Init => TypeOK
  BY <1>1, <1>2, ReplyTypes DEF Init, RelayInit, TypeOK, Stages
<1> QED
  BY <1>3 DEF Init, Asked

\* A request for the session takes it from one outcome to another.
LEMMA SessionTyped ==
  ASSUME TypeOK, NEW r \in Requests, SessionStep(r)
  PROVE  /\ outcome' \in [Requests -> {"new", "accepted"} \cup Verdicts \cup Failures]
         /\ forwarded' \subseteq Requests
<1> DEFINE Outcomes == {"new", "accepted"} \cup Verdicts \cup Failures
<1>1. \A x \in {"refused", "accepted", "ok", "denied", "closed", "timeout", "lost"} :
         x \in Outcomes
  BY DEF Verdicts, Failures
<1>2. outcome \in [Requests -> Outcomes] /\ forwarded \subseteq Requests
  BY DEF TypeOK
<1> HIDE DEF Outcomes
<1>3. outcome' \in [Requests -> Outcomes] /\ forwarded' \subseteq Requests
  <2>1. CASE Refuse(r)
    BY <2>1, <1>1, <1>2 DEF Refuse
  <2>2. CASE Accept(r, {})
    BY <2>2, <1>1, <1>2 DEF Accept
  <2>3. CASE Forward({r})
    BY <2>3, <1>1, <1>2 DEF Forward
  <2>4. CASE Answer(r, "ok") \/ Answer(r, "denied")
    BY <2>4, <1>1, <1>2 DEF Answer
  <2>5. ASSUME NEW failure \in {"closed", "timeout"}, GiveUp({r}, failure)
        PROVE  outcome' \in [Requests -> Outcomes] /\ forwarded' \subseteq Requests
    BY <2>5, <1>1, <1>2 DEF GiveUp
  <2> QED
    BY <2>1, <2>2, <2>3, <2>4, <2>5 DEF SessionStep
<1> QED
  BY <1>3 DEF Outcomes

LEMMA StepTyped == TypeOK /\ Asked /\ [Next]_vars => TypeOK'
<1> SUFFICES ASSUME TypeOK, Asked, [Next]_vars PROVE TypeOK'
  OBVIOUS
<1> USE ReplyTypes, FallbackAssumption DEF FallbackAssumption
<1> HIDE DEF CopyOrNotFound, Reply, Pending
<1>1. ASSUME NEW r \in Requests, ReadCache(r) PROVE TypeOK'
  <2>1. faults' \in 0..MaxFaults
    BY <1>1 DEF TypeOK, ReadCache
  <2>2. held' \in [Requests -> Contents] /\ relied' \subseteq Requests
    <3>1. copies[question[r]] \in Contents
      BY <1>1 DEF TypeOK, Asked, ReadCache
    <3> QED
      BY <1>1, <3>1 DEF TypeOK, ReadCache
  <2>3. answer' \in [Requests -> Replies] /\ stage' \in [Requests -> Stages]
    BY <1>1, <2>2 DEF TypeOK, ReadCache, Stages
  <2> QED
    BY <1>1, <2>1, <2>2, <2>3 DEF TypeOK, ReadCache, sessionVars
<1>2. ASSUME NEW r \in Requests, FailOver(r) PROVE TypeOK'
  BY <1>2 DEF TypeOK, FailOver, sessionVars, historyVars, Stages
<1>3. ASSUME NEW r \in Requests, BeginWrite(r) PROVE TypeOK'
  BY <1>3 DEF TypeOK, BeginWrite, sessionVars, historyVars, Stages
<1>4. ASSUME NEW r \in Requests, WriteCache(r) PROVE TypeOK'
  <2> DEFINE q == question[r]
  <2>1. faults' \in 0..MaxFaults
    BY <1>4 DEF TypeOK, WriteCache
  <2>2. stage' \in [Requests -> Stages] /\ answer' \in [Requests -> Replies]
    BY <1>4 DEF TypeOK, WriteCache, Stages
  <2>3. q \in Questions /\ reply[r].content \in Contents
    BY <1>4 DEF TypeOK, Asked, WriteCache, Replies
  <2>4. copies' \in [Questions -> Contents] /\ newest' \in [Questions -> Contents]
    BY <1>4, <2>3 DEF TypeOK, WriteCache
  <2>5. kept' \subseteq Questions /\ unsteady' \subseteq Questions
    BY <1>4, <2>3 DEF TypeOK, WriteCache
  <2> QED
    BY <1>4, <2>1, <2>2, <2>4, <2>5 DEF TypeOK, WriteCache, sessionVars
<1>5. ASSUME NEW r \in Requests, Serve(r) PROVE TypeOK'
  <2>1. version' \in 1..MaxVersion
    BY <1>5 DEF TypeOK, Serve
  <2>2. reply' \in [Requests -> Replies]
    BY <1>5, <2>1 DEF TypeOK, Serve
  <2> QED
    BY <1>5, <2>1, <2>2 DEF TypeOK, Serve, sessionVars, historyVars
<1>6. ASSUME NEW r \in Requests, SessionStep(r) PROVE TypeOK'
  BY <1>6, SessionTyped DEF TypeOK, SessionStep, historyVars
<1>7. ASSUME NEW r \in Requests, NEW q \in Questions, BeginRequest(r, q) PROVE TypeOK'
  BY <1>7 DEF TypeOK, BeginRequest, sessionVars, Stages
<1>8. ASSUME NEW q \in Questions, Evict(q) PROVE TypeOK'
  <2>1. faults' \in 0..MaxFaults
    BY <1>8 DEF TypeOK, Evict
  <2> QED
    BY <1>8, <2>1 DEF TypeOK, Evict, sessionVars
<1>9. CASE Register
  BY <1>9 DEF TypeOK, Register, sessionVars, historyVars
<1>10. CASE Commit
  <2>1. version' \in 1..MaxVersion
    BY <1>10 DEF TypeOK, Commit
  <2> QED
    BY <1>10, <2>1 DEF TypeOK, Commit, sessionVars, historyVars
<1>11. CASE Restart
  <2>1. faults' \in 0..MaxFaults
    BY <1>11 DEF TypeOK, Restart
  <2>2. /\ outcome' \in [Requests -> {"new", "accepted"} \cup Verdicts \cup Failures]
        /\ forwarded' \subseteq Requests /\ announced' \subseteq Requests
    BY <1>11 DEF TypeOK, Restart, GiveUp, sessionVars, Failures
  <2>3. stage' \in [Requests -> Stages] /\ copies' \in [Questions -> Contents]
    BY <1>11 DEF TypeOK, Restart, Stages
  <2> QED
    BY <1>11, <2>1, <2>2, <2>3 DEF TypeOK, Restart
<1>12. CASE UNCHANGED vars
  BY <1>12 DEF TypeOK, vars, sessionVars, historyVars
<1> QED
  BY <1>1, <1>2, <1>3, <1>4, <1>5, <1>6, <1>7, <1>8, <1>9, <1>10, <1>11, <1>12 DEF Next

LEMMA StepAsked == TypeOK /\ Asked /\ [Next]_vars => Asked'
<1> SUFFICES ASSUME TypeOK, Asked, [Next]_vars, NEW r \in Requests, stage'[r] # "new"
             PROVE  question'[r] \in Questions
  BY DEF Asked
<1>1. ASSUME NEW s \in Requests, NEW q \in Questions, BeginRequest(s, q)
      PROVE  question'[r] \in Questions
  BY <1>1 DEF TypeOK, Asked, BeginRequest
<1>2. CASE question' = question /\ stage[r] # "new"
  BY <1>2 DEF Asked
<1> QED
  BY <1>1, <1>2 DEF TypeOK, Next, ReadCache, FailOver, BeginWrite, WriteCache, Serve,
     SessionStep, Evict, Register, Commit, Restart, vars

\* Every variable keeps the type it is declared with: contents are versions
\* or the body of an error, and calls of the cache fail at most MaxFaults times.
THEOREM TypeCorrect == Spec => []TypeOK
  BY InitTyped, StepTyped, StepAsked, PTL DEF Spec

-----------------------------------------------------------------------------
(* What is known of a request *)

LEMMA InitProgress == Init => ProgressInv
  BY DEF Init, RelayInit, ProgressInv, Progress

\* A step of the session concerns one request that was forwarded to it.
LEMMA SessionProgress ==
  ASSUME TypeOK, ProgressInv, NEW s \in Requests, SessionStep(s), NEW r \in Requests
  PROVE  /\ r # s => outcome'[r] = outcome[r] /\ (r \in forwarded' <=> r \in forwarded)
         /\ r \in forwarded => r \in forwarded'
         /\ outcome'[r] = "ok" => outcome[r] = "ok" \/ reply[r].status = "ok"
<1>1. CASE Refuse(s)
  BY <1>1 DEF Refuse, TypeOK
<1>2. CASE Accept(s, {})
  BY <1>2 DEF Accept, TypeOK
<1>3. CASE Forward({s})
  BY <1>3 DEF Forward, TypeOK
<1>4. CASE reply[s].status = "ok" /\ Answer(s, "ok")
  BY <1>4 DEF Answer, TypeOK
<1>5. CASE Answer(s, "denied")
  BY <1>5 DEF Answer, TypeOK
<1>6. ASSUME NEW failure \in {"closed", "timeout"}, GiveUp({s}, failure)
      PROVE  /\ outcome'[r] = IF r = s THEN failure ELSE outcome[r]
             /\ forwarded' = forwarded
  BY <1>6 DEF GiveUp
<1> QED
  BY <1>1, <1>2, <1>3, <1>4, <1>5, <1>6 DEF SessionStep

LEMMA StepProgress == TypeOK /\ ProgressInv /\ [Next]_vars => ProgressInv'
<1> SUFFICES ASSUME TypeOK, ProgressInv, [Next]_vars, NEW r \in Requests
             PROVE  Progress(r)'
  BY DEF ProgressInv
<1> Progress(r)
  BY DEF ProgressInv
<1>1. ASSUME NEW s \in Requests, ReadCache(s) PROVE Progress(r)'
  BY <1>1 DEF TypeOK, Progress, ReadCache, sessionVars
<1>2. ASSUME NEW s \in Requests, FailOver(s) PROVE Progress(r)'
  BY <1>2 DEF TypeOK, Progress, FailOver, sessionVars, historyVars
<1>3. ASSUME NEW s \in Requests, BeginWrite(s) PROVE Progress(r)'
  BY <1>3 DEF TypeOK, Progress, BeginWrite, sessionVars, historyVars
<1>4. ASSUME NEW s \in Requests, WriteCache(s) PROVE Progress(r)'
  BY <1>4 DEF TypeOK, Progress, WriteCache, sessionVars
<1>5. ASSUME NEW s \in Requests, Serve(s) PROVE Progress(r)'
  BY <1>5 DEF TypeOK, Progress, Serve, sessionVars, historyVars
<1>6. ASSUME NEW s \in Requests, SessionStep(s) PROVE Progress(r)'
  <2>1. stage[s] = "forwarded"
    BY <1>6 DEF SessionStep
  <2>2. UNCHANGED <<stage, answer, reply, version, held, relied>>
    BY <1>6 DEF SessionStep, historyVars
  <2> QED
    BY <1>6, <2>1, <2>2, SessionProgress DEF Progress
<1>7. ASSUME NEW s \in Requests, NEW q \in Questions, BeginRequest(s, q)
      PROVE  Progress(r)'
  BY <1>7 DEF TypeOK, Progress, BeginRequest, sessionVars
<1>8. ASSUME NEW q \in Questions, Evict(q) PROVE Progress(r)'
  BY <1>8 DEF TypeOK, Progress, Evict, sessionVars
<1>9. CASE Register
  BY <1>9 DEF Progress, Register, sessionVars, historyVars
<1>10. CASE Commit
  BY <1>10 DEF TypeOK, Progress, Commit, sessionVars, historyVars
<1>11. CASE Restart
  BY <1>11 DEF TypeOK, Progress, Restart, GiveUp, sessionVars
<1>12. CASE UNCHANGED vars
  BY <1>12 DEF Progress, vars, sessionVars, historyVars
<1> QED
  BY <1>1, <1>2, <1>3, <1>4, <1>5, <1>6, <1>7, <1>8, <1>9, <1>10, <1>11, <1>12 DEF Next

-----------------------------------------------------------------------------
(* What a client is given with 200 was served *)

\* What the daemon said to a question, it has said from then on: a request
\* asks before it is forwarded, and is answered by the daemon at most once.
LEMMA ServedKept ==
  ASSUME TypeOK, ProgressInv, [Next]_vars, NEW q, NEW c, Served(q, c)
  PROVE  Served(q, c)'
<1> PICK s \in Requests : question[s] = q /\ reply[s] = Reply("ok", c)
  BY DEF Served
<1>1. stage[s] # "new"
  BY DEF ProgressInv, Progress
<1>2. question'[s] = question[s]
  BY <1>1 DEF TypeOK, Next, ReadCache, FailOver, BeginWrite, WriteCache, Serve,
     SessionStep, BeginRequest, Evict, Register, Commit, Restart, vars
<1>3. ASSUME NEW r \in Requests, Serve(r) PROVE reply'[s] = reply[s]
  BY <1>3 DEF TypeOK, Serve
<1>4. reply'[s] = reply[s]
  BY <1>3 DEF Next, ReadCache, FailOver, BeginWrite, WriteCache,
     SessionStep, BeginRequest, Evict, Register, Commit, Restart, vars
<1> QED
  BY <1>2, <1>4 DEF Served

LEMMA InitCopies == Init => CopiesWereServed
  BY DEF Init, CopiesWereServed

LEMMA StepCopies ==
  TypeOK /\ Asked /\ ProgressInv /\ CopiesWereServed /\ [Next]_vars => CopiesWereServed'
<1> SUFFICES ASSUME TypeOK, Asked, ProgressInv, CopiesWereServed, [Next]_vars
             PROVE  CopiesWereServed'
  OBVIOUS
<1> DEFINE HeldOK(r) == held[r] # 0 => Served(question[r], held[r])
           AnswerOK(r) == answer[r].status = "ok" =>
             /\ answer[r] = Reply("ok", answer[r].content)
             /\ Served(question[r], answer[r].content)
           CopyOK(q) == copies[q] # 0 => Served(q, copies[q])
<1>a. /\ \A r \in Requests : HeldOK(r) /\ AnswerOK(r)
      /\ \A q \in Questions : CopyOK(q)
  BY DEF CopiesWereServed
<1>b. \A q, c : Served(q, c) => Served(q, c)'
  BY ServedKept
<1>c. \A r \in Requests : reply[r].status = "ok" =>
        /\ reply[r] = Reply("ok", reply[r].content)
        /\ Served(question[r], reply[r].content)
  BY DEF Served, TypeOK, Replies
<1> HIDE DEF Reply
<1> SUFFICES /\ \A r \in Requests : HeldOK(r)' /\ AnswerOK(r)'
             /\ \A q \in Questions : CopyOK(q)'
  BY DEF CopiesWereServed
<1>d. \A r \in Requests : question[r] = question'[r] \/ (held'[r] = 0 /\ answer'[r] = Pending)
  BY DEF TypeOK, ProgressInv, Progress, Next, ReadCache, FailOver, BeginWrite, WriteCache,
     Serve, SessionStep, BeginRequest, Evict, Register, Commit, Restart, vars
<1>1. ASSUME NEW r \in Requests
      PROVE  \/ held'[r] = held[r]
             \/ /\ question'[r] = question[r] /\ question[r] \in Questions
                /\ held'[r] = copies[question[r]]
  <2>1. ASSUME NEW s \in Requests, ReadCache(s)
        PROVE  \/ held'[r] = held[r]
               \/ /\ question'[r] = question[r] /\ question[r] \in Questions
                  /\ held'[r] = copies[question[r]]
    BY <2>1 DEF TypeOK, Asked, ReadCache
  <2> QED
    BY <2>1 DEF Next, FailOver, BeginWrite, WriteCache, Serve, SessionStep,
       BeginRequest, Evict, Register, Commit, Restart, vars
<1>2. ASSUME NEW q \in Questions
      PROVE  \/ copies'[q] = copies[q] \/ copies'[q] = 0
             \/ \E r \in Requests : /\ question[r] = q /\ reply[r].status = "ok"
                                   /\ copies'[q] = reply[r].content
  <2>1. ASSUME NEW r \in Requests, WriteCache(r)
        PROVE  \/ copies'[q] = copies[q]
               \/ /\ question[r] = q /\ reply[r].status = "ok"
                  /\ copies'[q] = reply[r].content
    BY <2>1 DEF TypeOK, ProgressInv, Progress, WriteCache
  <2>2. ASSUME NEW p \in Questions, Evict(p)
        PROVE  copies'[q] = copies[q] \/ copies'[q] = 0
    BY <2>2 DEF TypeOK, Evict
  <2> QED
    BY <2>1, <2>2 DEF Next, ReadCache, FailOver, BeginWrite, Serve, SessionStep,
       BeginRequest, Register, Commit, Restart, vars
<1>3. ASSUME NEW r \in Requests
      PROVE  \/ answer'[r] = answer[r]
             \/ answer'[r].status # "ok"
             \/ answer'[r] = Reply("ok", held'[r]) /\ held'[r] # 0
             \/ answer'[r] = reply[r] /\ question'[r] = question[r]
  <2>1. ASSUME NEW s \in Requests, ReadCache(s)
        PROVE  \/ answer'[r] = answer[r]
               \/ answer'[r].status # "ok"
               \/ answer'[r] = Reply("ok", held'[r]) /\ held'[r] # 0
    BY <2>1 DEF TypeOK, ReadCache, Reply
  <2>2. ASSUME NEW s \in Requests, FailOver(s)
        PROVE  \/ answer'[r] = answer[r]
               \/ answer'[r].status # "ok"
               \/ answer'[r] = Reply("ok", held'[r]) /\ held'[r] # 0
    BY <2>2 DEF TypeOK, FailOver, Reply
  <2>3. ASSUME NEW s \in Requests, WriteCache(s)
        PROVE  \/ answer'[r] = answer[r]
               \/ answer'[r] = reply[r] /\ question'[r] = question[r]
    BY <2>3 DEF TypeOK, WriteCache
  <2> QED
    BY <2>1, <2>2, <2>3 DEF Next, BeginWrite, Serve, SessionStep, BeginRequest, Evict,
       Register, Commit, Restart, vars
<1>4. ASSUME NEW r \in Requests PROVE HeldOK(r)'
  BY <1>a, <1>b, <1>d, <1>1
<1>5. ASSUME NEW q \in Questions PROVE CopyOK(q)'
  BY <1>a, <1>b, <1>c, <1>2
<1>6. ASSUME NEW r \in Requests PROVE AnswerOK(r)'
  <2>1. CASE answer'[r] = answer[r]
    BY <2>1, <1>a, <1>b, <1>d
  <2>2. CASE answer'[r] = Reply("ok", held'[r]) /\ held'[r] # 0
    BY <2>2, <1>4 DEF Reply
  <2>3. CASE answer'[r] = reply[r] /\ question'[r] = question[r]
    BY <2>3, <1>b, <1>c
  <2> QED
    BY <2>1, <2>2, <2>3, <1>3
<1> QED
  BY <1>4, <1>5, <1>6

-----------------------------------------------------------------------------
(* A copy that is kept is there *)

LEMMA InitKept == Init => KeptHasCopy
  BY DEF Init, KeptHasCopy

LEMMA StepKept ==
  TypeOK /\ Asked /\ ProgressInv /\ KeptHasCopy /\ [Next]_vars => KeptHasCopy'
<1> SUFFICES ASSUME TypeOK, Asked, ProgressInv, KeptHasCopy, [Next]_vars
             PROVE  KeptHasCopy'
  OBVIOUS
<1> USE DEF ProgressInv, Progress
<1>1. ASSUME NEW r \in Requests, ReadCache(r) PROVE KeptHasCopy'
  BY <1>1 DEF TypeOK, Asked, KeptHasCopy, ReadCache
<1>2. ASSUME NEW r \in Requests, FailOver(r) PROVE KeptHasCopy'
  BY <1>2 DEF TypeOK, KeptHasCopy, FailOver, historyVars
<1>3. ASSUME NEW r \in Requests, BeginWrite(r) PROVE KeptHasCopy'
  BY <1>3 DEF TypeOK, KeptHasCopy, BeginWrite, historyVars
<1>4. ASSUME NEW r \in Requests, WriteCache(r) PROVE KeptHasCopy'
  BY <1>4 DEF TypeOK, Asked, KeptHasCopy, WriteCache
<1>5. ASSUME NEW r \in Requests, BeginRequest(r, question'[r]), question'[r] \in Questions
      PROVE  KeptHasCopy'
  BY <1>5 DEF TypeOK, KeptHasCopy, BeginRequest
<1>6. ASSUME NEW q \in Questions, Evict(q) PROVE KeptHasCopy'
  BY <1>6 DEF TypeOK, KeptHasCopy, Evict
<1>7. CASE Restart
  BY <1>7 DEF KeptHasCopy, Restart
<1>8. ASSUME NEW r \in Requests, NEW q \in Questions, BeginRequest(r, q)
      PROVE  question'[r] = q
  BY <1>8 DEF TypeOK, BeginRequest
<1> QED
  BY <1>1, <1>2, <1>3, <1>4, <1>5, <1>6, <1>7, <1>8
  DEF KeptHasCopy, Next, Serve, SessionStep, Register, Commit, vars, historyVars

-----------------------------------------------------------------------------
(* Steady questions are answered with the newest content *)

LEMMA InitSteady == Init => SteadyIsNewest
  BY DEF Init, SteadyIsNewest, Steady, InFlight

\* A request that begins while another is on its way makes its question
\* unsteady, so the only one on its way is the one that is answered.
LEMMA StepSteady ==
  TypeOK /\ Asked /\ ProgressInv /\ SteadyIsNewest /\ [Next]_vars => SteadyIsNewest'
<1> SUFFICES ASSUME TypeOK, Asked, ProgressInv, SteadyIsNewest, [Next]_vars
             PROVE  SteadyIsNewest'
  OBVIOUS
<1> USE DEF ProgressInv, Progress
<1>1. ASSUME NEW q \in Questions PROVE newest'[q] <= version'
  <2>1. ASSUME NEW r \in Requests, WriteCache(r) PROVE newest'[q] <= version'
    <3>1. newest[q] <= version /\ reply[r].content \in 1..version /\ version' = version
      BY <2>1 DEF SteadyIsNewest, WriteCache
    <3>2. newest'[q] \in {newest[q], reply[r].content}
      BY <2>1 DEF TypeOK, WriteCache
    <3>3. version \in Int
      BY FallbackAssumption DEF FallbackAssumption, TypeOK
    <3> QED
      BY <3>1, <3>2, <3>3
  <2>2. version' = version \/ version' = version + 1
    BY DEF Next, ReadCache, FailOver, BeginWrite, WriteCache, Serve, SessionStep,
       BeginRequest, Evict, Register, Commit, Restart, vars
  <2>3. newest'[q] = newest[q] \/ \E r \in Requests : WriteCache(r)
    BY DEF Next, ReadCache, FailOver, BeginWrite, Serve, SessionStep,
       BeginRequest, Evict, Register, Commit, Restart, vars, historyVars
  <2>4. newest[q] \in Int /\ version \in Int /\ version' \in Int
    BY StepTyped, FallbackAssumption DEF FallbackAssumption, TypeOK, Contents, ErrorBody
  <2> QED
    BY <2>1, <2>2, <2>3, <2>4 DEF SteadyIsNewest
<1>2. ASSUME NEW q \in Questions \ unsteady' PROVE Steady(q)'
  <2>1. q \notin unsteady /\ Steady(q) /\ newest[q] <= version
    <3>1. unsteady \subseteq unsteady'
      BY DEF Next, ReadCache, FailOver, BeginWrite, WriteCache, Serve, SessionStep,
         BeginRequest, Evict, Register, Commit, Restart, vars, historyVars
    <3> QED
      BY <3>1 DEF SteadyIsNewest
  <2>2. ASSUME NEW r \in Requests, ReadCache(r) PROVE Steady(q)'
    BY <2>1, <2>2 DEF TypeOK, Asked, Steady, InFlight, ReadCache
  <2>3. ASSUME NEW r \in Requests, FailOver(r) PROVE Steady(q)'
    BY <2>1, <2>3 DEF TypeOK, Steady, InFlight, FailOver, historyVars
  <2>4. ASSUME NEW r \in Requests, BeginWrite(r) PROVE Steady(q)'
    BY <2>1, <2>4 DEF TypeOK, Steady, InFlight, BeginWrite, historyVars
  <2>5. ASSUME NEW r \in Requests, WriteCache(r) PROVE Steady(q)'
    BY <2>1, <2>5 DEF TypeOK, Asked, Steady, InFlight, WriteCache
  <2>6. ASSUME NEW r \in Requests, Serve(r) PROVE Steady(q)'
    <3>1. version \in Int /\ newest[q] \in Int
      BY FallbackAssumption DEF FallbackAssumption, TypeOK, Contents, ErrorBody
    <3>2. \A s \in Requests : reply'[s].status = "ok" =>
            reply'[s] = reply[s] \/ reply'[s].content >= newest[q]
      BY <2>1, <2>6, <3>1 DEF TypeOK, Serve
    <3>3. InFlight(q)' = InFlight(q)
      BY <2>6 DEF InFlight, Serve
    <3> QED
      BY <2>1, <2>6, <3>2, <3>3 DEF Steady, Serve, historyVars, InFlight
  <2>7. ASSUME NEW r \in Requests, NEW p \in Questions, BeginRequest(r, p) PROVE Steady(q)'
    BY <2>1, <2>7 DEF TypeOK, Steady, InFlight, BeginRequest
  <2>8. ASSUME NEW p \in Questions, Evict(p) PROVE Steady(q)'
    BY <2>1, <2>8 DEF TypeOK, Steady, InFlight, Evict
  <2>9. CASE Restart
    BY <2>1, <2>9 DEF TypeOK, Steady, InFlight, Restart
  <2> QED
    BY <2>1, <2>2, <2>3, <2>4, <2>5, <2>6, <2>7, <2>8, <2>9
    DEF Steady, InFlight, Next, SessionStep, Register, Commit, vars, historyVars
<1> QED
  BY <1>1, <1>2 DEF SteadyIsNewest

-----------------------------------------------------------------------------
(* Git cache fallback: the theorems *)

LEMMA FallbackInvariant == Spec => []FallbackInv
<1>1. Init => FallbackInv
  BY InitTyped, InitProgress, InitCopies, InitKept, InitSteady DEF FallbackInv
<1>2. FallbackInv /\ [Next]_vars => FallbackInv'
  BY StepTyped, StepAsked, StepProgress, StepCopies, StepKept, StepSteady DEF FallbackInv
<1> QED
  BY <1>1, <1>2, PTL DEF Spec

\* A client is given a 200 only with what the daemon gave to the same
\* question, and is never told 404 or 410 when its question was kept when it
\* asked and the copy was not lost since (git_cache_layer.ts stores a 200
\* before deno_main.ts returns it, and the cache is read before the session).
THEOREM FallbackSound == Spec => []FallbackIsSound
<1>1. FallbackInv => FallbackIsSound
  <2> HIDE DEF Reply
  <2> QED
    BY DEF FallbackInv, CopiesWereServed, KeptHasCopy, Served, FallbackIsSound,
       EveryOkWasServed, KeptCopyAnswers
<1> QED
  BY <1>1, FallbackInvariant, PTL

\* Without overlapping requests and failing writes for its question, no client
\* is given content older than what one before it was given.
THEOREM NeverOlder == Spec => SteadyNeverOlder
<1> DEFINE Newer == \A r \in Requests :
       /\ answer[r] = Pending /\ answer'[r].status = "ok"
       /\ question[r] \notin unsteady
       => answer'[r].content >= newest[question[r]]
<1>1. FallbackInv /\ [Next]_vars => [Newer]_vars
  <2> SUFFICES ASSUME FallbackInv, Next, NEW r \in Requests,
                      answer[r] = Pending, answer'[r].status = "ok",
                      question[r] \notin unsteady
               PROVE  answer'[r].content >= newest[question[r]]
    OBVIOUS
  <2> DEFINE q == question[r]
  <2>1. \/ ReadCache(r) \/ FailOver(r) \/ WriteCache(r)
    <3>1. ASSUME NEW s \in Requests \ {r}, ReadCache(s) \/ FailOver(s) \/ WriteCache(s)
          PROVE  answer'[r] = answer[r]
      BY <3>1 DEF FallbackInv, TypeOK, ReadCache, FailOver, WriteCache
    <3>2. answer'[r] # answer[r]
      OBVIOUS
    <3>3. \E s \in Requests : ReadCache(s) \/ FailOver(s) \/ WriteCache(s)
      BY <3>2 DEF Next, BeginWrite, Serve, SessionStep, BeginRequest, Evict,
         Register, Commit, Restart
    <3> QED
      BY <3>1, <3>2, <3>3
  <2>2. r \in InFlight(q) /\ q \in Questions
    BY <2>1 DEF FallbackInv, Asked, InFlight, ReadCache, FailOver, WriteCache
  <2>3. Steady(q)
    BY <2>2 DEF FallbackInv, SteadyIsNewest
  <2>4. CASE ReadCache(r)
    BY <2>2, <2>3, <2>4 DEF FallbackInv, TypeOK, Steady, ReadCache
  <2>5. CASE FailOver(r)
    BY <2>2, <2>3, <2>5 DEF FallbackInv, TypeOK, Steady, FailOver
  <2>6. CASE WriteCache(r)
    BY <2>2, <2>3, <2>6 DEF FallbackInv, TypeOK, Steady, WriteCache
  <2> QED
    BY <2>1, <2>4, <2>5, <2>6
<1> QED
  BY <1>1, FallbackInvariant, PTL DEF Spec, SteadyNeverOlder

-----------------------------------------------------------------------------
(* Cache store: finite sets in an order *)

\* The module of the memory store counts as this one does.
LEMMA SameCardinality == \A S : M!Cardinality(S) = Cardinality(S)
BY DEF M!Cardinality, Cardinality

LEMMA PlaceIs == \A F, x : M!Place(F, x) = Cardinality({k \in F : k < x})
BY SameCardinality DEF M!Place

Rank(D, before, x) == Cardinality({y \in D : <<y, x>> \in before})

\* The members of a finite set that is ordered by a relation have the ranks from
\* 0, without gaps.
LEMMA Ranked ==
  ASSUME NEW D, NEW before, IsFiniteSet(D),
         \A x \in D : <<x, x>> \notin before,
         \A x, y, z \in D : <<x, y>> \in before /\ <<y, z>> \in before => <<x, z>> \in before,
         \A x, y \in D : x # y => <<x, y>> \in before \/ <<y, x>> \in before
  PROVE  /\ Cardinality(D) \in Nat
         /\ \A x \in D : Rank(D, before, x) \in 0..(Cardinality(D) - 1)
         /\ \A x, y \in D : <<x, y>> \in before => Rank(D, before, x) < Rank(D, before, y)
         /\ \A x, y \in D : Rank(D, before, x) = Rank(D, before, y) => x = y
         /\ \A n \in 0..(Cardinality(D) - 1) : \E x \in D : Rank(D, before, x) = n
<1> DEFINE N == Cardinality(D)
           below(x) == {y \in D : <<y, x>> \in before}
           rank(x) == Cardinality(below(x))
           f == [x \in D |-> rank(x)]
<1>1. N \in Nat
  BY FS_CardinalityType
<1>2. \A x \in D : IsFiniteSet(below(x)) /\ rank(x) \in Nat
  BY FS_Subset, FS_CardinalityType
<1>3. ASSUME NEW x \in D PROVE rank(x) \in 0..(N - 1)
  <2>1. below(x) \in SUBSET (D \ {x})
    OBVIOUS
  <2>2. IsFiniteSet(D \ {x}) /\ Cardinality(D \ {x}) = N - 1
    BY FS_RemoveElement
  <2> HIDE DEF below
  <2>3. Cardinality(below(x)) <= N - 1
    BY <2>1, <2>2, FS_Subset
  <2> QED
    BY <1>1, <1>2, <2>3
<1>4. ASSUME NEW x \in D, NEW y \in D, <<x, y>> \in before PROVE rank(x) < rank(y)
  <2>1. below(x) \in SUBSET below(y) /\ x \in below(y) /\ x \notin below(x)
    BY <1>4
  <2> HIDE DEF below
  <2>2. Cardinality(below(x)) <= Cardinality(below(y))
        /\ Cardinality(below(x)) # Cardinality(below(y))
    BY <1>2, <2>1, FS_Subset
  <2> QED
    BY <1>2, <2>2
<1>5. ASSUME NEW x \in D, NEW y \in D, rank(x) = rank(y) PROVE x = y
  <2> SUFFICES ASSUME x # y PROVE FALSE
    OBVIOUS
  <2>1. <<x, y>> \in before \/ <<y, x>> \in before
    OBVIOUS
  <2> HIDE DEF below
  <2>2. rank(x) < rank(y) \/ rank(y) < rank(x)
    BY <1>4, <2>1
  <2> QED
    BY <1>2, <1>5, <2>2
<1>6. f \in Surjection(D, 0..(N - 1))
  <2>1. f \in Injection(D, 0..(N - 1))
    <3>1. f \in [D -> 0..(N - 1)] /\ \A x, y \in D : f[x] = f[y] => x = y
      <4> HIDE DEF rank
      <4> QED
        BY <1>3, <1>5
    <3> HIDE DEF f
    <3> QED
      BY <3>1, Fun_IsInj
  <2>2. IsFiniteSet(0..(N - 1)) /\ Cardinality(0..(N - 1)) = N
    <3> HIDE DEF N
    <3>1. IsFiniteSet(0..(N - 1))
          /\ Cardinality(0..(N - 1)) = IF 0 > N - 1 THEN 0 ELSE (N - 1) - 0 + 1
      BY <1>1, FS_Interval
    <3> QED
      BY <1>1, <3>1
  <2> HIDE DEF f
  <2> QED
    BY <2>1, <2>2, FS_Injection DEF N
<1>7. \A n \in 0..(N - 1) : \E x \in D : rank(x) = n
  <2>1. \A n \in 0..(N - 1) : \E x \in D : f[x] = n
    <3> HIDE DEF f, N
    <3> QED
      BY <1>6, Zenon DEF Surjection
  <2> HIDE DEF rank, N
  <2> QED
    BY <2>1
<1>8. \A x : Rank(D, before, x) = rank(x)
  BY DEF Rank
<1> HIDE DEF rank
<1> QED
  BY <1>1, <1>3, <1>4, <1>5, <1>7, <1>8

LEMMA RankReached ==
  ASSUME NEW D, NEW before, IsFiniteSet(D),
         \A x \in D : <<x, x>> \notin before,
         \A x, y, z \in D : <<x, y>> \in before /\ <<y, z>> \in before => <<x, z>> \in before,
         \A x, y \in D : x # y => <<x, y>> \in before \/ <<y, x>> \in before,
         NEW n \in 0..(Cardinality(D) - 1)
  PROVE  \E x \in D : Rank(D, before, x) = n
BY Ranked

\* The places of the keys of a list.
LEMMA PlaceFacts ==
  ASSUME NEW F \in SUBSET Nat, IsFiniteSet(F)
  PROVE  /\ Cardinality(F) \in Nat
         /\ \A k \in F : M!Place(F, k) \in Nat /\ M!Place(F, k) < Cardinality(F)
         /\ \A j, k \in F : M!Place(F, j) = M!Place(F, k) => j = k
         /\ \A n \in Nat : n < Cardinality(F) => \E k \in F : M!Place(F, k) = n
<1>1. PICK less : \A x, y \in F : <<x, y>> \in less <=> x < y
  <2> DEFINE less == {p \in F \X F : p[1] < p[2]}
  <2>1. \A x, y \in F : <<x, y>> \in less <=> x < y
    OBVIOUS
  <2> HIDE DEF less
  <2> QED
    BY <2>1
<1>2. ASSUME NEW x \in F PROVE M!Place(F, x) = Rank(F, less, x)
  <2>1. {y \in F : <<y, x>> \in less} = {y \in F : y < x}
    BY <1>1
  <2> QED
    BY <2>1, PlaceIs DEF Rank
<1>3. \A x \in F : <<x, x>> \notin less
  BY <1>1
<1>5. \A x, y, z \in F : <<x, y>> \in less /\ <<y, z>> \in less => <<x, z>> \in less
  BY <1>1
<1>6. \A x, y \in F : x # y => <<x, y>> \in less \/ <<y, x>> \in less
  BY <1>1
<1>7. F \in SUBSET Nat /\ IsFiniteSet(F)
  OBVIOUS
<1> HIDE DEF Rank
<1>4. /\ Cardinality(F) \in Nat
      /\ \A x \in F : Rank(F, less, x) \in 0..(Cardinality(F) - 1)
  BY <1>3, <1>5, <1>6, Ranked
<1>8. \A n \in 0..(Cardinality(F) - 1) : \E x \in F : Rank(F, less, x) = n
  BY <1>3, <1>5, <1>6, RankReached
<1>9. \A x, y \in F : <<x, y>> \in less => Rank(F, less, x) < Rank(F, less, y)
  BY <1>3, <1>5, <1>6, Ranked
<1>10. \A x \in F : M!Place(F, x) \in Nat /\ M!Place(F, x) < Cardinality(F)
  BY <1>2, <1>4
<1>11. ASSUME NEW x \in F, NEW y \in F, M!Place(F, x) = M!Place(F, y) PROVE x = y
  <2>1. <<x, y>> \in less => M!Place(F, x) < M!Place(F, y)
    BY <1>2, <1>9
  <2>2. <<y, x>> \in less => M!Place(F, y) < M!Place(F, x)
    BY <1>2, <1>9
  <2> QED
    BY <1>6, <1>10, <1>11, <2>1, <2>2
<1>12. \A n \in Nat : n < Cardinality(F) => \E k \in F : M!Place(F, k) = n
  BY <1>2, <1>4, <1>8
<1> QED
  BY <1>4, <1>10, <1>11, <1>12

\* Between two places there are as many entries as the list is long enough for.
LEMMA BetweenPlaces ==
  ASSUME NEW F \in SUBSET Nat, IsFiniteSet(F), NEW a \in Nat, NEW b \in Nat, a <= b
  PROVE  LET B == {k \in F : a <= M!Place(F, k) /\ M!Place(F, k) < b} IN
         /\ IsFiniteSet(B) /\ Cardinality(B) \in Nat /\ Cardinality(B) <= b - a
         /\ b <= Cardinality(F) => Cardinality(B) = b - a
<1> DEFINE B == {k \in F : a <= M!Place(F, k) /\ M!Place(F, k) < b}
           f == [k \in B |-> M!Place(F, k)]
           I == a..(b - 1)
<1>1. IsFiniteSet(B) /\ Cardinality(B) \in Nat
  BY FS_Subset, FS_CardinalityType
<1>2. IsFiniteSet(I) /\ Cardinality(I) = b - a
  <2>1. IsFiniteSet(a..(b - 1))
        /\ Cardinality(a..(b - 1)) = IF a > b - 1 THEN 0 ELSE (b - 1) - a + 1
    BY FS_Interval
  <2> QED
    BY <2>1
<1>3. f \in [B -> I] /\ \A j, k \in B : f[j] = f[k] => j = k
  <2>1. /\ \A k \in F : M!Place(F, k) \in Nat
        /\ \A j, k \in F : M!Place(F, j) = M!Place(F, k) => j = k
    BY PlaceFacts
  <2>2. \A k \in B : M!Place(F, k) \in I
    BY <2>1
  <2> HIDE DEF I
  <2> QED
    BY <2>1, <2>2
<1>4. f \in Injection(B, I)
  <2> HIDE DEF f, B, I
  <2> QED
    BY <1>3, Fun_IsInj
<1>5. Cardinality(B) <= b - a
  <2> HIDE DEF f, B, I
  <2> QED
    BY <1>2, <1>4, FS_Injection
<1>6. ASSUME b <= Cardinality(F) PROVE Cardinality(B) = b - a
  <2>1. \A n \in I : \E k \in B : f[k] = n
    <3> SUFFICES ASSUME NEW n \in I PROVE \E k \in B : f[k] = n
      OBVIOUS
    <3>1. n \in Nat /\ a <= n /\ n < b /\ n < Cardinality(F)
      BY <1>6, PlaceFacts
    <3>2. PICK k \in F : M!Place(F, k) = n
      BY <3>1, PlaceFacts
    <3> QED
      BY <3>1, <3>2
  <2>2. f \in Surjection(B, I)
    <3> HIDE DEF f, B, I
    <3> QED
      BY <1>3, <2>1 DEF Surjection
  <2> HIDE DEF f, B, I
  <2> QED
    BY <1>1, <1>2, <1>4, <2>2, FS_Injection
<1> QED
  BY <1>1, <1>5, <1>6

\* From a list to another, those in front of a cursor grow by at most as many as
\* are no longer listed.
LEMMA RemovalsShift ==
  ASSUME NEW F \in SUBSET Nat, IsFiniteSet(F), NEW G \in SUBSET Nat, IsFiniteSet(G),
         NEW U \in SUBSET (F \cap G), NEW c \in Nat
  PROVE  LET front(L) == {k \in U : M!Place(L, k) < c} IN
         /\ \A L : IsFiniteSet(front(L)) /\ Cardinality(front(L)) \in Nat
         /\ IsFiniteSet(F \ G) /\ Cardinality(F \ G) \in Nat
         /\ Cardinality(front(G)) <= Cardinality(front(F)) + Cardinality(F \ G)
<1> DEFINE H == F \cap G
           front(L) == {k \in U : M!Place(L, k) < c}
           A == {k \in H : 0 <= M!Place(H, k) /\ M!Place(H, k) < c}
           B == {k \in F : 0 <= M!Place(F, k) /\ M!Place(F, k) < c}
           gone == F \ G
<1>1. IsFiniteSet(H) /\ H \in SUBSET Nat /\ IsFiniteSet(gone) /\ IsFiniteSet(U)
      /\ Cardinality(gone) \in Nat
  BY FS_Subset, FS_CardinalityType
<1>2. ASSUME NEW L PROVE IsFiniteSet(front(L)) /\ Cardinality(front(L)) \in Nat
  <2>1. front(L) \in SUBSET U
    OBVIOUS
  <2> HIDE DEF front
  <2> QED
    BY <1>1, <2>1, FS_Subset, FS_CardinalityType
<1>3. ASSUME NEW S \in SUBSET Nat, IsFiniteSet(S), NEW T \in SUBSET S, NEW k \in Nat
      PROVE  M!Place(T, k) <= M!Place(S, k) /\ M!Place(T, k) \in Nat /\ M!Place(S, k) \in Nat
  <2>1. {j \in T : j < k} \in SUBSET {j \in S : j < k}
    OBVIOUS
  <2>2. IsFiniteSet({j \in S : j < k})
    BY <1>3, FS_Subset
  <2>3. /\ Cardinality({j \in T : j < k}) <= Cardinality({j \in S : j < k})
        /\ Cardinality({j \in T : j < k}) \in Nat /\ Cardinality({j \in S : j < k}) \in Nat
    BY <2>1, <2>2, FS_Subset, FS_CardinalityType
  <2> QED
    BY <2>3, PlaceIs
<1>4. \A k \in H : /\ M!Place(H, k) <= M!Place(F, k) /\ M!Place(H, k) <= M!Place(G, k)
                   /\ M!Place(H, k) \in Nat /\ M!Place(F, k) \in Nat /\ M!Place(G, k) \in Nat
  BY <1>3
<1>5. /\ IsFiniteSet(A) /\ Cardinality(A) \in Nat /\ Cardinality(A) <= c
      /\ IsFiniteSet(B) /\ Cardinality(B) \in Nat
      /\ c <= Cardinality(F) => Cardinality(B) = c
  <2>1. /\ IsFiniteSet(A) /\ Cardinality(A) \in Nat /\ Cardinality(A) <= c - 0
    <3> HIDE DEF H
    <3> QED
      BY <1>1, BetweenPlaces
  <2>2. /\ IsFiniteSet(B) /\ Cardinality(B) \in Nat
        /\ c <= Cardinality(F) => Cardinality(B) = c - 0
    BY BetweenPlaces
  <2> HIDE DEF A, B
  <2> QED
    BY <2>1, <2>2
<1>6. Cardinality(A \ B) \in Nat /\ IsFiniteSet(A \ B) /\ Cardinality(A \ B) <= Cardinality(gone)
  <2>1. Cardinality(A \ B) \in Nat /\ IsFiniteSet(A \ B)
    <3> HIDE DEF A, B
    <3> QED
      BY <1>5, FS_Difference, FS_CardinalityType
  <2>2. CASE A \ B = {}
    <3> HIDE DEF A, B, gone
    <3> QED
      BY <1>1, <2>2, FS_EmptySet
  <2>3. CASE A \ B # {}
    <3>1. PICK k \in H : ~(M!Place(F, k) < c)
      <4>1. PICK k : k \in A /\ k \notin B
        BY <2>3
      <4>2. k \in H /\ k \in F /\ M!Place(F, k) \in Nat
        BY <1>4, <4>1
      <4> QED
        BY <4>1, <4>2
    <3>2. c <= Cardinality(F)
      <4>1. M!Place(F, k) \in Nat /\ M!Place(F, k) < Cardinality(F) /\ Cardinality(F) \in Nat
        BY PlaceFacts
      <4> QED
        BY <3>1, <4>1
    <3>3. B \ gone = A \cap B
      <4>1. \A j \in B : j \in A <=> j \notin gone
        BY <1>4
      <4> HIDE DEF A, B, gone
      <4> QED
        BY <4>1
    <3> HIDE DEF A, B, gone
    <3>4. Cardinality(A \ B) = Cardinality(A) - Cardinality(A \cap B)
      BY <1>5, FS_Difference
    <3>5. Cardinality(B \ gone) = Cardinality(B) - Cardinality(B \cap gone)
      BY <1>5, FS_Difference
    <3>6. Cardinality(B \cap gone) <= Cardinality(gone) /\ Cardinality(B \cap gone) \in Nat
      BY <1>1, FS_Intersection, FS_CardinalityType
    <3>7. Cardinality(B) = c /\ Cardinality(A) <= c /\ Cardinality(A) \in Nat
      BY <1>5, <3>2
    <3>8. Cardinality(A \cap B) = Cardinality(B) - Cardinality(B \cap gone)
      BY <3>3, <3>5
    <3>9. Cardinality(A \ B) <= Cardinality(B \cap gone)
      BY <3>4, <3>6, <3>7, <3>8
    <3> QED
      BY <1>1, <2>1, <3>6, <3>9
  <2> QED
    BY <2>1, <2>2, <2>3
<1>7. front(G) \in SUBSET (front(F) \cup (A \ B))
  <2> SUFFICES ASSUME NEW k \in front(G), k \notin front(F) PROVE k \in A \ B
    OBVIOUS
  <2>1. k \in H /\ k \in U /\ M!Place(G, k) < c /\ ~(M!Place(F, k) < c)
    OBVIOUS
  <2> QED
    BY <1>4, <2>1
<1>8. Cardinality(front(G)) <= Cardinality(front(F)) + Cardinality(A \ B)
  <2>1. IsFiniteSet(front(F)) /\ Cardinality(front(F)) \in Nat
        /\ IsFiniteSet(front(G)) /\ Cardinality(front(G)) \in Nat
    BY <1>2
  <2> DEFINE ff == front(F)
             fg == front(G)
             rest == A \ B
  <2> HIDE DEF ff, fg, rest
  <2>2. IsFiniteSet(ff \cup rest)
        /\ Cardinality(ff \cup rest) = Cardinality(ff) + Cardinality(rest) - Cardinality(ff \cap rest)
    BY <1>6, <2>1, FS_Union DEF ff, rest
  <2>3. Cardinality(ff \cap rest) \in Nat
    BY <2>1, FS_Intersection, FS_CardinalityType DEF ff
  <2>4. Cardinality(fg) <= Cardinality(ff \cup rest)
    BY <1>7, <2>2, FS_Subset DEF fg, ff, rest
  <2>5. Cardinality(ff) \in Nat /\ Cardinality(fg) \in Nat /\ Cardinality(rest) \in Nat
    BY <1>6, <2>1 DEF ff, fg, rest
  <2>6. Cardinality(fg) <= Cardinality(ff) + Cardinality(rest)
    BY <2>2, <2>3, <2>4, <2>5
  <2> QED
    BY <2>6 DEF ff, fg, rest
<1> HIDE DEF front, A, B, gone
<1>9. Cardinality(front(G)) <= Cardinality(front(F)) + Cardinality(gone)
  BY <1>1, <1>2, <1>6, <1>8
<1> QED
  BY <1>1, <1>2, <1>9 DEF front, gone

-----------------------------------------------------------------------------
(* Cache store: types *)

Call ==
  [step : {"idle", "write", "list", "delete"}, op : {"put", "get", "remove", "list"},
   record : M!Records(Keys, Sizes) \cup {<< >>}, doomed : Seq(Keys)]

Reading ==
  [phase : {"idle", "ready", "listing", "done"}, cursor : Nat, got : SUBSET Keys,
   entries : SUBSET Keys, stored : SUBSET Keys, removed : Nat]

StoresInv ==
  /\ now \in 0..MaxTime
  /\ bucket \subseteq M!Records(Keys, Sizes) /\ M!Keyed(bucket) /\ IsFiniteSet(bucket)
  /\ memory \subseteq M!Records(Keys, Sizes) /\ M!Keyed(memory)

CallsInv ==
  /\ calls \in [Everyone -> Call]
  /\ \A c \in Everyone :
       /\ calls[c].step = "delete" <=> calls[c].doomed # << >>
       /\ calls[c].step = "write" => /\ calls[c].record \in M!Records(Keys, Sizes)
                                     /\ calls[c].record.at <= now
       /\ calls[c].step # "delete" => calls[c].op = "put"

ReaderInv == reader \in Reading /\ IsFiniteSet(reader.entries)

\* The types of the store, and what holds of each call by itself.
TypeInv ==
  /\ StoresInv /\ CallsInv /\ ReaderInv
  /\ happened \in 0..MaxEvents /\ behind \in BOOLEAN /\ raced \in BOOLEAN

\* The records of the bucket can be put in an order to delete them.
LEMMA InTurnFacts ==
  ASSUME R2Assumption, NEW D, IsFiniteSet(D), D \subseteq M!Records(Keys, Sizes), M!Keyed(D),
         now \in Nat
  PROVE  /\ Cardinality(D) \in Nat
         /\ InTurn(D) \in [1..Cardinality(D) -> Keys]
         /\ \A n \in 1..Cardinality(D) : \E r \in D : InTurn(D)[n] = r.key
         /\ \A r \in D : \E n \in 1..Cardinality(D) : InTurn(D)[n] = r.key
         /\ \A r, s \in D, m, n \in 1..Cardinality(D) :
              InTurn(D)[m] = r.key /\ InTurn(D)[n] = s.key /\ Before(r, s) => m < n
<1>1. PICK before : \A r, s \in D : <<r, s>> \in before <=> Before(r, s)
  <2> DEFINE before == {p \in D \X D : Before(p[1], p[2])}
  <2>1. \A r, s \in D : <<r, s>> \in before <=> Before(r, s)
    OBVIOUS
  <2> HIDE DEF before
  <2> QED
    BY <2>1
<1> DEFINE rank(r) == Cardinality({s \in D : Before(s, r)})
<1>2. ASSUME NEW r \in D PROVE rank(r) = Rank(D, before, r)
  <2>1. {s \in D : <<s, r>> \in before} = {s \in D : Before(s, r)}
    BY <1>1
  <2> QED
    BY <2>1 DEF Rank
<1>3. \A r \in D : r.key \in Keys /\ r.key \in Nat /\ r.at \in Nat
  BY DEF R2Assumption, M!Records
<1>4. Ttl \in Nat
  BY DEF R2Assumption
<1>5. \A r, s \in D : r # s => r.key # s.key
  BY DEF M!Keyed
<1> USE DEF Before, M!Expired, M!Older
<1>6. \A x \in D : <<x, x>> \notin before
  BY <1>1, <1>3
<1>7. \A x, y, z \in D : <<x, y>> \in before /\ <<y, z>> \in before => <<x, z>> \in before
  BY <1>1, <1>3, <1>4
<1>8. \A x, y \in D : x # y => <<x, y>> \in before \/ <<y, x>> \in before
  BY <1>1, <1>3, <1>4, <1>5
<1> HIDE DEF Before, M!Expired, M!Older
<1>9. /\ Cardinality(D) \in Nat
      /\ \A x \in D : Rank(D, before, x) \in 0..(Cardinality(D) - 1)
  BY <1>6, <1>7, <1>8, Ranked
<1>10. \A n \in 0..(Cardinality(D) - 1) : \E x \in D : Rank(D, before, x) = n
  BY <1>6, <1>7, <1>8, RankReached
<1>11. \A x, y \in D : <<x, y>> \in before => Rank(D, before, x) < Rank(D, before, y)
  BY <1>6, <1>7, <1>8, Ranked
<1> DEFINE nth(n) == CHOOSE r \in D : rank(r) = n - 1
<1>12. ASSUME NEW n \in 1..Cardinality(D) PROVE nth(n) \in D /\ rank(nth(n)) = n - 1
  <2>1. n - 1 \in 0..(Cardinality(D) - 1)
    BY <1>9
  <2>2. \E r \in D : rank(r) = n - 1
    BY <1>2, <1>10, <2>1
  <2> HIDE DEF rank
  <2> QED
    BY <2>2
<1>13. InTurn(D) = [n \in 1..Cardinality(D) |-> nth(n).key]
  BY DEF InTurn
<1> HIDE DEF rank, nth
<1>14. InTurn(D) \in [1..Cardinality(D) -> Keys]
  BY <1>3, <1>12, <1>13
<1>15. ASSUME NEW r \in D, NEW n \in 1..Cardinality(D), InTurn(D)[n] = r.key
       PROVE  rank(r) = n - 1
  <2>1. nth(n).key = r.key
    BY <1>13, <1>15
  <2> QED
    BY <1>5, <1>12, <2>1
<1>16. ASSUME NEW r \in D PROVE \E n \in 1..Cardinality(D) : InTurn(D)[n] = r.key
  <2>1. rank(r) \in 0..(Cardinality(D) - 1)
    BY <1>2, <1>9
  <2>2. rank(r) + 1 \in 1..Cardinality(D)
    BY <1>9, <2>1
  <2>3. rank(nth(rank(r) + 1)) = rank(r) /\ nth(rank(r) + 1) \in D
    BY <1>12, <2>1, <2>2
  <2> DEFINE s == nth(rank(r) + 1)
  <2>4. ~(<<r, s>> \in before) /\ ~(<<s, r>> \in before)
    <3> HIDE DEF s
    <3>1. s \in D /\ rank(s) = rank(r)
      BY <2>3 DEF s
    <3>2. Rank(D, before, r) = Rank(D, before, s) /\ Rank(D, before, r) \in Nat
      BY <1>2, <1>9, <2>1, <3>1
    <3> QED
      BY <1>11, <3>1, <3>2
  <2>5. s = r
    <3> HIDE DEF s
    <3> QED
      BY <1>8, <2>3, <2>4 DEF s
  <2>6. InTurn(D)[rank(r) + 1] = r.key
    <3>1. InTurn(D)[rank(r) + 1] = s.key
      BY <1>13, <2>2
    <3> HIDE DEF s
    <3> QED
      BY <2>5, <3>1
  <2> QED
    BY <2>2, <2>6
<1>17. ASSUME NEW r \in D, NEW s \in D, NEW m \in 1..Cardinality(D), NEW n \in 1..Cardinality(D),
              InTurn(D)[m] = r.key, InTurn(D)[n] = s.key, Before(r, s)
       PROVE  m < n
  <2>1. rank(r) < rank(s)
    BY <1>1, <1>2, <1>11, <1>17
  <2>2. rank(r) = m - 1 /\ rank(s) = n - 1
    BY <1>15, <1>17
  <2> QED
    BY <1>9, <2>1, <2>2
<1>18. \A n \in 1..Cardinality(D) : \E r \in D : InTurn(D)[n] = r.key
  BY <1>12, <1>13
<1> QED
  BY <1>9, <1>14, <1>16, <1>17, <1>18

LEMMA Typed == R2Assumption /\ TypeInv => StoreTypeOK
<1> SUFFICES ASSUME R2Assumption, TypeInv PROVE StoreTypeOK
  OBVIOUS
<1>1. ASSUME NEW c \in Everyone
      PROVE  /\ calls[c].step \in {"idle", "write", "list", "delete"}
             /\ calls[c].op \in {"put", "get", "remove", "list"}
             /\ calls[c].doomed \in Seq(Keys)
             /\ calls[c].step = "delete" <=> calls[c].doomed # << >>
             /\ calls[c].step = "write" => calls[c].record \in M!Records(Keys, Sizes)
  BY DEF TypeInv, CallsInv, Call
<1>2. /\ reader.phase \in {"idle", "ready", "listing", "done"}
      /\ reader.cursor \in Nat /\ reader.removed \in Nat
      /\ reader.got \cup reader.stored \cup reader.entries \subseteq Keys
  BY DEF TypeInv, ReaderInv, Reading
<1> QED
  BY <1>1, <1>2 DEF TypeInv, StoresInv, StoreTypeOK

LEMMA IdleFacts == Idle \in Call /\ Idle.step = "idle" /\ Idle.op = "put" /\ Idle.doomed = << >>
BY DEF Idle, Call

LEMMA DoomFacts ==
  ASSUME NEW call \in Call, NEW doomed \in Seq(Keys)
  PROVE  LET next == Doom(call, doomed) IN
         /\ next \in Call /\ next.doomed = doomed
         /\ next.step = IF doomed = << >> THEN "idle" ELSE "delete"
         /\ next.op = IF doomed = << >> THEN "put" ELSE call.op
<1>1. CASE doomed = << >>
  BY <1>1, IdleFacts DEF Doom
<1>2. CASE doomed # << >>
  BY <1>2 DEF Doom, Call
<1> QED
  BY <1>1, <1>2

\* What a step of one call leaves as it is.
LEMMA CallStep ==
  ASSUME TypeInv, NEW c \in Everyone, NEW call \in Call, Becomes(c, call)
  PROVE  /\ calls' \in [Everyone -> Call]
         /\ calls'[c] = call
         /\ \A d \in Everyone : d # c => calls'[d] = calls[d]
BY DEF TypeInv, CallsInv, Becomes

LEMMA CallsTyped ==
  ASSUME TypeInv, NEW c \in Everyone, NEW call \in Call, Becomes(c, call), now' = now,
         call.step = "delete" <=> call.doomed # << >>,
         call.step = "write" => call.record \in M!Records(Keys, Sizes) /\ call.record.at <= now,
         call.step # "delete" => call.op = "put"
  PROVE  CallsInv'
<1>1. ASSUME NEW d \in Everyone
      PROVE  /\ calls'[d].step = "delete" <=> calls'[d].doomed # << >>
             /\ calls'[d].step = "write" => /\ calls'[d].record \in M!Records(Keys, Sizes)
                                            /\ calls'[d].record.at <= now'
             /\ calls'[d].step # "delete" => calls'[d].op = "put"
  <2>1. CASE d = c
    BY <2>1, CallStep
  <2>2. CASE d # c
    BY <2>2, CallStep DEF TypeInv, CallsInv
  <2> QED
    BY <2>1, <2>2
<1>2. calls' \in [Everyone -> Call]
  BY CallStep
<1> QED
  BY <1>1, <1>2 DEF CallsInv, Everyone, M!Records

LEMMA FreshKeysFinite == ASSUME IsFiniteSet(bucket) PROVE IsFiniteSet(FreshKeys)
<1>1. IsFiniteSet(M!Fresh(bucket))
  BY FS_Subset DEF M!Fresh
<1> DEFINE f == [r \in M!Fresh(bucket) |-> r.key]
<1>2. f \in Surjection(M!Fresh(bucket), FreshKeys)
  BY DEF Surjection, FreshKeys
<1> HIDE DEF f
<1> QED
  BY <1>1, <1>2, FS_Surjection

LEMMA FreshKeysPrimed == ASSUME IsFiniteSet(bucket') PROVE IsFiniteSet(FreshKeys')
<1>1. IsFiniteSet(M!Fresh(bucket)')
  BY FS_Subset DEF M!Fresh
<1> DEFINE f == [r \in M!Fresh(bucket)' |-> r.key]
<1>2. f \in Surjection(M!Fresh(bucket)', FreshKeys')
  BY DEF Surjection, FreshKeys
<1> HIDE DEF f
<1> QED
  BY <1>1, <1>2, FS_Surjection

LEMMA FreshKeysTyped == ASSUME StoresInv PROVE FreshKeys \subseteq Keys
BY DEF FreshKeys, M!Fresh, StoresInv, M!Records

LEMMA ObserveTyped ==
  ASSUME ReaderInv, IsFiniteSet(bucket), Observe
  PROVE  ReaderInv'
<1>1. FreshKeys \ FreshKeys' \in SUBSET FreshKeys
  OBVIOUS
<1>2. Cardinality(FreshKeys \ FreshKeys') \in Nat
  BY <1>1, FreshKeysFinite, FS_Subset, FS_CardinalityType
<1>3. CASE reader.phase \in {"ready", "listing"}
  <2>1. reader' = [reader EXCEPT !.stored = @ \cap FreshKeys',
                                 !.removed = @ + Cardinality(FreshKeys \ FreshKeys')]
    BY <1>3, Zenon DEF Observe
  <2> DEFINE fresh == FreshKeys'
             gone == Cardinality(FreshKeys \ FreshKeys')
  <2> HIDE DEF fresh, gone
  <2>2. reader' = [reader EXCEPT !.stored = reader.stored \cap fresh, !.removed = reader.removed + gone]
    BY <2>1, Zenon DEF fresh, gone
  <2>3. gone \in Nat
    BY <1>2 DEF gone
  <2>4. reader.stored \cap fresh \in SUBSET Keys /\ reader.removed + gone \in Nat
    BY <2>3 DEF ReaderInv, Reading
  <2>5. \A r \in Reading, s \in SUBSET Keys, n \in Nat :
          LET q == [r EXCEPT !.stored = s, !.removed = n] IN
          q \in Reading /\ q.entries = r.entries
    BY DEF Reading
  <2>6. reader' \in Reading /\ reader'.entries = reader.entries
    BY <2>2, <2>4, <2>5 DEF ReaderInv
  <2> QED
    BY <2>6 DEF ReaderInv
<1>4. CASE reader.phase \notin {"ready", "listing"}
  <2>1. reader' = reader
    BY <1>4, Zenon DEF Observe
  <2> QED
    BY <2>1 DEF ReaderInv
<1> QED
  BY <1>3, <1>4

LEMMA WrittenTyped ==
  ASSUME TypeInv, NEW c \in Everyone, calls[c].step = "write", Written(c), now' = now
  PROVE  StoresInv' /\ raced' \in BOOLEAN
<1> DEFINE r == calls[c].record
<1>1. r \in M!Records(Keys, Sizes)
  BY DEF TypeInv, CallsInv
<1>2. bucket' = M!Without(bucket, r.key) \cup {r}
  BY DEF Written
<1>3. memory' = M!Fits(M!Without(M!Fresh(memory), r.key) \cup {r})
  BY DEF Written, M!Put
<1>4. memory' \subseteq M!Without(memory, r.key) \cup {r}
  <2> HIDE DEF r
  <2> QED
    BY <1>3 DEF M!Fits, M!Without, M!Fresh
<1>5. M!Without(bucket, r.key) \in SUBSET bucket
  BY DEF M!Without
<1>6. IsFiniteSet(bucket')
  BY <1>2, <1>5, FS_Subset, FS_AddElement DEF TypeInv, StoresInv
<1>7. raced' \in BOOLEAN
  BY Zenon DEF Written, TypeInv, OutOfTurn, Untidy
<1> HIDE DEF r
<1>8. \A R : M!Keyed(R) => M!Keyed(M!Without(R, r.key) \cup {r})
  BY DEF M!Keyed, M!Without
<1>9. \A R, S : M!Keyed(R) /\ S \subseteq R => M!Keyed(S)
  BY DEF M!Keyed
<1>10. M!Keyed(memory')
  <2>1. M!Keyed(M!Without(memory, r.key) \cup {r})
    BY <1>8 DEF TypeInv, StoresInv
  <2> QED
    BY <1>4, <1>9, <2>1
<1>11. M!Keyed(bucket')
  BY <1>2, <1>8 DEF TypeInv, StoresInv
<1>12. /\ bucket' \subseteq M!Records(Keys, Sizes) /\ memory' \subseteq M!Records(Keys, Sizes)
  BY <1>1, <1>2, <1>4, <1>5 DEF TypeInv, StoresInv, M!Without
<1>13. now' \in 0..MaxTime
  BY DEF TypeInv, StoresInv
<1> QED
  BY <1>6, <1>7, <1>10, <1>11, <1>12, <1>13 DEF StoresInv, M!Keyed, M!Records

\* What loses records keeps its type.
LEMMA FewerTyped ==
  ASSUME StoresInv, bucket' \subseteq bucket, memory' \subseteq memory, now' \in 0..MaxTime
  PROVE  StoresInv'
<1>1. IsFiniteSet(bucket')
  BY FS_Subset DEF StoresInv
<1>2. M!Keyed(bucket)' /\ M!Keyed(memory)'
  BY DEF StoresInv, M!Keyed
<1> QED
  BY <1>1, <1>2 DEF StoresInv, M!Records

LEMMA InTurnTyped ==
  ASSUME R2Assumption, StoresInv, NEW D, D \subseteq bucket
  PROVE  InTurn(D) \in Seq(Keys) /\ Len(InTurn(D)) = Cardinality(D) /\ Cardinality(D) \in Nat
<1>1. IsFiniteSet(D) /\ D \subseteq M!Records(Keys, Sizes) /\ M!Keyed(D) /\ now \in Nat
  BY FS_Subset DEF StoresInv, M!Keyed
<1>2. Cardinality(D) \in Nat /\ InTurn(D) \in [1..Cardinality(D) -> Keys]
  BY <1>1, InTurnFacts
<1> QED
  BY <1>2

LEMMA TypeStep == ASSUME R2Assumption, TypeInv, [StoreNext]_storeVars PROVE TypeInv'
<1> USE DEF TypeInv
<1>1. \A c \in Callers : c \in Everyone
  BY DEF Everyone
<1>2. Reader \in Everyone
  BY DEF Everyone
<1>3. UNCHANGED <<bucket, memory, now>> => StoresInv'
  BY DEF StoresInv, M!Keyed, M!Records
<1>4. reader' = reader => ReaderInv'
  BY DEF ReaderInv
<1>5. Happens => happened' \in 0..MaxEvents
  BY DEF Happens, R2Assumption
<1>6. << >> \in Seq(Keys)
  OBVIOUS
<1>7. ASSUME NEW c \in Callers, NEW key \in Keys, NEW size \in Sizes, Put(c, key, size) PROVE TypeInv'
  <2> DEFINE r == [key |-> key, at |-> now, size |-> size]
             call == [Idle EXCEPT !.step = "write", !.record = r]
  <2>1. r \in M!Records(Keys, Sizes) /\ r.at = now /\ now \in Nat
    BY DEF StoresInv, M!Records
  <2>2. call \in Call /\ call.step = "write" /\ call.op = "put" /\ call.record = r /\ call.doomed = << >>
    <3> HIDE DEF r
    <3>1. \A q \in Call, x \in M!Records(Keys, Sizes) :
            LET p == [q EXCEPT !.step = "write", !.record = x] IN
            p \in Call /\ p.step = "write" /\ p.op = q.op /\ p.record = x /\ p.doomed = q.doomed
      BY DEF Call
    <3> QED
      BY <2>1, <3>1, IdleFacts
  <2>3. Becomes(c, call) /\ Happens /\ UNCHANGED <<now, bucket, memory, reader, behind, raced>>
    BY <1>7 DEF Put
  <2> HIDE DEF call, r
  <2>4. CallsInv'
    BY <1>1, <2>1, <2>2, <2>3, CallsTyped
  <2> QED
    BY <1>3, <1>4, <1>5, <2>3, <2>4
<1>8. ASSUME NEW c \in Callers, Write(c) PROVE TypeInv'
  <2> DEFINE call == IF Ttl = 0 /\ MaxBytes = 0 THEN Idle ELSE [Idle EXCEPT !.step = "list"]
  <2>1. call \in Call /\ call.step \in {"idle", "list"} /\ call.op = "put" /\ call.doomed = << >>
    <3>1. call = Idle \/ call = [step |-> "list", op |-> "put", record |-> << >>, doomed |-> << >>]
      BY DEF Idle
    <3> HIDE DEF call
    <3> QED
      BY <1>6, <3>1, IdleFacts DEF Call
  <2>2. Becomes(c, call) /\ UNCHANGED <<now, happened, behind>> /\ calls[c].step = "write" /\ Written(c) /\ Observe
    BY <1>8 DEF Write
  <2> HIDE DEF call
  <2>3. CallsInv'
    BY <1>1, <2>1, <2>2, CallsTyped
  <2>4. StoresInv' /\ raced' \in BOOLEAN
    BY <1>1, <2>2, WrittenTyped
  <2>5. ReaderInv'
    BY <2>2, ObserveTyped DEF StoresInv
  <2> QED
    BY <2>2, <2>3, <2>4, <2>5
<1>9. ASSUME NEW c \in Callers, ListForPolicy(c) PROVE TypeInv'
  <2> DEFINE doomed == InTurn(ExpiredRecords \cup Exceeded)
  <2>1. doomed \in Seq(Keys)
    BY InTurnTyped DEF ExpiredRecords, Exceeded, M!Fresh
  <2>2. calls[c] \in Call /\ calls[c].op = "put"
    BY <1>1, <1>9 DEF CallsInv, ListForPolicy
  <2>3. Becomes(c, Doom(calls[c], doomed)) /\ behind' = FALSE
        /\ UNCHANGED <<now, bucket, memory, reader, happened, raced>>
    BY <1>9 DEF ListForPolicy
  <2> HIDE DEF doomed
  <2>4. CallsInv'
    <3> DEFINE call == Doom(calls[c], doomed)
    <3>1. call \in Call /\ call.doomed = doomed /\ call.step = (IF doomed = << >> THEN "idle" ELSE "delete")
          /\ call.op = "put"
      BY <2>1, <2>2, DoomFacts
    <3> HIDE DEF call
    <3>2. Becomes(c, call) /\ now' = now
      BY <2>3 DEF call
    <3> QED
      BY <1>1, <3>1, <3>2, CallsTyped
  <2> QED
    BY <1>3, <1>4, <2>3, <2>4
<1>10. ASSUME NEW c \in Everyone, NEW op \in {"get", "remove", "list"}, NEW doomed \in Seq(Keys),
              Becomes(c, Doom([Idle EXCEPT !.op = op], doomed)), now' = now
       PROVE  CallsInv'
  <2> DEFINE call == Doom([Idle EXCEPT !.op = op], doomed)
  <2>1. [Idle EXCEPT !.op = op] \in Call
    <3>1. [Idle EXCEPT !.op = op] = [step |-> "idle", op |-> op, record |-> << >>, doomed |-> << >>]
      BY DEF Idle
    <3>2. [step |-> "idle", op |-> op, record |-> << >>, doomed |-> << >>] \in Call
      BY <1>6 DEF Call
    <3> QED
      BY <3>1, <3>2
  <2>2. /\ call \in Call /\ call.doomed = doomed
        /\ call.step = IF doomed = << >> THEN "idle" ELSE "delete"
        /\ doomed = << >> => call.op = "put"
    BY <2>1, DoomFacts
  <2>3. Becomes(c, call)
    BY <1>10
  <2> HIDE DEF call
  <2> QED
    BY <1>10, <2>2, <2>3, CallsTyped
<1>11. ASSUME NEW c \in Callers, NEW r \in bucket, Get(c, r) PROVE TypeInv'
  <2>1. <<r.key>> \in Seq(Keys)
    BY DEF StoresInv, M!Records
  <2>2. CallsInv'
    BY <1>1, <1>10, <1>11, <2>1 DEF Get
  <2>3. memory' \subseteq memory /\ bucket' = bucket /\ now' = now
    BY <1>11 DEF Get, M!Get
  <2>4. StoresInv'
    BY <2>3, FewerTyped DEF StoresInv
  <2> QED
    BY <1>4, <1>11, <2>2, <2>4 DEF Get
<1>12. ASSUME NEW c \in Callers, NEW r \in bucket, RemoveRecord(c, r) PROVE TypeInv'
  <2>1. <<r.key>> \in Seq(Keys)
    BY DEF StoresInv, M!Records
  <2>2. CallsInv'
    BY <1>1, <1>10, <1>12, <2>1 DEF RemoveRecord
  <2> QED
    BY <1>3, <1>4, <1>5, <1>12, <2>2 DEF RemoveRecord
<1>13. ASSUME NEW c \in Everyone, Delete(c) PROVE TypeInv'
  <2>1. calls[c] \in Call /\ calls[c].step = "delete" /\ calls[c].doomed # << >> /\ calls[c].doomed \in Seq(Keys)
    BY <1>13 DEF Delete, CallsInv, Call
  <2>2. Tail(calls[c].doomed) \in Seq(Keys)
    BY <2>1
  <2> DEFINE call == Doom(calls[c], Tail(calls[c].doomed))
  <2>3. Becomes(c, call) /\ UNCHANGED <<now, happened, behind>> /\ Observe
    BY <1>13 DEF Delete
  <2>4. /\ call \in Call /\ call.doomed = Tail(calls[c].doomed)
        /\ call.step = IF Tail(calls[c].doomed) = << >> THEN "idle" ELSE "delete"
        /\ Tail(calls[c].doomed) = << >> => call.op = "put"
    BY <2>1, <2>2, DoomFacts
  <2> HIDE DEF call
  <2>5. CallsInv'
    BY <2>3, <2>4, CallsTyped
  <2>6. bucket' \subseteq bucket /\ memory' \subseteq memory
    BY <1>13 DEF Delete, M!Without, M!RemoveRecord
  <2>7. StoresInv'
    BY <2>3, <2>6, FewerTyped DEF StoresInv
  <2>8. ReaderInv'
    BY <2>3, ObserveTyped DEF StoresInv
  <2>9. raced' \in BOOLEAN
    BY <1>13, Zenon DEF Delete, Untidy
  <2> QED
    BY <2>3, <2>5, <2>7, <2>8, <2>9
<1>14. ASSUME NEW c \in Everyone, Fail(c) PROVE TypeInv'
  <2>1. CallsInv'
    BY <1>14, IdleFacts, CallsTyped DEF Fail
  <2>2. happened' \in 0..MaxEvents
    BY <1>5, <1>14 DEF Fail
  <2>3. CASE calls[c].step = "write" /\ Written(c) /\ behind' = TRUE /\ Observe
    <3>1. StoresInv' /\ raced' \in BOOLEAN
      BY <1>14, <2>3, WrittenTyped DEF Fail
    <3>2. ReaderInv'
      BY <2>3, ObserveTyped DEF StoresInv
    <3> QED
      BY <2>1, <2>2, <2>3, <3>1, <3>2
  <2>4. CASE /\ reader' = IF c = Reader THEN NoReading ELSE reader
             /\ behind' = (behind \/ calls[c].step = "list" \/ (calls[c].step = "delete" /\ calls[c].op = "put"))
             /\ UNCHANGED <<bucket, memory, raced>>
    <3>1. NoReading \in Reading /\ IsFiniteSet(NoReading.entries)
      BY FS_EmptySet DEF NoReading, Reading
    <3>2. ReaderInv'
      BY <2>4, <3>1 DEF ReaderInv
    <3>3. behind' \in BOOLEAN
      BY <2>4, Zenon
    <3> QED
      BY <1>3, <1>14, <2>1, <2>2, <2>4, <3>2, <3>3 DEF Fail
  <2> QED
    BY <1>14, <2>3, <2>4 DEF Fail
<1>15. ASSUME List PROVE TypeInv'
  <2>1. InTurn(ExpiredRecords) \in Seq(Keys)
    BY InTurnTyped DEF ExpiredRecords
  <2>2. CallsInv'
    BY <1>2, <1>10, <1>15, <2>1 DEF List
  <2>3. memory' \subseteq memory /\ bucket' = bucket /\ now' = now
    BY <1>15 DEF List, M!List, M!Fresh
  <2>4. StoresInv'
    BY <2>3, FewerTyped DEF StoresInv
  <2>5. FreshKeys \subseteq Keys /\ IsFiniteSet(FreshKeys)
    BY FreshKeysTyped, FreshKeysFinite DEF StoresInv
  <2>6. ReaderInv'
    BY <1>15, <2>5 DEF List, ReaderInv, Reading
  <2> QED
    BY <1>15, <2>2, <2>4, <2>6 DEF List
<1>16. ASSUME Page PROVE TypeInv'
  <2> DEFINE page == M!PageAt(reader.entries, reader.cursor, Limit)
  <2>1. page \in SUBSET reader.entries
    BY DEF M!PageAt
  <2>2. Cardinality(page) \in Nat
    BY <2>1, FS_Subset, FS_CardinalityType DEF ReaderInv
  <2>3. reader' = [reader EXCEPT
          !.phase = IF NextCursor(page) < Cardinality(reader.entries) THEN "ready" ELSE "done",
          !.got = @ \cup page, !.cursor = NextCursor(page), !.entries = {}]
    BY <1>16 DEF Page
  <2>4. NextCursor(page) \in Nat
    BY <2>2 DEF NextCursor, ReaderInv, Reading
  <2> HIDE DEF page
  <2>5. reader' \in Reading /\ reader'.entries = {}
    <3> PICK next : next = NextCursor(page)
      OBVIOUS
    <3> QED
      BY <2>1, <2>3, <2>4 DEF ReaderInv, Reading
  <2>6. ReaderInv'
    BY <2>5, FS_EmptySet DEF ReaderInv
  <2>7. CallsInv'
    BY <1>16 DEF Page, CallsInv
  <2> QED
    BY <1>3, <1>16, <2>6, <2>7 DEF Page
<1>17. ASSUME Tick PROVE TypeInv'
  <2>1. StoresInv'
    BY <1>17, FewerTyped DEF Tick, StoresInv, R2Assumption
  <2>2. CallsInv'
    BY <1>17 DEF Tick, CallsInv, StoresInv, M!Records
  <2>3. ReaderInv'
    BY <1>17, ObserveTyped DEF Tick, StoresInv
  <2> QED
    BY <1>17, <2>1, <2>2, <2>3 DEF Tick
<1>18. ASSUME UNCHANGED storeVars PROVE TypeInv'
  BY <1>3, <1>4, <1>18 DEF storeVars, CallsInv, Everyone
<1> QED
  BY <1>7, <1>8, <1>9, <1>11, <1>12, <1>13, <1>14, <1>15, <1>16, <1>17, <1>18 DEF StoreNext

LEMMA TypeInit == ASSUME R2Assumption, StoreInit PROVE TypeInv
<1>1. StoresInv
  BY FS_EmptySet DEF StoreInit, StoresInv, M!Keyed, R2Assumption
<1>2. CallsInv
  BY IdleFacts DEF StoreInit, CallsInv
<1>3. ReaderInv
  BY FS_EmptySet DEF StoreInit, ReaderInv, NoReading, Reading
<1>4. happened \in 0..MaxEvents
  BY DEF StoreInit, R2Assumption
<1> QED
  BY <1>1, <1>2, <1>3, <1>4 DEF TypeInv, StoreInit

-----------------------------------------------------------------------------
(* Cache store: the reader's pages *)

Unseen == reader.stored \ reader.got
Passed(keys) == {k \in Unseen : M!Place(keys, k) < reader.cursor}

\* On its way the reader has passed, without seeing them, at most as many of the
\* entries it should find as went away; while it has a list, those that have
\* gone from it since are still to shift the list under its cursor.
MissInv ==
  /\ reader.phase = "idle" => reader = NoReading
  /\ reader.phase \in {"ready", "listing"} => reader.stored \subseteq FreshKeys
  /\ reader.phase = "ready" => Cardinality(Passed(FreshKeys)) <= reader.removed
  /\ reader.phase = "listing" =>
       /\ reader.stored \subseteq reader.entries
       /\ Cardinality(Passed(reader.entries)) + Cardinality(reader.entries \ FreshKeys) <= reader.removed
  /\ MissedAtMostRemoved

LEMMA Counted ==
  ASSUME NEW S, IsFiniteSet(S), NEW T \in SUBSET S
  PROVE  /\ IsFiniteSet(T) /\ Cardinality(T) \in Nat /\ Cardinality(S) \in Nat
         /\ Cardinality(T) <= Cardinality(S)
BY FS_Subset, FS_CardinalityType

LEMMA CountedUnion ==
  ASSUME NEW S, IsFiniteSet(S), NEW T, IsFiniteSet(T), NEW U \in SUBSET (S \cup T)
  PROVE  /\ Cardinality(U) \in Nat /\ Cardinality(S) \in Nat /\ Cardinality(T) \in Nat
         /\ Cardinality(U) <= Cardinality(S) + Cardinality(T)
<1>1. IsFiniteSet(S \cup T)
      /\ Cardinality(S \cup T) = Cardinality(S) + Cardinality(T) - Cardinality(S \cap T)
  BY FS_Union
<1>2. Cardinality(S \cap T) \in Nat /\ Cardinality(S) \in Nat /\ Cardinality(T) \in Nat
  BY FS_Intersection, FS_CardinalityType
<1>3. Cardinality(U) \in Nat /\ Cardinality(U) <= Cardinality(S \cup T)
  BY <1>1, Counted
<1> QED
  BY <1>1, <1>2, <1>3

LEMMA ObserveMisses ==
  ASSUME R2Assumption, TypeInv, TypeInv', MissInv, Observe
  PROVE  MissInv'
<1> DEFINE F == FreshKeys
           G == FreshKeys'
<1>1. /\ IsFiniteSet(F) /\ F \in SUBSET Nat /\ IsFiniteSet(G) /\ G \in SUBSET Nat
  <2>1. F \subseteq Keys /\ IsFiniteSet(F)
    BY FreshKeysTyped, FreshKeysFinite DEF TypeInv, StoresInv
  <2>2. G \subseteq Keys
    BY DEF TypeInv, StoresInv, FreshKeys, M!Fresh, M!Records
  <2>3. IsFiniteSet(G)
    BY FreshKeysPrimed DEF TypeInv, StoresInv
  <2> HIDE DEF F, G
  <2> QED
    BY <2>1, <2>2, <2>3 DEF R2Assumption
<1>2. reader \in Reading /\ IsFiniteSet(reader.entries) /\ reader.entries \in SUBSET Nat
  BY DEF TypeInv, ReaderInv, Reading, R2Assumption
<1>3. CASE reader.phase \notin {"ready", "listing"}
  <2>1. reader' = reader
    BY <1>3, Zenon DEF Observe
  <2> QED
    BY <1>3, <2>1 DEF MissInv, MissedAtMostRemoved
<1>4. CASE reader.phase \in {"ready", "listing"}
  <2> DEFINE gone == Cardinality(F \ G)
             U == (reader.stored \cap G) \ reader.got
  <2>1. IsFiniteSet(F \ G) /\ gone \in Nat
    <3> HIDE DEF F, G
    <3> QED
      BY <1>1, Counted
  <2>2. reader' = [reader EXCEPT !.stored = reader.stored \cap G, !.removed = reader.removed + gone]
    BY <1>4, Zenon DEF Observe
  <2>3. /\ reader'.phase = reader.phase /\ reader'.cursor = reader.cursor /\ reader'.got = reader.got
        /\ reader'.entries = reader.entries /\ reader'.stored = reader.stored \cap G
        /\ reader'.removed = reader.removed + gone
    <3> HIDE DEF G, gone
    <3> QED
      BY <1>2, <2>2 DEF Reading
  <2>4. U \in SUBSET (F \cap G) /\ U \in SUBSET Unseen
    BY <1>4 DEF MissInv, Unseen
  <2>5. Unseen' = U
    BY <2>3 DEF Unseen
  <2>6. /\ Passed(FreshKeys)' = {k \in U : M!Place(G, k) < reader.cursor}
        /\ Passed(reader.entries)' = {k \in U : M!Place(reader.entries, k) < reader.cursor}
    <3> HIDE DEF U
    <3> QED
      BY <2>3, <2>5 DEF Passed
  <2>7. reader.cursor \in Nat /\ reader.removed \in Nat /\ reader'.phase = reader.phase
    BY <1>2, <2>3 DEF Reading
  <2>8. IsFiniteSet(U)
    <3> HIDE DEF F, G, U
    <3> QED
      BY <1>1, <2>4, FS_Subset
  <2>9. ASSUME NEW L, IsFiniteSet(L), Unseen \subseteq L
        PROVE  LET front == {k \in U : M!Place(L, k) < reader.cursor} IN
               /\ Cardinality(front) \in Nat /\ Cardinality(Passed(L)) \in Nat
               /\ Cardinality(front) <= Cardinality(Passed(L))
    <3> DEFINE front == {k \in U : M!Place(L, k) < reader.cursor}
    <3>1. front \in SUBSET Passed(L)
      <4> HIDE DEF U
      <4> QED
        BY <2>4 DEF Passed
    <3>2. IsFiniteSet(Passed(L))
      <4>1. Passed(L) \in SUBSET L
        BY <2>9 DEF Passed
      <4> QED
        BY <2>9, <4>1, FS_Subset
    <3> HIDE DEF front
    <3>3. Cardinality(front) \in Nat /\ Cardinality(Passed(L)) \in Nat
          /\ Cardinality(front) <= Cardinality(Passed(L))
      BY <3>1, <3>2, Counted
    <3> QED
      BY <3>3 DEF front
  <2>10. CASE reader.phase = "ready"
    <3> DEFINE front(L) == {k \in U : M!Place(L, k) < reader.cursor}
    <3>1. Cardinality(front(G)) <= Cardinality(front(F)) + gone
          /\ Cardinality(front(G)) \in Nat /\ Cardinality(front(F)) \in Nat
      <4> HIDE DEF F, G, U
      <4>1. Cardinality(front(G)) <= Cardinality(front(F)) + Cardinality(F \ G)
        BY <1>1, <2>4, <2>7, RemovalsShift
      <4>2. ASSUME NEW L PROVE Cardinality(front(L)) \in Nat
        <5>1. front(L) \in SUBSET U
          OBVIOUS
        <5> HIDE DEF front
        <5> QED
          BY <2>8, <5>1, Counted
      <4> HIDE DEF front
      <4> QED
        BY <4>1, <4>2
    <3>2. Cardinality(front(F)) <= Cardinality(Passed(F)) /\ Cardinality(Passed(F)) \in Nat
      <4>1. Unseen \subseteq F
        BY <2>10 DEF MissInv, Unseen
      <4> HIDE DEF F, U
      <4> QED
        BY <1>1, <2>9, <4>1
    <3>3. Cardinality(Passed(F)) <= reader.removed
      BY <2>10 DEF MissInv
    <3> HIDE DEF front, gone
    <3>4. Cardinality(front(G)) <= reader'.removed
      BY <2>1, <2>3, <2>7, <3>1, <3>2, <3>3
    <3>5. Cardinality(Passed(FreshKeys)') <= reader'.removed
      BY <2>6, <3>4 DEF front
    <3>6. reader'.stored \subseteq FreshKeys'
      BY <2>3
    <3> QED
      BY <2>7, <2>10, <3>5, <3>6 DEF MissInv, MissedAtMostRemoved
  <2>11. CASE reader.phase = "listing"
    <3> DEFINE front == {k \in U : M!Place(reader.entries, k) < reader.cursor}
    <3>1. Cardinality(front) <= Cardinality(Passed(reader.entries))
          /\ Cardinality(front) \in Nat /\ Cardinality(Passed(reader.entries)) \in Nat
      <4>1. Unseen \subseteq reader.entries
        BY <2>11 DEF MissInv, Unseen
      <4> HIDE DEF U
      <4> QED
        BY <1>2, <2>9, <4>1
    <3>2. /\ Cardinality(reader.entries \ G) <= Cardinality(reader.entries \ F) + gone
          /\ Cardinality(reader.entries \ G) \in Nat /\ Cardinality(reader.entries \ F) \in Nat
      <4> HIDE DEF F, G
      <4>1. (reader.entries \ G) \in SUBSET ((reader.entries \ F) \cup (F \ G))
        OBVIOUS
      <4>2. IsFiniteSet(reader.entries \ F)
        BY <1>2, FS_Difference
      <4> QED
        BY <2>1, <4>1, <4>2, CountedUnion
    <3>3. Cardinality(Passed(reader.entries)) + Cardinality(reader.entries \ F) <= reader.removed
      BY <2>11 DEF MissInv
    <3> HIDE DEF front, gone
    <3>4. Cardinality(front) + Cardinality(reader.entries \ G) <= reader'.removed
      BY <2>1, <2>3, <2>7, <3>1, <3>2, <3>3
    <3>5. Cardinality(Passed(reader.entries)') + Cardinality(reader'.entries \ FreshKeys') <= reader'.removed
      BY <2>3, <2>6, <3>4 DEF front
    <3>6. reader'.stored \subseteq FreshKeys' /\ reader'.stored \subseteq reader'.entries
      BY <2>3, <2>11 DEF MissInv
    <3> QED
      BY <2>7, <2>11, <3>5, <3>6 DEF MissInv, MissedAtMostRemoved
  <2> QED
    BY <1>4, <2>10, <2>11
<1> QED
  BY <1>3, <1>4

\* A page leaves nothing behind that was in front of its end, and the last page
\* nothing at all.
LEMMA PageFacts ==
  ASSUME NEW E \in SUBSET Nat, IsFiniteSet(E), NEW c \in Nat, NEW n \in Nat \ {0}, NEW k \in E,
         k \notin M!PageAt(E, c, n)
  PROVE  LET end == c + Cardinality(M!PageAt(E, c, n)) IN
         /\ end \in Nat
         /\ end < Cardinality(E) /\ M!Place(E, k) < end => M!Place(E, k) < c
         /\ Cardinality(E) <= end => M!Place(E, k) < c
<1> DEFINE page == M!PageAt(E, c, n)
           N == Cardinality(E)
           upTo(b) == {j \in E : c <= M!Place(E, j) /\ M!Place(E, j) < b}
<1>1. /\ N \in Nat
      /\ \A j \in E : M!Place(E, j) \in Nat /\ M!Place(E, j) < N
  BY PlaceFacts
<1>2. page = upTo(c + n)
  BY DEF M!PageAt
<1>3. c + n <= N => Cardinality(page) = n
  <2> SUFFICES ASSUME c + n <= N PROVE Cardinality(page) = n
    OBVIOUS
  <2>1. Cardinality(upTo(c + n)) = (c + n) - c
    BY BetweenPlaces
  <2> HIDE DEF page, upTo
  <2> QED
    BY <1>2, <2>1
<1>4. c <= N /\ N < c + n => Cardinality(page) = N - c
  <2> SUFFICES ASSUME c <= N, N < c + n PROVE Cardinality(page) = N - c
    OBVIOUS
  <2>1. Cardinality(upTo(N)) = N - c
    <3>1. N <= Cardinality(E) /\ N \in Nat
      BY <1>1
    <3> HIDE DEF N
    <3> QED
      BY <3>1, BetweenPlaces
  <2>2. upTo(c + n) = upTo(N)
    <3>1. ASSUME NEW j \in E PROVE M!Place(E, j) < c + n /\ M!Place(E, j) < N
      <4> HIDE DEF N
      <4> QED
        BY <1>1
    <3> HIDE DEF N
    <3> QED
      BY <3>1
  <2> HIDE DEF page, upTo
  <2> QED
    BY <1>2, <2>1, <2>2
<1>5. Cardinality(page) \in Nat
  <2>1. page \in SUBSET E
    BY DEF M!PageAt
  <2> HIDE DEF page
  <2> QED
    BY <2>1, Counted
<1>6. M!Place(E, k) < c \/ c + n <= M!Place(E, k)
  BY <1>1, <1>2
<1> HIDE DEF page, N
<1> QED
  BY <1>1, <1>3, <1>4, <1>5, <1>6 DEF page, N

LEMMA PageMisses ==
  ASSUME R2Assumption, TypeInv, MissInv, Page
  PROVE  MissInv'
<1> DEFINE E == reader.entries
           F == FreshKeys
           c == reader.cursor
           page == M!PageAt(E, c, Limit)
           end == NextCursor(page)
           U == Unseen \ page
<1>1. /\ reader.phase = "listing" /\ UNCHANGED bucket /\ UNCHANGED now
      /\ reader' = [reader EXCEPT !.phase = IF end < Cardinality(E) THEN "ready" ELSE "done",
                                  !.got = @ \cup page, !.cursor = end, !.entries = {}]
  BY DEF Page
<1>2. /\ reader \in Reading /\ IsFiniteSet(E) /\ E \in SUBSET Nat /\ c \in Nat /\ reader.removed \in Nat
      /\ Limit \in Nat \ {0}
  BY DEF TypeInv, ReaderInv, Reading, R2Assumption
<1>3. /\ IsFiniteSet(F) /\ F \in SUBSET Nat
  <2>1. F \subseteq Keys /\ IsFiniteSet(F)
    BY FreshKeysTyped, FreshKeysFinite DEF TypeInv, StoresInv
  <2> HIDE DEF F
  <2> QED
    BY <2>1 DEF R2Assumption
<1>4. FreshKeys' = F
  BY <1>1 DEF FreshKeys, M!Fresh, M!Expired
<1>5. end = c + Cardinality(page)
  BY DEF NextCursor
<1> HIDE DEF end
<1>6. /\ reader'.phase = IF end < Cardinality(E) THEN "ready" ELSE "done"
      /\ reader'.got = reader.got \cup page /\ reader'.cursor = end
      /\ reader'.stored = reader.stored /\ reader'.removed = reader.removed
  <2> HIDE DEF E, page
  <2> QED
    BY <1>1, <1>2 DEF Reading
<1>7. /\ reader.stored \subseteq E /\ reader.stored \subseteq F
      /\ Cardinality(Passed(E)) + Cardinality(E \ F) <= reader.removed
  BY <1>1 DEF MissInv
<1>8. U \in SUBSET (E \cap F)
  BY <1>7 DEF Unseen
<1>9. Unseen' = U
  BY <1>6 DEF Unseen
<1> HIDE DEF E, F
<1>10. Cardinality(E) \in Nat
  BY <1>2, FS_CardinalityType
<1>11. ASSUME NEW k \in U
       PROVE  /\ end \in Nat
              /\ end < Cardinality(E) /\ M!Place(E, k) < end => M!Place(E, k) < c
              /\ Cardinality(E) <= end => M!Place(E, k) < c
  BY <1>2, <1>5, <1>8, PageFacts
<1>12. end \in Nat
  <2>1. page \in SUBSET E
    BY DEF M!PageAt
  <2>2. Cardinality(page) \in Nat
    BY <1>2, <2>1, Counted
  <2> QED
    BY <1>2, <1>5, <2>2
<1>13. IsFiniteSet(Passed(E)) /\ Passed(E) = {k \in Unseen : M!Place(E, k) < c}
  <2>1. Passed(E) \in SUBSET E
    BY <1>7 DEF Passed, Unseen
  <2>2. Passed(E) = {k \in Unseen : M!Place(E, k) < c}
    BY DEF Passed
  <2> QED
    BY <1>2, <2>1, <2>2, Counted
<1>14. CASE end < Cardinality(E)
  <2> DEFINE front(L) == {k \in U : M!Place(L, k) < end}
  <2>1. front(E) \in SUBSET Passed(E)
    <3> HIDE DEF page
    <3> QED
      BY <1>11, <1>13, <1>14
  <2>2. Passed(FreshKeys)' = front(F)
    <3> HIDE DEF U
    <3> QED
      BY <1>4, <1>6, <1>9 DEF Passed
  <2> HIDE DEF U
  <2>3. Cardinality(front(F)) <= Cardinality(front(E)) + Cardinality(E \ F)
    BY <1>2, <1>3, <1>8, <1>12, RemovalsShift
  <2>4. IsFiniteSet(front(F)) /\ Cardinality(front(F)) \in Nat
    <3>1. front(F) \in SUBSET F
      BY <1>8
    <3> HIDE DEF front
    <3> QED
      BY <1>3, <3>1, Counted
  <2> HIDE DEF front
  <2>5. Cardinality(front(E)) <= Cardinality(Passed(E)) /\ Cardinality(front(E)) \in Nat
        /\ Cardinality(Passed(E)) \in Nat
    BY <1>13, <2>1, Counted
  <2>6. Cardinality(E \ F) \in Nat
    <3>1. E \ F \in SUBSET E
      OBVIOUS
    <3> QED
      BY <1>2, <3>1, Counted
  <2>7. Cardinality(front(F)) <= reader.removed
    BY <1>2, <1>7, <2>3, <2>4, <2>5, <2>6
  <2>8. reader'.phase = "ready"
    BY <1>6, <1>14
  <2>9. Cardinality(Passed(FreshKeys)') <= reader'.removed
    BY <1>6, <2>2, <2>7
  <2>10. reader'.stored \subseteq FreshKeys'
    BY <1>4, <1>6, <1>7
  <2> QED
    BY <2>8, <2>9, <2>10 DEF MissInv, MissedAtMostRemoved
<1>15. CASE ~(end < Cardinality(E))
  <2>1. U \in SUBSET Passed(E)
    <3>1. Cardinality(E) <= end
      BY <1>10, <1>12, <1>15
    <3> HIDE DEF page
    <3> QED
      BY <1>11, <1>13, <3>1
  <2> HIDE DEF U
  <2>2. Cardinality(U) <= Cardinality(Passed(E)) /\ Cardinality(U) \in Nat /\ Cardinality(Passed(E)) \in Nat
    BY <1>13, <2>1, Counted
  <2>3. Cardinality(E \ F) \in Nat
    <3>1. E \ F \in SUBSET E
      OBVIOUS
    <3> QED
      BY <1>2, <3>1, Counted
  <2>4. Cardinality(U) <= reader.removed
    BY <1>2, <1>7, <2>2, <2>3
  <2>5. reader'.phase = "done" /\ reader'.stored \ reader'.got = U
    BY <1>6, <1>9, <1>15 DEF Unseen
  <2>6. MissedAtMostRemoved'
    BY <1>6, <2>4, <2>5 DEF MissedAtMostRemoved
  <2> QED
    BY <2>5, <2>6 DEF MissInv
<1> QED
  BY <1>14, <1>15

LEMMA ListMisses ==
  ASSUME R2Assumption, TypeInv, MissInv, List
  PROVE  MissInv'
<1> DEFINE F == FreshKeys
<1>1. /\ IsFiniteSet(F) /\ F \in SUBSET Nat
  <2>1. F \subseteq Keys /\ IsFiniteSet(F)
    BY FreshKeysTyped, FreshKeysFinite DEF TypeInv, StoresInv
  <2> HIDE DEF F
  <2> QED
    BY <2>1 DEF R2Assumption
<1>2. FreshKeys' = F
  BY DEF List, FreshKeys, M!Fresh, M!Expired
<1>3. /\ reader.phase \in {"idle", "ready"}
      /\ reader' = [reader EXCEPT !.phase = "listing", !.entries = F,
                                  !.stored = IF reader.phase = "idle" THEN F ELSE @]
  BY DEF List
<1>4. reader \in Reading
  BY DEF TypeInv, ReaderInv
<1>5. /\ reader'.phase = "listing" /\ reader'.entries = F /\ reader'.cursor = reader.cursor
      /\ reader'.got = reader.got /\ reader'.removed = reader.removed
      /\ reader'.stored = IF reader.phase = "idle" THEN F ELSE reader.stored
  <2> HIDE DEF F
  <2> QED
    BY <1>3, <1>4 DEF Reading
<1>6. reader.cursor \in Nat /\ reader.removed \in Nat
  BY <1>4 DEF Reading
<1>7. Cardinality(F \ F) = 0
  <2>1. F \ F = {}
    OBVIOUS
  <2> QED
    BY <2>1, FS_EmptySet
<1>8. CASE reader.phase = "idle"
  <2>1. reader.cursor = 0 /\ reader.got = {} /\ reader.removed = 0
    BY <1>8 DEF MissInv, NoReading
  <2>2. \A k \in F : ~(M!Place(F, k) < 0)
    <3>1. \A k \in F : M!Place(F, k) \in Nat
      BY <1>1, PlaceFacts
    <3> HIDE DEF F
    <3> QED
      BY <3>1
  <2>3. reader'.stored = F
    BY <1>5, <1>8
  <2>4. Passed(reader.entries)' = {}
    <3> HIDE DEF F
    <3> QED
      BY <1>5, <2>1, <2>2, <2>3 DEF Passed, Unseen
  <2> HIDE DEF F
  <2>5. Cardinality(Passed(reader.entries)') = 0
    BY <2>4, FS_EmptySet
  <2>6. Cardinality(reader'.entries \ FreshKeys') = 0
    BY <1>2, <1>5, <1>7
  <2>7. Cardinality(Passed(reader.entries)') + Cardinality(reader'.entries \ FreshKeys') <= reader'.removed
    BY <1>5, <2>1, <2>5, <2>6
  <2> QED
    BY <1>2, <1>5, <2>3, <2>7 DEF MissInv, MissedAtMostRemoved
<1>9. CASE reader.phase = "ready"
  <2>1. reader.stored \subseteq F /\ Cardinality(Passed(F)) <= reader.removed
    BY <1>9 DEF MissInv
  <2>2. reader'.stored = reader.stored
    BY <1>5, <1>9
  <2>3. Passed(reader.entries)' = Passed(F)
    <3> HIDE DEF F
    <3> QED
      BY <1>5, <2>2 DEF Passed, Unseen
  <2> HIDE DEF F
  <2>4. Cardinality(Passed(F)) \in Nat
    <3>1. Passed(F) \in SUBSET F
      BY <2>1 DEF Passed, Unseen
    <3> QED
      BY <1>1, <3>1, Counted
  <2>5. Cardinality(reader'.entries \ FreshKeys') = 0
    BY <1>2, <1>5, <1>7
  <2>6. Cardinality(Passed(reader.entries)') + Cardinality(reader'.entries \ FreshKeys') <= reader'.removed
    BY <1>5, <2>1, <2>3, <2>4, <2>5
  <2> QED
    BY <1>2, <1>5, <2>1, <2>2, <2>6 DEF MissInv, MissedAtMostRemoved
<1> QED
  BY <1>3, <1>8, <1>9

\* Steps that leave the reader, the records and the clock alone.
LEMMA MissKept ==
  ASSUME MissInv, UNCHANGED <<reader, bucket, now>>
  PROVE  MissInv'
BY DEF MissInv, MissedAtMostRemoved, Passed, Unseen, FreshKeys, M!Fresh, M!Expired

LEMMA MissStep ==
  ASSUME R2Assumption, TypeInv, TypeInv', MissInv, [StoreNext]_storeVars
  PROVE  MissInv'
<1>1. ASSUME NEW c \in Callers, NEW key \in Keys, NEW size \in Sizes, Put(c, key, size) PROVE MissInv'
  BY <1>1, MissKept DEF Put
<1>2. ASSUME NEW c \in Callers, Write(c) PROVE MissInv'
  BY <1>2, ObserveMisses DEF Write
<1>3. ASSUME NEW c \in Callers, ListForPolicy(c) PROVE MissInv'
  BY <1>3, MissKept DEF ListForPolicy
<1>4. ASSUME NEW c \in Callers, NEW r \in bucket, Get(c, r) PROVE MissInv'
  BY <1>4, MissKept DEF Get
<1>5. ASSUME NEW c \in Callers, NEW r \in bucket, RemoveRecord(c, r) PROVE MissInv'
  BY <1>5, MissKept DEF RemoveRecord
<1>6. ASSUME NEW c \in Everyone, Delete(c) PROVE MissInv'
  BY <1>6, ObserveMisses DEF Delete
<1>7. ASSUME NEW c \in Everyone, Fail(c) PROVE MissInv'
  <2>1. CASE Observe
    BY <2>1, ObserveMisses
  <2>2. CASE /\ reader' = IF c = Reader THEN NoReading ELSE reader
             /\ UNCHANGED <<bucket, memory, raced>>
    <3>1. CASE reader' = NoReading
      BY <3>1 DEF MissInv, MissedAtMostRemoved, NoReading
    <3>2. CASE reader' = reader
      BY <1>7, <2>2, <3>2, MissKept DEF Fail
    <3> QED
      BY <2>2, <3>1, <3>2
  <2> QED
    BY <1>7, <2>1, <2>2 DEF Fail
<1>8. ASSUME List PROVE MissInv'
  BY <1>8, ListMisses
<1>9. ASSUME Page PROVE MissInv'
  BY <1>9, PageMisses
<1>10. ASSUME Tick PROVE MissInv'
  BY <1>10, ObserveMisses DEF Tick
<1>11. ASSUME UNCHANGED storeVars PROVE MissInv'
  BY <1>11, MissKept DEF storeVars
<1> QED
  BY <1>1, <1>2, <1>3, <1>4, <1>5, <1>6, <1>7, <1>8, <1>9, <1>10, <1>11 DEF StoreNext

\* Calls and records have their types, and a call that is to delete knows what
\* (cache_store.ts 433-464).
THEOREM StoreTyped == StoreSpec => []StoreTypeOK
<1>1. StoreSpec => []TypeInv
  <2>1. StoreInit => TypeInv
    BY R2Assumption, TypeInit
  <2>2. TypeInv /\ [StoreNext]_storeVars => TypeInv'
    BY R2Assumption, TypeStep
  <2> QED
    BY <2>1, <2>2, PTL DEF StoreSpec
<1>2. TypeInv => StoreTypeOK
  BY R2Assumption, Typed
<1> QED
  BY <1>1, <1>2, PTL

\* A reader misses no more of the records that stayed than went away while it
\* paged (cache_store.ts 215-232).
THEOREM ReaderMissesFew == StoreSpec => []MissedAtMostRemoved
<1>1. StoreInit => TypeInv /\ MissInv
  <2>1. StoreInit => MissInv
    BY DEF StoreInit, MissInv, MissedAtMostRemoved, NoReading
  <2> QED
    BY <2>1, R2Assumption, TypeInit
<1>2. TypeInv /\ MissInv /\ [StoreNext]_storeVars => (TypeInv /\ MissInv)'
  BY R2Assumption, TypeStep, MissStep
<1>3. MissInv => MissedAtMostRemoved
  BY DEF MissInv
<1> QED
  BY <1>1, <1>2, <1>3, PTL DEF StoreSpec

-----------------------------------------------------------------------------
(* Cache store: what fits *)

Good(R) == R \subseteq M!Records(Keys, Sizes) /\ M!Keyed(R) /\ IsFiniteSet(R)

NewerOf(R, r) == {s \in R : ~M!Older(s, r)}

\* The limit on bytes is met.
Within(R) == MaxBytes = 0 \/ M!Total(R) <= MaxBytes

LEMMA FitsIs == \A R : M!Fits(R) = {r \in R : Within(NewerOf(R, r))}
BY DEF M!Fits, Within, NewerOf

LEMMA GoodPart == ASSUME NEW R, Good(R), NEW S \in SUBSET R PROVE Good(S)
<1>1. IsFiniteSet(S)
  BY FS_Subset DEF Good
<1> QED
  BY <1>1 DEF Good, M!Keyed

LEMMA Order ==
  ASSUME R2Assumption, NEW R, Good(R)
  PROVE  /\ \A r \in R : ~M!Older(r, r)
         /\ \A r, s \in R : r = s \/ M!Older(r, s) \/ M!Older(s, r)
         /\ \A r, s \in R : M!Older(r, s) => ~M!Older(s, r)
         /\ \A r, s, t \in R : M!Older(r, s) /\ M!Older(s, t) => M!Older(r, t)
         /\ \A r, s, t \in R : ~M!Older(s, r) /\ ~M!Older(t, s) => ~M!Older(t, r)
<1>1. \A r \in R : r.key \in Nat /\ r.at \in Nat
  BY DEF Good, M!Records, R2Assumption
<1>2. \A r, s \in R : r.key = s.key => r = s
  BY DEF Good, M!Keyed
<1> QED
  BY <1>1, <1>2 DEF M!Older

Cells(R) == UNION {{r} \X (1..r.size) : r \in R}

LEMMA CellsFinite == ASSUME R2Assumption, NEW R, Good(R) PROVE IsFiniteSet(Cells(R))
<1> DEFINE cell(r) == {r} \X (1..r.size)
           f == [r \in R |-> cell(r)]
           B == {cell(r) : r \in R}
<1>1. IsFiniteSet(B)
  <2>1. f \in Surjection(R, B)
    BY DEF Surjection
  <2> HIDE DEF f
  <2> QED
    BY <2>1, FS_Surjection DEF Good
<1>2. ASSUME NEW r \in R PROVE IsFiniteSet(cell(r))
  <2>1. 1 \in Int /\ r.size \in Int
    <3>1. r \in M!Records(Keys, Sizes)
      BY DEF Good
    <3>2. r.size \in Sizes
      BY <3>1 DEF M!Records
    <3>3. \A n \in Sizes : n \in Nat
      BY DEF R2Assumption
    <3>4. r.size \in Nat
      BY <3>2, <3>3, Zenon
    <3> QED
      BY <3>4
  <2>2. IsFiniteSet(1..r.size)
    BY <2>1, FS_Interval
  <2>3. IsFiniteSet({r})
    BY FS_Singleton
  <2> QED
    BY <2>2, <2>3, FS_Product
<1>3. \A b \in B : IsFiniteSet(b)
  <2> HIDE DEF cell
  <2> QED
    BY <1>2
<1>4. Cells(R) = UNION B
  BY DEF Cells
<1> HIDE DEF B
<1> QED
  BY <1>1, <1>3, <1>4, FS_UNION

LEMMA TotalMonotone ==
  ASSUME R2Assumption, NEW R, Good(R), NEW S \in SUBSET R
  PROVE  /\ M!Total(R) \in Nat /\ M!Total(S) \in Nat
         /\ M!Total(S) <= M!Total(R)
         /\ Within(R) => Within(S)
<1>1. IsFiniteSet(Cells(R)) /\ Cells(S) \in SUBSET Cells(R)
  BY CellsFinite DEF Cells
<1>2. \A T : M!Total(T) = Cardinality(Cells(T))
  BY SameCardinality DEF M!Total, Cells
<1>3. M!Total(R) \in Nat /\ M!Total(S) \in Nat /\ M!Total(S) <= M!Total(R)
  BY <1>1, <1>2, Counted
<1> QED
  BY <1>3 DEF Within, R2Assumption

LEMMA WithinNothing == R2Assumption => Within({})
<1>1. Cells({}) = {}
  BY DEF Cells
<1>2. M!Total({}) = 0
  BY <1>1, SameCardinality, FS_EmptySet DEF M!Total, Cells
<1> QED
  BY <1>2 DEF Within, R2Assumption

\* What fits is the newest part of the records, and the largest within the limit.
LEMMA FitsFacts ==
  ASSUME R2Assumption, NEW R, Good(R)
  PROVE  /\ M!Fits(R) \in SUBSET R
         /\ \A r \in M!Fits(R), s \in R : ~M!Older(s, r) => s \in M!Fits(R)
         /\ Within(R) => M!Fits(R) = R
         /\ Within(M!Fits(R))
<1>1. M!Fits(R) \in SUBSET R
  BY FitsIs
<1>2. ASSUME NEW r \in M!Fits(R), NEW s \in R, ~M!Older(s, r) PROVE s \in M!Fits(R)
  <2>1. r \in R /\ Within(NewerOf(R, r))
    BY FitsIs
  <2>2. NewerOf(R, s) \in SUBSET NewerOf(R, r)
    BY <1>2, <2>1, Order DEF NewerOf
  <2>3. Good(NewerOf(R, r))
    BY GoodPart DEF NewerOf
  <2>4. Within(NewerOf(R, s))
    BY <2>1, <2>2, <2>3, TotalMonotone
  <2> QED
    BY <2>4, FitsIs
<1>3. ASSUME Within(R) PROVE M!Fits(R) = R
  <2>1. ASSUME NEW r \in R PROVE Within(NewerOf(R, r))
    <3>1. NewerOf(R, r) \in SUBSET R
      BY DEF NewerOf
    <3> QED
      BY <1>3, <3>1, TotalMonotone
  <2> QED
    BY <2>1, FitsIs
<1>4. Within(M!Fits(R))
  <2>1. CASE M!Fits(R) = {}
    BY <2>1, WithinNothing
  <2>2. CASE M!Fits(R) # {}
    <3> DEFINE F == M!Fits(R)
    <3>1. Good(F)
      BY <1>1, GoodPart
    <3>2. PICK m \in F : \A r \in F : ~M!Older(r, m)
      <4>1. PICK before : \A r, s \in F : <<r, s>> \in before <=> M!Older(r, s)
        <5> DEFINE before == {p \in F \X F : M!Older(p[1], p[2])}
        <5>1. \A r, s \in F : <<r, s>> \in before <=> M!Older(r, s)
          <6> HIDE DEF F
          <6> QED
            OBVIOUS
        <5> HIDE DEF before
        <5> QED
          BY <5>1
      <4> HIDE DEF F
      <4>2. \A x \in F : <<x, x>> \notin before
        BY <3>1, <4>1, Order
      <4>3. \A x, y, z \in F : <<x, y>> \in before /\ <<y, z>> \in before => <<x, z>> \in before
        BY <3>1, <4>1, Order
      <4>4. \A x, y \in F : x # y => <<x, y>> \in before \/ <<y, x>> \in before
        BY <3>1, <4>1, Order
      <4>5. IsFiniteSet(F)
        BY <3>1 DEF Good
      <4>6. Cardinality(F) \in Nat /\ Cardinality(F) # 0
        BY <2>2, <4>5, FS_EmptySet, FS_CardinalityType DEF F
      <4>7. 0 \in 0..(Cardinality(F) - 1)
        BY <4>6
      <4>8. PICK m \in F : Rank(F, before, m) = 0
        BY <4>2, <4>3, <4>4, <4>5, <4>7, RankReached
      <4>9. ASSUME NEW r \in F, M!Older(r, m) PROVE FALSE
        <5>1. Rank(F, before, r) < Rank(F, before, m)
          BY <4>1, <4>2, <4>3, <4>4, <4>5, <4>9, Ranked
        <5>2. Rank(F, before, r) \in 0..(Cardinality(F) - 1)
          BY <4>2, <4>3, <4>4, <4>5, Ranked
        <5> QED
          BY <4>8, <5>1, <5>2
      <4> QED
        BY <4>9
    <3>3. F \in SUBSET NewerOf(R, m)
      BY <1>1, <3>2 DEF NewerOf
    <3>4. Within(NewerOf(R, m)) /\ m \in R
      BY FitsIs
    <3>5. Good(NewerOf(R, m))
      BY GoodPart DEF NewerOf
    <3> QED
      BY <3>3, <3>4, <3>5, TotalMonotone
  <2> QED
    BY <2>1, <2>2
<1> QED
  BY <1>1, <1>2, <1>3, <1>4

\* The newest part of the records keeps of what fits what is in it.
LEMMA FitsOfNewest ==
  ASSUME R2Assumption, NEW R, Good(R), NEW U \in SUBSET R,
         \A r \in U, s \in R : ~M!Older(s, r) => s \in U
  PROVE  M!Fits(U) = M!Fits(R) \cap U
<1>1. \A r \in U : NewerOf(U, r) = NewerOf(R, r)
  BY DEF NewerOf
<1> QED
  BY <1>1, FitsIs

\* A newest record comes to what fits as it comes to all.
LEMMA FitsWithNewest ==
  ASSUME R2Assumption, NEW R, NEW r, Good(R \cup {r}), \A s \in R : M!Older(s, r)
  PROVE  /\ M!Fits(M!Fits(R) \cup {r}) = M!Fits(R \cup {r})
         /\ M!Fits(R \cup {r}) \subseteq M!Fits(R) \cup {r}
<1> DEFINE all == R \cup {r}
           part == M!Fits(R) \cup {r}
<1>1. Good(R) /\ Good(all)
  BY GoodPart
<1>2. part \in SUBSET all
  BY FitsIs
<1>3. ASSUME NEW x \in part, NEW s \in all, ~M!Older(s, x) PROVE s \in part
  <2>1. CASE s = r
    BY <2>1
  <2>2. CASE s # r
    <3>1. s \in R
      BY <2>2
    <3>2. x # r
      BY <1>3, <3>1
    <3>3. x \in M!Fits(R)
      BY <3>2
    <3> QED
      BY <1>1, <1>3, <3>1, <3>3, FitsFacts
  <2> QED
    BY <2>1, <2>2
<1>4. M!Fits(part) = M!Fits(all) \cap part
  <2> HIDE DEF part, all
  <2> QED
    BY <1>1, <1>2, <1>3, FitsOfNewest
<1>5. M!Fits(all) \subseteq part
  <2> SUFFICES ASSUME NEW x \in M!Fits(all), x # r PROVE x \in M!Fits(R)
    OBVIOUS
  <2>1. x \in R /\ Within(NewerOf(all, x))
    BY FitsIs
  <2>2. NewerOf(R, x) \in SUBSET NewerOf(all, x) /\ NewerOf(all, x) \in SUBSET all
    BY DEF NewerOf
  <2>3. Good(NewerOf(all, x))
    <3> HIDE DEF all
    <3> QED
      BY <1>1, <2>2, GoodPart
  <2>4. Within(NewerOf(R, x))
    <3> HIDE DEF all
    <3> QED
      BY <2>1, <2>2, <2>3, TotalMonotone
  <2> QED
    BY <2>1, <2>4, FitsIs
<1> QED
  BY <1>4, <1>5

\* Records expire from the oldest on, so what fits may be taken before or after.
LEMMA FreshIsNewest ==
  ASSUME R2Assumption, NEW R, Good(R), now \in Nat
  PROVE  /\ M!Fresh(R) \in SUBSET R
         /\ \A r \in M!Fresh(R), s \in R : ~M!Older(s, r) => s \in M!Fresh(R)
         /\ M!Fits(M!Fresh(R)) = M!Fresh(M!Fits(R))
<1>1. M!Fresh(R) \in SUBSET R
  BY DEF M!Fresh
<1>2. ASSUME NEW r \in M!Fresh(R), NEW s \in R, ~M!Older(s, r) PROVE s \in M!Fresh(R)
  <2>1. /\ r.at \in Nat /\ s.at \in Nat /\ r.key \in Nat /\ s.key \in Nat
    BY <1>1 DEF Good, M!Records, R2Assumption
  <2>2. Ttl \in Nat
    BY DEF R2Assumption
  <2> QED
    BY <1>2, <2>1, <2>2 DEF M!Fresh, M!Expired, M!Older
<1>3. M!Fits(M!Fresh(R)) = M!Fits(R) \cap M!Fresh(R)
  BY <1>1, <1>2, FitsOfNewest
<1>4. M!Fits(R) \cap M!Fresh(R) = M!Fresh(M!Fits(R))
  BY FitsIs DEF M!Fresh
<1> QED
  BY <1>1, <1>2, <1>3, <1>4

-----------------------------------------------------------------------------
(* Cache store: the limit of the bucket *)

\* The keys that a put is still to delete.
Lost == {key \in Keys : \E d \in Everyone : calls[d].op = "put" /\ key \in ToSet(calls[d].doomed)}

\* Between the list of the last put and the end of its deletions, what no put is
\* to delete is within the limit, whatever other puts have deleted.
FitInv ==
  ~behind /\ (\A d \in Everyone : calls[d].step # "list") => Within({r \in bucket : r.key \notin Lost})

LEMMA BucketGood ==
  ASSUME TypeInv
  PROVE  /\ Good(bucket) /\ now \in Nat
         /\ \A d \in Everyone : /\ calls[d].doomed \in Seq(Keys) /\ calls[d] \in Call
                                /\ calls[d].step # "delete" => calls[d].doomed = << >> /\ calls[d].op = "put"
                                /\ calls[d].doomed = << >> => ToSet(calls[d].doomed) = {}
<1>1. Good(bucket) /\ now \in Nat
  BY DEF TypeInv, StoresInv, Good
<1>2. ASSUME NEW d \in Everyone
      PROVE  /\ calls[d].doomed \in Seq(Keys) /\ calls[d] \in Call
             /\ calls[d].step # "delete" => calls[d].doomed = << >> /\ calls[d].op = "put"
             /\ calls[d].doomed = << >> => ToSet(calls[d].doomed) = {}
  BY DEF TypeInv, CallsInv, Call, ToSet
<1> QED
  BY <1>1, <1>2

LEMMA FitKept ==
  ASSUME R2Assumption, TypeInv, FitInv, bucket' \subseteq bucket,
         ~behind' => ~behind,
         \A d \in Everyone : calls[d].step = "list" => behind' \/ calls'[d].step = "list",
         \A r \in bucket' : ~behind' /\ r.key \in Lost => r.key \in Lost'
  PROVE  FitInv'
<1> SUFFICES ASSUME ~behind', \A d \in Everyone : calls'[d].step # "list"
             PROVE  Within({r \in bucket' : r.key \notin Lost'})
  BY DEF FitInv, Within, M!Total, M!Cardinality, Everyone
<1>1. Within({r \in bucket : r.key \notin Lost})
  BY DEF FitInv
<1>2. {r \in bucket' : r.key \notin Lost'} \in SUBSET {r \in bucket : r.key \notin Lost}
  OBVIOUS
<1>3. Good({r \in bucket : r.key \notin Lost})
  BY BucketGood, GoodPart
<1> QED
  BY <1>1, <1>2, <1>3, TotalMonotone

LEMMA LostKept ==
  ASSUME TypeInv, NEW c \in Everyone, NEW call \in Call, Becomes(c, call), NEW key \in Lost,
         calls[c].op = "put" /\ key \in ToSet(calls[c].doomed) => call.op = "put" /\ key \in ToSet(call.doomed)
  PROVE  key \in Lost'
<1>1. PICK d \in Everyone : calls[d].op = "put" /\ key \in ToSet(calls[d].doomed)
  BY DEF Lost
<1>2. calls'[d].op = "put" /\ key \in ToSet(calls'[d].doomed)
  <2>1. CASE d = c
    BY <1>1, <2>1, CallStep
  <2>2. CASE d # c
    BY <1>1, <2>2, CallStep
  <2> QED
    BY <2>1, <2>2
<1> QED
  BY <1>2 DEF Lost, Everyone

\* A call that begins, from a caller who does nothing, changes nothing here.
LEMMA FitBegun ==
  ASSUME R2Assumption, TypeInv, FitInv, NEW c \in Everyone, NEW call \in Call, Becomes(c, call),
         calls[c].step \notin {"delete", "list"}, UNCHANGED <<bucket, behind>>
  PROVE  FitInv'
<1>1. calls[c].doomed = << >> /\ ToSet(calls[c].doomed) = {}
  BY BucketGood
<1>2. \A r \in bucket' : r.key \in Lost => r.key \in Lost'
  BY <1>1, LostKept
<1>3. \A d \in Everyone : calls[d].step = "list" => calls'[d].step = "list"
  BY CallStep
<1> QED
  BY <1>2, <1>3, FitKept

LEMMA OldCall == ASSUME TypeInv, NEW c \in Everyone PROVE calls[c] \in Call
BY BucketGood

LEMMA FitStep ==
  ASSUME R2Assumption, TypeInv, TypeInv', FitInv, [StoreNext]_storeVars
  PROVE  FitInv'
<1>1. \A c \in Callers : c \in Everyone
  BY DEF Everyone
<1>2. Reader \in Everyone
  BY DEF Everyone
<1>3. ASSUME NEW c \in Everyone PROVE calls'[c] \in Call
  BY DEF TypeInv, CallsInv
<1>4. ASSUME NEW c \in Everyone, NEW call, Becomes(c, call) PROVE call \in Call
  BY <1>3, <1>4 DEF Becomes, TypeInv, CallsInv
<1>5. ASSUME NEW c \in Callers, NEW key \in Keys, NEW size \in Sizes, Put(c, key, size) PROVE FitInv'
  <2> PICK call : Becomes(c, call)
    BY <1>5 DEF Put
  <2> QED
    BY <1>1, <1>4, <1>5, FitBegun DEF Put
<1>6. ASSUME NEW c \in Callers, Write(c) PROVE FitInv'
  <2>1. CASE MaxBytes = 0
    BY <2>1 DEF FitInv, Within
  <2>2. CASE MaxBytes # 0
    <3>1. Becomes(c, [Idle EXCEPT !.step = "list"])
      BY <1>6, <2>2 DEF Write
    <3>2. calls'[c].step = "list"
      BY <1>1, <3>1 DEF Becomes, TypeInv, CallsInv, Idle
    <3> QED
      BY <1>1, <3>2 DEF FitInv, Everyone
  <2> QED
    BY <2>1, <2>2
<1>7. ASSUME NEW c \in Callers, ListForPolicy(c) PROVE FitInv'
  <2> DEFINE D == ExpiredRecords \cup Exceeded
             doomed == InTurn(D)
  <2>1. D \in SUBSET bucket /\ bucket \ D \subseteq M!Fits(M!Fresh(bucket))
    BY DEF ExpiredRecords, Exceeded, M!Fresh
  <2>2. Good(bucket) /\ Good(D) /\ Good(M!Fresh(bucket)) /\ now \in Nat
    <3>1. M!Fresh(bucket) \in SUBSET bucket
      BY DEF M!Fresh
    <3> HIDE DEF D
    <3> QED
      BY <2>1, <3>1, BucketGood, GoodPart
  <2>3. doomed \in Seq(Keys) /\ \A r \in D : \E n \in DOMAIN doomed : doomed[n] = r.key
    <3> HIDE DEF D
    <3>1. /\ doomed \in [1..Cardinality(D) -> Keys] /\ Cardinality(D) \in Nat
          /\ \A r \in D : \E n \in 1..Cardinality(D) : doomed[n] = r.key
      BY <2>2, InTurnFacts DEF Good
    <3> HIDE DEF doomed
    <3> QED
      BY <3>1
  <2>4. calls[c] \in Call /\ calls[c].op = "put" /\ Becomes(c, Doom(calls[c], doomed))
        /\ bucket' = bucket
    BY <1>1, <1>7, BucketGood DEF ListForPolicy
  <2> HIDE DEF doomed, D
  <2>5. calls'[c].op = "put" /\ calls'[c].doomed = doomed
    <3>1. Doom(calls[c], doomed) \in Call /\ Doom(calls[c], doomed).op = "put"
          /\ Doom(calls[c], doomed).doomed = doomed
      BY <2>3, <2>4, DoomFacts
    <3> QED
      BY <1>1, <2>4, <3>1, CallStep
  <2>6. \A r \in D : r.key \in Lost'
    <3>1. \A r \in D : r.key \in Keys /\ r.key \in ToSet(doomed)
      BY <2>2, <2>3 DEF Good, M!Records, ToSet
    <3> QED
      BY <1>1, <2>5, <3>1 DEF Lost, Everyone
  <2>7. {r \in bucket' : r.key \notin Lost'} \in SUBSET M!Fits(M!Fresh(bucket))
    BY <2>1, <2>4, <2>6
  <2>8. Within(M!Fits(M!Fresh(bucket))) /\ Good(M!Fits(M!Fresh(bucket)))
    BY <2>2, FitsFacts, GoodPart
  <2>9. Within({r \in bucket' : r.key \notin Lost'})
    BY <2>7, <2>8, TotalMonotone
  <2> QED
    BY <2>9 DEF FitInv, Within, M!Total, M!Cardinality
<1>8. ASSUME NEW c \in Callers, NEW r \in bucket, Get(c, r) PROVE FitInv'
  <2> PICK call : Becomes(c, call)
    BY <1>8 DEF Get
  <2> QED
    BY <1>1, <1>4, <1>8, FitBegun DEF Get
<1>9. ASSUME NEW c \in Callers, NEW r \in bucket, RemoveRecord(c, r) PROVE FitInv'
  <2> PICK call : Becomes(c, call)
    BY <1>9 DEF RemoveRecord
  <2> QED
    BY <1>1, <1>4, <1>9, FitBegun DEF RemoveRecord
<1>10. ASSUME NEW c \in Everyone, Delete(c) PROVE FitInv'
  <2> DEFINE doomed == calls[c].doomed
             call == Doom(calls[c], Tail(doomed))
  <2>1. calls[c] \in Call /\ calls[c].step = "delete" /\ doomed # << >> /\ doomed \in Seq(Keys)
        /\ Becomes(c, call) /\ bucket' = M!Without(bucket, Head(doomed)) /\ behind' = behind
    BY <1>10 DEF Delete, TypeInv, CallsInv, Call
  <2>2. call \in Call /\ call.doomed = Tail(doomed)
        /\ (call.op = "put" \/ call.op = calls[c].op)
    <3>1. Tail(doomed) \in Seq(Keys)
      BY <2>1
    <3> QED
      BY <2>1, <3>1, DoomFacts
  <2>3. ASSUME NEW r \in bucket', r.key \in Lost PROVE r.key \in Lost'
    <3>1. r.key # Head(doomed)
      BY <2>1 DEF M!Without
    <3>2. r.key \in ToSet(doomed) => r.key \in ToSet(Tail(doomed))
      <4>3. \A s \in Seq(Keys) : ToSet(s) = {s[i] : i \in 1..Len(s)}
        BY DEF ToSet
      <4>4. Tail(doomed) \in Seq(Keys)
        BY <2>1
      <4>5. ASSUME NEW n \in 1..Len(doomed), doomed[n] = r.key
            PROVE  \E m \in 1..Len(Tail(doomed)) : Tail(doomed)[m] = r.key
        <5>1. n # 1
          BY <2>1, <3>1, <4>5
        <5>2. Tail(doomed)[n - 1] = r.key /\ n - 1 \in 1..Len(Tail(doomed))
          BY <2>1, <4>5, <5>1
        <5> QED
          BY <5>2
      <4> HIDE DEF doomed
      <4>6. ToSet(doomed) = {doomed[i] : i \in 1..Len(doomed)}
            /\ ToSet(Tail(doomed)) = {Tail(doomed)[i] : i \in 1..Len(Tail(doomed))}
        BY <2>1, <4>3, <4>4
      <4> QED
        BY <4>5, <4>6
    <3>3. calls[c].op = "put" => call.op = "put"
      BY <2>2
    <3> HIDE DEF call, doomed
    <3> QED
      BY <2>1, <2>2, <2>3, <3>2, <3>3, LostKept DEF doomed
  <2>4. bucket' \subseteq bucket
    BY <2>1 DEF M!Without
  <2>5. \A d \in Everyone : calls[d].step = "list" => calls'[d].step = "list"
    <3> HIDE DEF call
    <3> QED
      BY <2>1, <2>2, CallStep
  <2> QED
    BY <2>1, <2>3, <2>4, <2>5, FitKept
<1>11. ASSUME NEW c \in Everyone, Fail(c) PROVE FitInv'
  <2>1. CASE behind'
    BY <2>1 DEF FitInv
  <2>2. CASE ~behind'
    <3>1. /\ ~behind /\ calls[c].step # "list" /\ ~(calls[c].step = "delete" /\ calls[c].op = "put")
          /\ Becomes(c, Idle) /\ bucket' = bucket
      BY <1>11, <2>2 DEF Fail
    <3>2. ASSUME NEW key \in Lost PROVE key \in Lost'
      <4>1. ~(calls[c].op = "put" /\ key \in ToSet(calls[c].doomed))
        BY <3>1, BucketGood
      <4> QED
        BY <3>1, <4>1, LostKept, IdleFacts
    <3>3. \A d \in Everyone : calls[d].step = "list" => calls'[d].step = "list"
      BY <3>1, CallStep, IdleFacts
    <3> QED
      BY <3>1, <3>2, <3>3, FitKept
  <2> QED
    BY <2>1, <2>2
<1>12. ASSUME List PROVE FitInv'
  <2> PICK call : Becomes(Reader, call)
    BY <1>12 DEF List
  <2> QED
    BY <1>2, <1>4, <1>12, FitBegun DEF List
<1>13. ASSUME UNCHANGED <<bucket, calls, behind>> PROVE FitInv'
  BY <1>13, FitKept DEF Lost, Everyone
<1> QED
  BY <1>5, <1>6, <1>7, <1>8, <1>9, <1>10, <1>11, <1>12, <1>13 DEF StoreNext, Page, Tick, storeVars

-----------------------------------------------------------------------------
(* Cache store: the two stores *)

\* The keys of a sequence, as far as F has them, are of records that do not fit,
\* and of none before those older than it.
Goes(keys, F) ==
  \A i \in 1..Len(keys), r \in F : r.key = keys[i] =>
    /\ r \notin M!Fits(F)
    /\ \A s \in F : M!Older(s, r) => \E j \in 1..(i - 1) : keys[j] = s.key

Kept == M!Fits(M!Fresh(bucket))

\* Unless a write or a removal came out of turn, the store in memory has what
\* the bucket is on its way to, and the deletions on the way take the oldest first.
AgreeInv ==
  ~raced =>
    /\ M!Fresh(memory) = Kept
    /\ \A d \in Everyone : calls[d].op # "remove" => Goes(calls[d].doomed, M!Fresh(bucket))

LEMMA GoesNowhere == \A F : Goes(<< >>, F)
BY DEF Goes

LEMMA GoesOfNewest ==
  ASSUME R2Assumption, NEW F, Good(F), NEW U \in SUBSET F, NEW keys, Goes(keys, F),
         \A r \in U, s \in F : ~M!Older(s, r) => s \in U
  PROVE  Goes(keys, U)
<1>1. M!Fits(U) = M!Fits(F) \cap U
  BY FitsOfNewest
<1> QED
  BY <1>1 DEF Goes

LEMMA GoesWithNewest ==
  ASSUME R2Assumption, NEW F, NEW r, Good(F \cup {r}), \A s \in F : M!Older(s, r),
         NEW keys \in Seq(Keys), Goes(keys, F), r.key \notin ToSet(keys)
  PROVE  Goes(keys, F \cup {r})
<1>1. M!Fits(F \cup {r}) \subseteq M!Fits(F) \cup {r}
  BY FitsWithNewest
<1>2. \A i \in 1..Len(keys) : keys[i] # r.key
  BY DEF ToSet
<1>3. ASSUME NEW s \in F PROVE ~M!Older(r, s) /\ s # r
  BY Order
<1> QED
  BY <1>1, <1>2, <1>3 DEF Goes

LEMMA GoesHead ==
  ASSUME R2Assumption, NEW F, Good(F), NEW keys \in Seq(Keys), keys # << >>, Goes(keys, F)
  PROVE  LET U == M!Without(F, Head(keys)) IN
         /\ \A r \in U, s \in F : ~M!Older(s, r) => s \in U
         /\ M!Fits(U) = M!Fits(F)
         /\ Goes(Tail(keys), U)
<1> DEFINE U == M!Without(F, Head(keys))
<1>1. U \in SUBSET F /\ \A s \in F : s \notin U => s.key = Head(keys)
  BY DEF M!Without
<1>2. Head(keys) = keys[1] /\ Len(keys) \in Nat /\ 1 \in 1..Len(keys)
  OBVIOUS
<1>3. ASSUME NEW s \in F, s \notin U
      PROVE  s \notin M!Fits(F) /\ \A r \in F : ~M!Older(r, s)
  BY <1>1, <1>2, <1>3 DEF Goes
<1>4. ASSUME NEW r \in U, NEW s \in F, ~M!Older(s, r) PROVE s \in U
  <2>1. CASE s \notin U
    <3>1. ~M!Older(r, s)
      BY <1>1, <1>3, <2>1
    <3>2. r = s
      BY <1>1, <1>4, <3>1, Order
    <3> QED
      BY <3>2
  <2> QED
    BY <2>1
<1>5. M!Fits(U) = M!Fits(F) \cap U
  <2> HIDE DEF U
  <2> QED
    BY <1>1, <1>4, FitsOfNewest
<1>6. M!Fits(F) \subseteq U
  BY <1>3, FitsIs
<1>7. Goes(keys, U)
  <2> HIDE DEF U
  <2> QED
    BY <1>1, <1>4, GoesOfNewest
<1>8. ASSUME NEW i \in 1..Len(Tail(keys)), NEW r \in U, r.key = Tail(keys)[i]
      PROVE  /\ r \notin M!Fits(U)
             /\ \A s \in U : M!Older(s, r) => \E j \in 1..(i - 1) : Tail(keys)[j] = s.key
  <2>1. i + 1 \in 1..Len(keys) /\ keys[i + 1] = r.key
    BY <1>8
  <2>2. r \notin M!Fits(U) /\ \A s \in U : M!Older(s, r) => \E j \in 1..((i + 1) - 1) : keys[j] = s.key
    <3> HIDE DEF U
    <3> QED
      BY <1>7, <2>1 DEF Goes
  <2>3. ASSUME NEW s \in U, M!Older(s, r) PROVE \E j \in 1..(i - 1) : Tail(keys)[j] = s.key
    <3>1. PICK j \in 1..((i + 1) - 1) : keys[j] = s.key
      BY <2>2, <2>3
    <3>2. j # 1
      BY <1>2, <3>1 DEF M!Without
    <3>3. j - 1 \in 1..(i - 1) /\ Tail(keys)[j - 1] = s.key
      BY <1>8, <3>1, <3>2
    <3> QED
      BY <3>3
  <2> QED
    BY <2>2, <2>3
<1>9. Goes(Tail(keys), U)
  <2> HIDE DEF U
  <2> QED
    BY <1>8 DEF Goes
<1>10. M!Fits(U) = M!Fits(F)
  <2> HIDE DEF U
  <2> QED
    BY <1>5, <1>6
<1> QED
  BY <1>4, <1>9, <1>10

\* While no other call has anything to delete, the bucket is within its limit.
LEMMA TidyKept ==
  ASSUME R2Assumption, TypeInv, FitInv, NEW c \in Everyone, ~Untidy(c), calls[c].step # "list",
         calls[c].doomed = << >> \/ calls[c].op = "remove"
  PROVE  /\ Within(bucket) /\ Kept = M!Fresh(bucket)
         /\ \A d \in Everyone \ {c} : calls[d].doomed = << >>
<1>1. \A d \in Everyone \ {c} : calls[d].doomed = << >> /\ calls[d].step # "list"
  BY BucketGood DEF Untidy
<1>2. Lost = {}
  <2> SUFFICES ASSUME NEW d \in Everyone, calls[d].op = "put", NEW key \in ToSet(calls[d].doomed) PROVE FALSE
    BY DEF Lost
  <2>1. calls[d].doomed = << >>
    BY <1>1
  <2> QED
    BY <2>1, BucketGood
<1>3. {r \in bucket : r.key \notin Lost} = bucket
  BY <1>2
<1>4. Within(bucket)
  BY <1>1, <1>3 DEF FitInv, Untidy
<1>5. M!Fresh(bucket) \in SUBSET bucket
  BY DEF M!Fresh
<1>6. Within(M!Fresh(bucket)) /\ Good(M!Fresh(bucket))
  BY <1>4, <1>5, BucketGood, GoodPart, TotalMonotone
<1> QED
  BY <1>1, <1>4, <1>6, FitsFacts DEF Kept

\* Records that stay and calls that have less to delete.
LEMMA AgreeKept ==
  ASSUME AgreeInv, UNCHANGED <<bucket, now>>, raced' = raced,
         M!Fresh(memory)' = M!Fresh(memory),
         \A d \in Everyone : \/ calls'[d].doomed = << >>
                             \/ calls'[d].op = "remove"
                             \/ calls'[d] = calls[d]
                             \/ Goes(calls'[d].doomed, M!Fresh(bucket))
  PROVE  AgreeInv'
<1>1. M!Fresh(bucket)' = M!Fresh(bucket)
  BY DEF M!Fresh, M!Expired
<1>2. ASSUME ~raced', NEW d \in Everyone, calls'[d].op # "remove"
      PROVE  Goes(calls'[d].doomed, M!Fresh(bucket)')
  BY <1>1, <1>2, GoesNowhere DEF AgreeInv
<1>3. ~raced' => M!Fresh(memory)' = M!Fits(M!Fresh(bucket)')
  BY <1>1 DEF AgreeInv, Kept
<1>4. ~raced' => /\ M!Fresh(memory)' = M!Fits(M!Fresh(bucket)')
                 /\ \A d \in Everyone : calls'[d].op # "remove" => Goes(calls'[d].doomed, M!Fresh(bucket)')
  BY <1>2, <1>3
<1> QED
  BY <1>4 DEF AgreeInv, Kept, Everyone

LEMMA WithoutFresh == \A R, key : M!Without(M!Fresh(R), key) = M!Fresh(M!Without(R, key))
BY DEF M!Without, M!Fresh

\* The claim about the next state, in its parts.
LEMMA AgreeNext ==
  ASSUME NEW F, F = M!Fresh(bucket)',
         ~raced' => M!Fresh(memory)' = M!Fits(F),
         ~raced' => \A d \in Everyone : calls'[d].op # "remove" => Goes(calls'[d].doomed, F)
  PROVE  AgreeInv'
<1>1. ~raced' => /\ M!Fresh(memory)' = M!Fits(M!Fresh(bucket)')
                 /\ \A d \in Everyone : calls'[d].op # "remove" => Goes(calls'[d].doomed, M!Fresh(bucket)')
  OBVIOUS
<1> QED
  BY <1>1 DEF AgreeInv, Kept, Everyone

LEMMA WrittenAgrees ==
  ASSUME R2Assumption, TypeInv, TypeInv', FitInv, AgreeInv, NEW c \in Everyone,
         calls[c].step = "write", Written(c), now' = now, calls'[c].doomed = << >>,
         \A d \in Everyone \ {c} : calls'[d] = calls[d]
  PROVE  AgreeInv'
<1> DEFINE r == calls[c].record
           F == M!Fresh(bucket)
           Y == M!Without(F, r.key) \cup {r}
           G == M!Fresh(bucket)'
<1>1. r \in M!Records(Keys, Sizes) /\ calls[c].doomed = << >>
  BY BucketGood DEF TypeInv, CallsInv
<1>2. bucket' = M!Without(bucket, r.key) \cup {r}
      /\ memory' = M!Fits(M!Without(M!Fresh(memory), r.key) \cup {r})
      /\ raced' = (raced \/ OutOfTurn(c, r))
  BY DEF Written, M!Put
<1> HIDE DEF r
<1>3. Good(F) /\ Good(bucket) /\ now \in Nat /\ F \in SUBSET bucket
  <2>1. F \in SUBSET bucket
    BY DEF M!Fresh
  <2> HIDE DEF F
  <2> QED
    BY <2>1, BucketGood, GoodPart
<1>4. Good(bucket')
  BY DEF Good, TypeInv, StoresInv
<1>5. Y \in SUBSET bucket'
  BY <1>2, <1>3 DEF M!Without
<1>6. Good(Y)
  <2> HIDE DEF Y
  <2> QED
    BY <1>4, <1>5, GoodPart
<1>7. G = M!Fresh(Y)
  <2>1. G = M!Fresh(bucket')
    BY DEF M!Fresh, M!Expired
  <2> QED
    BY <1>2, <2>1 DEF M!Fresh, M!Without
<1>8. M!Fits(G) = M!Fresh(M!Fits(Y))
  <2> HIDE DEF G, Y
  <2> QED
    BY <1>3, <1>6, <1>7, FreshIsNewest
<1>9. M!Fresh(memory)' = M!Fresh(M!Fits(M!Without(M!Fresh(memory), r.key) \cup {r}))
  BY <1>2 DEF M!Fresh, M!Expired
<1>10. SUFFICES ASSUME ~raced'
                PROVE  /\ M!Fits(M!Without(Kept, r.key) \cup {r}) = M!Fits(Y)
                       /\ \A d \in Everyone \ {c} : calls[d].op # "remove" => Goes(calls[d].doomed, G)
  <2> HIDE DEF G, Y
  <2>1. ~raced' => ~raced
    BY <1>2
  <2>2. ~raced' => M!Fresh(memory) = Kept
    BY <2>1 DEF AgreeInv
  <2>3. ~raced' => M!Fresh(memory)' = M!Fits(G)
    BY <1>8, <1>9, <1>10, <2>2
  <2>4. ~raced' => \A d \in Everyone : calls'[d].op # "remove" => Goes(calls'[d].doomed, G)
    BY <1>10, GoesNowhere
  <2> QED
    BY <2>3, <2>4, AgreeNext DEF G
<1>11. /\ M!Fresh(memory) = Kept /\ ~OutOfTurn(c, r)
       /\ \A d \in Everyone : calls[d].op # "remove" => Goes(calls[d].doomed, F)
  BY <1>2, <1>10 DEF AgreeInv
<1>12. CASE ~Untidy(c)
  <2>1. Kept = F /\ \A d \in Everyone \ {c} : calls[d].doomed = << >>
    BY <1>1, <1>12, TidyKept
  <2> QED
    BY <2>1, GoesNowhere
<1>13. CASE Untidy(c)
  <2>1. \A s \in bucket : s.key # r.key /\ ~M!Older(r, s)
    BY <1>11, <1>13 DEF OutOfTurn
  <2>2. Y = F \cup {r} /\ M!Without(Kept, r.key) = Kept
    <3>1. Kept \in SUBSET F
      BY FitsIs DEF Kept
    <3> QED
      BY <1>3, <2>1, <3>1 DEF M!Without
  <2>3. \A s \in F : M!Older(s, r)
    <3>1. ASSUME NEW s \in F PROVE M!Older(s, r)
      <4>1. s \in bucket' /\ r \in bucket' /\ s # r
        BY <1>2, <1>3, <2>1 DEF M!Without
      <4>2. s = r \/ M!Older(s, r) \/ M!Older(r, s)
        BY <1>4, <4>1, Order
      <4> QED
        BY <1>3, <2>1, <4>1, <4>2
    <3> QED
      BY <3>1
  <2>4. M!Fits(Kept \cup {r}) = M!Fits(Y)
    <3> HIDE DEF F, Y
    <3>1. M!Fits(M!Fits(F) \cup {r}) = M!Fits(F \cup {r})
      BY <1>6, <2>2, <2>3, FitsWithNewest
    <3> QED
      BY <2>2, <3>1 DEF Kept, F
  <2>5. ASSUME NEW d \in Everyone \ {c}, calls[d].op # "remove" PROVE Goes(calls[d].doomed, G)
    <3>1. calls[d].doomed \in Seq(Keys) /\ r.key \notin ToSet(calls[d].doomed) /\ Goes(calls[d].doomed, F)
      BY <1>11, <2>5, BucketGood DEF OutOfTurn
    <3>2. Goes(calls[d].doomed, Y)
      <4> HIDE DEF F, Y
      <4> QED
        BY <1>6, <2>2, <2>3, <3>1, GoesWithNewest
    <3> HIDE DEF Y, G
    <3>3. G \in SUBSET Y /\ \A x \in G, s \in Y : ~M!Older(s, x) => s \in G
      BY <1>3, <1>6, <1>7, FreshIsNewest
    <3> QED
      BY <1>6, <3>2, <3>3, GoesOfNewest
  <2> QED
    BY <2>2, <2>4, <2>5
<1> QED
  BY <1>12, <1>13

LEMMA DeleteAgrees ==
  ASSUME R2Assumption, TypeInv, TypeInv', FitInv, AgreeInv, NEW c \in Everyone, Delete(c)
  PROVE  AgreeInv'
<1> DEFINE doomed == calls[c].doomed
           key == Head(doomed)
           call == Doom(calls[c], Tail(doomed))
           F == M!Fresh(bucket)
           G == M!Without(F, key)
<1>1. /\ calls[c] \in Call /\ calls[c].step = "delete" /\ doomed # << >> /\ doomed \in Seq(Keys)
      /\ Becomes(c, call) /\ bucket' = M!Without(bucket, key) /\ now' = now
  BY DEF Delete, TypeInv, CallsInv, Call
<1>2. /\ call \in Call /\ call.doomed = Tail(doomed)
      /\ call.doomed # << >> => call.op = calls[c].op
  <2>1. Tail(doomed) \in Seq(Keys)
    BY <1>1
  <2>2. /\ call \in Call /\ call.doomed = Tail(doomed)
        /\ call.op = IF Tail(doomed) = << >> THEN "put" ELSE calls[c].op
    BY <1>1, <2>1, DoomFacts
  <2> HIDE DEF call
  <2> QED
    BY <2>2
<1> HIDE DEF call
<1>3. calls'[c] = call /\ \A d \in Everyone \ {c} : calls'[d] = calls[d]
  BY <1>1, <1>2, CallStep
<1>4. M!Fresh(bucket)' = G
  <2>1. M!Fresh(bucket)' = M!Fresh(bucket')
    BY <1>1 DEF M!Fresh, M!Expired
  <2> HIDE DEF key
  <2> QED
    BY <1>1, <2>1, WithoutFresh
<1>5. Good(F) /\ Good(bucket) /\ now \in Nat /\ F \in SUBSET bucket
  <2>1. F \in SUBSET bucket
    BY DEF M!Fresh
  <2> HIDE DEF F
  <2> QED
    BY <2>1, BucketGood, GoodPart
<1>6. CASE calls[c].op = "remove" /\ M!RemoveRecord(key) /\ raced' = (raced \/ Untidy(c))
  <2>1. ASSUME ~raced' PROVE M!Fresh(memory)' = M!Fits(G) /\ \A d \in Everyone \ {c} : calls[d].doomed = << >>
    <3>1. ~Untidy(c) /\ M!Fresh(memory) = Kept
      BY <1>6, <2>1 DEF AgreeInv
    <3>2. /\ Within(bucket) /\ Kept = F
          /\ \A d \in Everyone \ {c} : calls[d].doomed = << >>
      BY <1>1, <1>6, <3>1, TidyKept
    <3>3. M!Fresh(memory)' = M!Without(M!Fresh(memory), key)
      BY <1>1, <1>6 DEF M!RemoveRecord, M!Fresh, M!Expired, M!Without
    <3>4. G \in SUBSET bucket
      BY <1>5 DEF M!Without
    <3> HIDE DEF G
    <3>5. M!Fits(G) = G
      BY <1>5, <3>2, <3>4, TotalMonotone, GoodPart, FitsFacts
    <3> QED
      BY <3>1, <3>2, <3>3, <3>5 DEF G
  <2>2. ASSUME ~raced', NEW d \in Everyone, calls'[d].op # "remove" PROVE Goes(calls'[d].doomed, G)
    <3>1. calls'[d].doomed = << >>
      BY <1>2, <1>3, <1>6, <2>1, <2>2
    <3> QED
      BY <3>1, GoesNowhere
  <2> HIDE DEF G
  <2> QED
    BY <1>4, <2>1, <2>2, AgreeNext
<1>7. CASE calls[c].op # "remove" /\ UNCHANGED <<memory, raced>>
  <2>1. ASSUME ~raced'
        PROVE  /\ \A r \in G, s \in F : ~M!Older(s, r) => s \in G
               /\ M!Fits(G) = M!Fits(F)
               /\ Goes(Tail(doomed), G)
    <3>1. Goes(doomed, F)
      BY <1>7, <2>1 DEF AgreeInv
    <3> HIDE DEF F, doomed
    <3> QED
      BY <1>1, <1>5, <3>1, GoesHead
  <2>2. ASSUME ~raced' PROVE M!Fresh(memory)' = M!Fits(G)
    <3>1. M!Fresh(memory)' = M!Fresh(memory) /\ M!Fresh(memory) = M!Fits(F)
      BY <1>1, <1>7, <2>2 DEF AgreeInv, Kept, M!Fresh, M!Expired
    <3> HIDE DEF F, G
    <3> QED
      BY <2>1, <2>2, <3>1
  <2>3. ASSUME ~raced', NEW d \in Everyone, calls'[d].op # "remove" PROVE Goes(calls'[d].doomed, G)
    <3>1. CASE d = c
      BY <1>2, <1>3, <2>1, <2>3, <3>1
    <3>2. CASE d # c
      <4>1. Goes(calls[d].doomed, F)
        BY <1>3, <1>7, <2>3, <3>2 DEF AgreeInv
      <4>2. G \in SUBSET F
        BY DEF M!Without
      <4> HIDE DEF F, G
      <4>3. Goes(calls[d].doomed, G)
        BY <1>5, <2>1, <2>3, <4>1, <4>2, GoesOfNewest
      <4> QED
        BY <1>3, <3>2, <4>3
    <3> QED
      BY <3>1, <3>2
  <2> HIDE DEF G
  <2> QED
    BY <1>4, <2>2, <2>3, AgreeNext
<1> QED
  BY <1>6, <1>7 DEF Delete

LEMMA TickAgrees ==
  ASSUME R2Assumption, TypeInv, TypeInv', AgreeInv, Tick
  PROVE  AgreeInv'
<1> DEFINE F == M!Fresh(bucket)
           G == M!Fresh(bucket)'
<1>1. now' = now + 1 /\ now \in Nat /\ UNCHANGED <<bucket, memory, calls, raced>> /\ Ttl \in Nat
  BY BucketGood DEF Tick, R2Assumption
<1>2. Good(F) /\ F \in SUBSET bucket /\ \A r \in F : r.at \in Nat /\ r.key \in Nat
  <2>1. F \in SUBSET bucket
    BY DEF M!Fresh
  <2>2. Good(F)
    <3> HIDE DEF F
    <3> QED
      BY <2>1, BucketGood, GoodPart
  <2> QED
    BY <2>1, <2>2 DEF Good, M!Records, R2Assumption
<1>3. \A r : r.at \in Nat => (~M!Expired(r)' => ~M!Expired(r))
  BY <1>1 DEF M!Expired
<1>4. G = {r \in F : ~M!Expired(r)'}
  <2>1. \A r \in bucket : r.at \in Nat
    BY DEF TypeInv, StoresInv, M!Records
  <2> QED
    BY <1>1, <1>3, <2>1 DEF M!Fresh
<1>5. \A r \in G, s \in F : ~M!Older(s, r) => s \in G
  <2> SUFFICES ASSUME NEW r \in G, NEW s \in F, ~M!Older(s, r) PROVE ~M!Expired(s)'
    BY <1>4
  <2>1. r.at \in Nat /\ s.at \in Nat /\ r.key \in Nat /\ s.key \in Nat /\ ~M!Expired(r)'
    BY <1>2, <1>4
  <2> HIDE DEF F, G
  <2> QED
    BY <1>1, <2>1 DEF M!Expired, M!Older
<1>6. M!Fits(G) = M!Fits(F) \cap G
  <2>1. G \in SUBSET F
    BY <1>4
  <2> HIDE DEF F, G
  <2> QED
    BY <1>2, <1>5, <2>1, FitsOfNewest
<1>7. ASSUME ~raced' PROVE M!Fresh(memory)' = M!Fits(G)
  <2>1. M!Fresh(memory) = M!Fits(F)
    BY <1>1, <1>7 DEF AgreeInv, Kept
  <2>2. M!Fresh(memory)' = {r \in M!Fresh(memory) : ~M!Expired(r)'}
    <3>1. \A r \in memory : r.at \in Nat
      BY DEF TypeInv, StoresInv, M!Records
    <3> QED
      BY <1>1, <1>3, <3>1 DEF M!Fresh
  <2>3. M!Fits(F) \subseteq F
    BY FitsIs
  <2> QED
    BY <1>4, <1>6, <2>1, <2>2, <2>3
<1>8. ASSUME ~raced', NEW d \in Everyone, calls'[d].op # "remove" PROVE Goes(calls'[d].doomed, G)
  <2>1. Goes(calls[d].doomed, F) /\ calls' = calls
    BY <1>1, <1>8 DEF AgreeInv
  <2>2. G \in SUBSET F
    BY <1>4
  <2> HIDE DEF F, G
  <2> QED
    BY <1>2, <1>5, <2>1, <2>2, GoesOfNewest
<1> HIDE DEF F
<1> QED
  BY <1>7, <1>8, AgreeNext

LEMMA AgreeStep ==
  ASSUME R2Assumption, TypeInv, TypeInv', FitInv, AgreeInv, [StoreNext]_storeVars
  PROVE  AgreeInv'
<1>1. (\A c \in Callers : c \in Everyone) /\ Reader \in Everyone
  BY DEF Everyone
<1>2. UNCHANGED <<memory, now>> => M!Fresh(memory)' = M!Fresh(memory)
  BY DEF M!Fresh, M!Expired
<1>3. ASSUME NEW c \in Everyone, NEW call \in Call, Becomes(c, call), UNCHANGED <<bucket, now, raced>>,
             M!Fresh(memory)' = M!Fresh(memory),
             call.doomed = << >> \/ call.op = "remove" \/ Goes(call.doomed, M!Fresh(bucket))
      PROVE  AgreeInv'
  <2>1. \A d \in Everyone : \/ calls'[d].doomed = << >>
                             \/ calls'[d].op = "remove"
                             \/ calls'[d] = calls[d]
                             \/ Goes(calls'[d].doomed, M!Fresh(bucket))
    BY <1>3, CallStep
  <2> QED
    BY <1>3, <2>1, AgreeKept
<1>4. ASSUME NEW c \in Everyone, NEW call, Becomes(c, call) PROVE call \in Call /\ call = calls'[c]
  BY <1>4 DEF Becomes, TypeInv, CallsInv
<1>5. M!Fresh(bucket) \in SUBSET bucket /\ M!Keyed(bucket)
      /\ bucket \subseteq M!Records(Keys, Sizes) /\ ExpiredRecords \in SUBSET bucket
  BY DEF TypeInv, StoresInv, M!Fresh, ExpiredRecords
<1>6. ASSUME NEW c \in Callers, NEW key \in Keys, NEW size \in Sizes, Put(c, key, size) PROVE AgreeInv'
  <2> DEFINE call == [Idle EXCEPT !.step = "write", !.record = [key |-> key, at |-> now, size |-> size]]
  <2>1. Becomes(c, call) /\ UNCHANGED <<bucket, memory, now, raced>>
    BY <1>6 DEF Put
  <2>2. call.doomed = << >>
    BY DEF Idle
  <2> HIDE DEF call
  <2> QED
    BY <1>1, <1>2, <1>3, <1>4, <2>1, <2>2
<1>7. ASSUME NEW c \in Everyone, calls[c].step = "write", Written(c), now' = now,
             NEW call, Becomes(c, call), call.doomed = << >>
      PROVE  AgreeInv'
  <2>1. calls'[c].doomed = << >> /\ \A d \in Everyone \ {c} : calls'[d] = calls[d]
    BY <1>4, <1>7, CallStep
  <2> QED
    BY <1>7, <2>1, WrittenAgrees
<1>8. ASSUME NEW c \in Callers, Write(c) PROVE AgreeInv'
  <2> DEFINE call == IF Ttl = 0 /\ MaxBytes = 0 THEN Idle ELSE [Idle EXCEPT !.step = "list"]
  <2>1. call.doomed = << >>
    BY DEF Idle
  <2>2. Becomes(c, call)
    BY <1>8 DEF Write
  <2> HIDE DEF call
  <2> QED
    BY <1>1, <1>7, <1>8, <2>1, <2>2 DEF Write
<1>9. ASSUME NEW D \in SUBSET bucket
      PROVE  /\ InTurn(D) \in Seq(Keys) /\ Len(InTurn(D)) = Cardinality(D) /\ Good(D) /\ now \in Nat
             /\ Cardinality(D) \in Nat
  BY InTurnTyped, BucketGood, GoodPart DEF TypeInv
<1>10. ASSUME NEW c \in Callers, ListForPolicy(c) PROVE AgreeInv'
  <2> DEFINE F == M!Fresh(bucket)
             D == ExpiredRecords \cup Exceeded
             doomed == InTurn(D)
  <2>1. Exceeded = F \ M!Fits(F) /\ ExpiredRecords = bucket \ F /\ D \in SUBSET bucket
    BY <1>5 DEF Exceeded, ExpiredRecords
  <2>2. Good(F) /\ Good(bucket)
    <3> HIDE DEF F
    <3> QED
      BY <1>5, BucketGood, GoodPart DEF F
  <2>3. \A r \in F : ~M!Expired(r)
    BY DEF M!Fresh
  <2> HIDE DEF F
  <2>4. /\ doomed \in Seq(Keys) /\ Len(doomed) = Cardinality(D) /\ Cardinality(D) \in Nat
    <3> HIDE DEF D
    <3> QED
      BY <1>9, <2>1
  <2>5. /\ \A n \in 1..Len(doomed) : \E r \in D : doomed[n] = r.key
        /\ \A r \in D : \E n \in 1..Len(doomed) : doomed[n] = r.key
        /\ \A r, s \in D, m, n \in 1..Len(doomed) :
             doomed[m] = r.key /\ doomed[n] = s.key /\ Before(r, s) => m < n
    <3> HIDE DEF D
    <3>1. /\ IsFiniteSet(D) /\ D \subseteq M!Records(Keys, Sizes) /\ M!Keyed(D) /\ now \in Nat
      BY <1>9, <2>1 DEF Good
    <3>2. \A n \in 1..Cardinality(D) : \E r \in D : InTurn(D)[n] = r.key
      BY <3>1, InTurnFacts
    <3>3. \A r \in D : \E n \in 1..Cardinality(D) : InTurn(D)[n] = r.key
      BY <3>1, InTurnFacts
    <3>4. \A r, s \in D, m, n \in 1..Cardinality(D) :
            InTurn(D)[m] = r.key /\ InTurn(D)[n] = s.key /\ Before(r, s) => m < n
      BY <3>1, InTurnFacts
    <3> QED
      BY <2>4, <3>2, <3>3, <3>4
  <2> HIDE DEF doomed, D
  <2>6. ASSUME NEW n \in 1..Len(doomed), NEW r \in F, r.key = doomed[n]
        PROVE  /\ r \notin M!Fits(F)
               /\ \A s \in F : M!Older(s, r) => \E j \in 1..(n - 1) : doomed[j] = s.key
    <3>1. PICK q \in D : doomed[n] = q.key
      BY <2>5
    <3>2. q = r
      BY <1>5, <2>1, <2>6, <3>1 DEF M!Keyed, F
    <3>3. r \in D /\ r \notin M!Fits(F)
      BY <2>1, <2>6, <3>1, <3>2 DEF D
    <3>4. ASSUME NEW s \in F, M!Older(s, r) PROVE \E j \in 1..(n - 1) : doomed[j] = s.key
      <4>1. s \notin M!Fits(F)
        BY <2>2, <2>6, <3>3, <3>4, FitsFacts, Order
      <4>2. s \in D
        BY <2>1, <4>1 DEF D
      <4>3. PICK j \in 1..Len(doomed) : doomed[j] = s.key
        BY <2>5, <4>2
      <4>4. Before(s, r)
        BY <2>3, <2>6, <3>4 DEF Before
      <4>5. j < n
        BY <2>5, <2>6, <3>3, <4>2, <4>3, <4>4
      <4>6. j \in 1..(n - 1)
        BY <2>4, <4>5
      <4> QED
        BY <4>3, <4>6
    <3> QED
      BY <3>3, <3>4
  <2>7. Goes(doomed, F)
    BY <2>6 DEF Goes
  <2>8. calls[c] \in Call /\ Becomes(c, Doom(calls[c], doomed)) /\ UNCHANGED <<bucket, memory, now, raced>>
    BY <1>1, <1>10, BucketGood DEF ListForPolicy, doomed, D
  <2>9. Doom(calls[c], doomed) \in Call /\ Doom(calls[c], doomed).doomed = doomed
    BY <2>4, <2>8, DoomFacts
  <2> QED
    BY <1>1, <1>2, <1>3, <2>7, <2>8, <2>9 DEF F
<1>11. ASSUME NEW c \in Callers, NEW r \in bucket, Get(c, r) PROVE AgreeInv'
  <2>1. /\ Becomes(c, Doom([Idle EXCEPT !.op = "get"], <<r.key>>)) /\ UNCHANGED <<bucket, now, raced>>
        /\ M!Expired(r) /\ memory' = {s \in memory : s.key # r.key \/ ~M!Expired(s)}
    BY <1>11 DEF Get, M!Get
  <2>2. M!Fresh(memory)' = M!Fresh(memory)
    BY <2>1 DEF M!Fresh, M!Expired
  <2>3. \A s \in M!Fresh(bucket) : s.key # r.key
    BY <1>5, <2>1 DEF M!Fresh, M!Keyed
  <2>4. Goes(<<r.key>>, M!Fresh(bucket))
    BY <2>3 DEF Goes
  <2>5. <<r.key>> \in Seq(Keys) /\ [Idle EXCEPT !.op = "get"] \in Call
    <3>1. \A q \in Call : [q EXCEPT !.op = "get"] \in Call
      BY DEF Call
    <3> QED
      BY <1>5, <3>1, IdleFacts DEF M!Records
  <2>6. Doom([Idle EXCEPT !.op = "get"], <<r.key>>).doomed = <<r.key>>
    BY <2>5, DoomFacts
  <2> QED
    BY <1>1, <1>3, <1>4, <2>1, <2>2, <2>4, <2>6
<1>12. ASSUME NEW c \in Callers, NEW r \in bucket, RemoveRecord(c, r) PROVE AgreeInv'
  <2>1. /\ Becomes(c, Doom([Idle EXCEPT !.op = "remove"], <<r.key>>)) /\ UNCHANGED <<bucket, memory, now, raced>>
    BY <1>12 DEF RemoveRecord
  <2>2. <<r.key>> \in Seq(Keys) /\ <<r.key>> # << >> /\ [Idle EXCEPT !.op = "remove"] \in Call
        /\ [Idle EXCEPT !.op = "remove"].op = "remove"
    <3>1. \A q \in Call : [q EXCEPT !.op = "remove"] \in Call /\ [q EXCEPT !.op = "remove"].op = "remove"
      BY DEF Call
    <3> QED
      BY <1>5, <3>1, IdleFacts DEF M!Records
  <2>3. Doom([Idle EXCEPT !.op = "remove"], <<r.key>>).op = "remove"
    BY <2>2, DoomFacts
  <2> QED
    BY <1>1, <1>2, <1>3, <1>4, <2>1, <2>3
<1>13. ASSUME NEW c \in Everyone, Fail(c) PROVE AgreeInv'
  <2>1. Becomes(c, Idle) /\ now' = now
    BY <1>13 DEF Fail
  <2>2. CASE calls[c].step = "write" /\ Written(c)
    BY <1>7, <2>1, <2>2, IdleFacts
  <2>3. CASE UNCHANGED <<bucket, memory, raced>>
    BY <1>2, <1>3, <2>1, <2>3, IdleFacts
  <2> QED
    BY <1>13, <2>2, <2>3 DEF Fail
<1>14. ASSUME List PROVE AgreeInv'
  <2> DEFINE doomed == InTurn(ExpiredRecords)
  <2>1. /\ Becomes(Reader, Doom([Idle EXCEPT !.op = "list"], doomed)) /\ UNCHANGED <<bucket, now, raced>>
        /\ memory' = M!Fresh(memory)
    BY <1>14 DEF List, M!List
  <2>2. M!Fresh(memory)' = M!Fresh(memory)
    BY <2>1 DEF M!Fresh, M!Expired
  <2>3. doomed \in Seq(Keys) /\ \A n \in 1..Len(doomed) : \E r \in ExpiredRecords : doomed[n] = r.key
    <3>1. doomed \in Seq(Keys) /\ Len(doomed) = Cardinality(ExpiredRecords)
      BY <1>5, <1>9
    <3>3. /\ IsFiniteSet(ExpiredRecords) /\ ExpiredRecords \subseteq M!Records(Keys, Sizes)
          /\ M!Keyed(ExpiredRecords) /\ now \in Nat
      BY <1>5, <1>9 DEF Good
    <3>2. \A n \in 1..Cardinality(ExpiredRecords) : \E r \in ExpiredRecords : doomed[n] = r.key
      BY <3>3, InTurnFacts
    <3> QED
      BY <3>1, <3>2
  <2> HIDE DEF doomed
  <2>4. \A r \in ExpiredRecords, s \in M!Fresh(bucket) : s.key # r.key
    BY <1>5 DEF ExpiredRecords, M!Keyed
  <2>5. Goes(doomed, M!Fresh(bucket))
    <3>1. \A n \in 1..Len(doomed), s \in M!Fresh(bucket) : s.key # doomed[n]
      BY <2>3, <2>4
    <3> QED
      BY <3>1 DEF Goes
  <2>6. [Idle EXCEPT !.op = "list"] \in Call
    <3>1. \A q \in Call : [q EXCEPT !.op = "list"] \in Call
      BY DEF Call
    <3> QED
      BY <3>1, IdleFacts
  <2>7. Doom([Idle EXCEPT !.op = "list"], doomed).doomed = doomed
    BY <2>3, <2>6, DoomFacts
  <2> QED
    BY <1>1, <1>3, <1>4, <2>1, <2>2, <2>5, <2>7
<1>15. ASSUME UNCHANGED <<bucket, memory, calls, now, raced>> PROVE AgreeInv'
  BY <1>2, <1>15, AgreeKept
<1>16. ASSUME NEW c \in Everyone, Delete(c) PROVE AgreeInv'
  BY <1>16, DeleteAgrees
<1>17. ASSUME Tick PROVE AgreeInv'
  BY <1>17, TickAgrees
<1> QED
  BY <1>6, <1>8, <1>10, <1>11, <1>12, <1>13, <1>14, <1>15, <1>16, <1>17 DEF StoreNext, Page, storeVars

LEMMA AgreeInit == ASSUME R2Assumption, StoreInit PROVE FitInv /\ AgreeInv
<1>1. bucket = {} /\ memory = {} /\ \A d \in Everyone : calls[d].doomed = << >>
  BY DEF StoreInit, Idle
<1>2. Within({})
  BY WithinNothing
<1>3. {r \in bucket : r.key \notin Lost} = {} /\ M!Fresh(bucket) = {} /\ M!Fresh(memory) = {}
  BY <1>1 DEF M!Fresh
<1>4. M!Fits({}) = {}
  BY FitsIs
<1>5. FitInv
  BY <1>2, <1>3 DEF FitInv
<1>6. AgreeInv
  BY <1>1, <1>3, <1>4, GoesNowhere DEF AgreeInv, Kept
<1> QED
  BY <1>5, <1>6

LEMMA Agreed == ASSUME R2Assumption, TypeInv, FitInv, AgreeInv PROVE QuietStoresAgree
<1> SUFFICES ASSUME Quiet, ~behind
             PROVE  /\ MaxBytes # 0 => M!Total(bucket) <= MaxBytes
                    /\ ~raced => M!Fresh(bucket) = M!Fresh(memory)
  BY DEF QuietStoresAgree, FitsWhenQuiet, SameRecords
<1>1. Lost = {}
  BY BucketGood DEF Quiet, Lost
<1>2. {r \in bucket : r.key \notin Lost} = bucket
  BY <1>1
<1>3. Within(bucket)
  BY <1>2 DEF FitInv, Quiet
<1>4. M!Fresh(bucket) \in SUBSET bucket
  BY DEF M!Fresh
<1>5. M!Fits(M!Fresh(bucket)) = M!Fresh(bucket)
  BY <1>3, <1>4, BucketGood, GoodPart, TotalMonotone, FitsFacts
<1>6. ~raced => M!Fresh(bucket) = M!Fresh(memory)
  BY <1>5 DEF AgreeInv, Kept
<1> QED
  BY <1>3, <1>6 DEF Within

\* When the calls are over the bucket is within its limit and has the records
\* that the store in memory has (cache_store.ts 246-287 and 447-482,
\* cache_store_contract_test.ts 249-260).
THEOREM StoresAgree == StoreSpec => []QuietStoresAgree
<1>1. StoreInit => TypeInv /\ FitInv /\ AgreeInv
  BY R2Assumption, TypeInit, AgreeInit
<1>2. TypeInv /\ FitInv /\ AgreeInv /\ [StoreNext]_storeVars => (TypeInv /\ FitInv /\ AgreeInv)'
  BY R2Assumption, TypeStep, FitStep, AgreeStep
<1>3. TypeInv /\ FitInv /\ AgreeInv => QuietStoresAgree
  BY R2Assumption, Agreed
<1> QED
  BY <1>1, <1>2, <1>3, PTL DEF StoreSpec
=============================================================================
