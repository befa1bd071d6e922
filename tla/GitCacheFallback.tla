-------------------------- MODULE GitCacheFallback --------------------------
(***************************************************************************)
(* Git requests through the cache of the Deno relay (deno_main.ts,         *)
(* git_cache_layer.ts).  Every request reads the cache first, is then sent *)
(* to the serve session if the relay has one, and its 200 answer is stored *)
(* before the client gets it; the copy that was read answers a client      *)
(* whose session is unknown, not active or closed.  The session is used    *)
(* through what it promises, GitRelay, which GitServeSession implements.   *)
(* One session is modelled: the keys of two sessions differ, except for    *)
(* names that '/' -> '__' makes equal.                                     *)
(***************************************************************************)
EXTENDS Integers, FiniteSets

CONSTANTS
  Requests,      \* the git HTTP requests clients make
  Questions,     \* what keys the cache: method, path, query and body
  Pushes,        \* the questions that are receive-pack POSTs
  NoQuestion,    \* what a request that was not made yet asks
  MaxVersion,    \* bound on the versions of the daemon's repository
  MaxFaults      \* bound on failing cache calls and evictions

ASSUME FallbackAssumption ==
  /\ MaxVersion \in Nat \ {0} /\ MaxFaults \in Nat
  /\ Pushes \subseteq Questions /\ NoQuestion \notin Questions

VARIABLES
  question,      \* question[r]: what request r asks
  outcome, forwarded, announced,  \* the session, as GitRelay describes it
  known,         \* is the session in gitServeSessions
  version,       \* version of the repository the daemon serves
  reply,         \* reply[r]: status and content the daemon gave to r
  copies,        \* copies[q]: the cached content, 0 is none
  stage,         \* stage[r]: where the handler of r is suspended
  held,          \* held[r]: the copy r read before it was forwarded
  answer,        \* answer[r]: what the client of r was given
  faults,        \* failing cache calls and evictions so far
  newest,        \* newest[q]: newest content a client was given by the daemon
  kept,          \* questions a client had a 200 for, with the copy not lost since
  relied,        \* requests that began when their question was kept
  unsteady       \* questions with overlapping requests or a failed write

sessionVars == <<outcome, forwarded, announced>>
historyVars == <<newest, kept, relied, unsteady>>
vars == <<question, sessionVars, known, version, reply, copies, stage, held, answer,
          faults, historyVars>>

INSTANCE GitRelay

ErrorBody == MaxVersion + 1
Contents == 0..ErrorBody    \* 0 is nothing, a version is what git says about it
Pending == [status |-> "none", content |-> 0]
Replies == [status : {"none", "ok", "notFound", "error"}, content : Contents]
Stages == {"new", "reading", "forwarded", "writing", "done"}

TypeOK ==
  /\ question \in [Requests -> Questions \cup {NoQuestion}]
  /\ outcome \in [Requests -> {"new", "accepted"} \cup Verdicts \cup Failures]
  /\ forwarded \subseteq Requests /\ announced \subseteq Requests
  /\ known \in BOOLEAN /\ version \in 1..MaxVersion
  /\ reply \in [Requests -> Replies]
  /\ copies \in [Questions -> Contents]
  /\ stage \in [Requests -> Stages]
  /\ held \in [Requests -> Contents]
  /\ answer \in [Requests -> Replies] /\ faults \in 0..MaxFaults
  /\ newest \in [Questions -> Contents]
  /\ kept \subseteq Questions /\ unsteady \subseteq Questions
  /\ relied \subseteq Requests

Init ==
  /\ question = [r \in Requests |-> NoQuestion]
  /\ RelayInit
  /\ known = FALSE /\ version = 1
  /\ reply = [r \in Requests |-> Pending]
  /\ copies = [q \in Questions |-> 0]
  /\ stage = [r \in Requests |-> "new"]
  /\ held = [r \in Requests |-> 0]
  /\ answer = [r \in Requests |-> Pending]
  /\ faults = 0
  /\ newest = [q \in Questions |-> 0]
  /\ kept = {} /\ relied = {} /\ unsteady = {}

-----------------------------------------------------------------------------
(* The handler of a request, from await to await *)

\* The requests for q whose clients wait for an answer.
InFlight(q) == {r \in Requests :
  question[r] = q /\ stage[r] \notin {"new", "done"} /\ answer[r] = Pending}

\* The request arrives; its body and the key are hashed and the cache is read.
BeginRequest(r, q) ==
  /\ stage[r] = "new"
  /\ question' = [question EXCEPT ![r] = q]
  /\ stage' = [stage EXCEPT ![r] = "reading"]
  /\ relied' = IF q \in kept THEN relied \cup {r} ELSE relied
  /\ unsteady' = IF InFlight(q) # {} THEN unsteady \cup {q} ELSE unsteady
  /\ UNCHANGED <<sessionVars, known, version, reply, copies, held, answer,
                 faults, newest, kept>>

Fault ==
  /\ faults < MaxFaults
  /\ faults' = faults + 1

Reply(status, content) == [status |-> status, content |-> content]

\* A mutant: a client is told nothing when there is no copy.
CopyOrNothing(content) ==
  IF content # 0 THEN Reply("ok", content) ELSE [status |-> "null", content |-> 0]

\* A client is answered from a copy, or told 404 or 410 when there is none.
CopyOrNotFound(content) ==
  IF content # 0 THEN Reply("ok", content) ELSE Reply("notFound", 0)

\* The read of the cache ends, with nothing when it throws.  Without a session
\* the copy is the answer; with one the request goes on to the session.
ReadCache(r) ==
  /\ stage[r] = "reading"
  /\ \/ /\ held' = [held EXCEPT ![r] = copies[question[r]]]
        /\ UNCHANGED <<faults, relied>>
     \/ /\ Fault
        /\ relied' = relied \ {r}
        /\ UNCHANGED held
  /\ \/ /\ known
        /\ stage' = [stage EXCEPT ![r] = "forwarded"]
        /\ UNCHANGED answer
     \/ /\ ~known
        /\ stage' = [stage EXCEPT ![r] = "done"]
        /\ answer' = [answer EXCEPT ![r] = CopyOrNotFound(held'[r])]
  /\ UNCHANGED <<question, sessionVars, known, version, reply, copies,
                 newest, kept, unsteady>>

\* A mutant: only the 404 of the session makes the relay fall back.
FailOverOn404Only(r) ==
  /\ stage[r] = "forwarded"
  /\ outcome[r] \in (Verdicts \cup Failures) \ {"ok"}
  /\ stage' = [stage EXCEPT ![r] = "done"]
  /\ answer' = [answer EXCEPT ![r] =
       IF outcome[r] = "refused" THEN CopyOrNotFound(held[r])
       ELSE IF outcome[r] = "closed" \/ reply[r].status = "notFound"
            THEN Reply("notFound", 0) ELSE Reply("error", 0)]
  /\ UNCHANGED <<question, sessionVars, known, version, reply, copies,
                 held, faults, historyVars>>

\* The session has answered with an error: a 404 or 410, of the session or of
\* the daemon, is replaced by the copy, any other status is passed on.
FailOver(r) ==
  /\ stage[r] = "forwarded"
  /\ outcome[r] \in (Verdicts \cup Failures) \ {"ok"}
  /\ stage' = [stage EXCEPT ![r] = "done"]
  /\ answer' = [answer EXCEPT ![r] =
       IF outcome[r] \in {"refused", "closed"} \/ reply[r].status = "notFound"
       THEN CopyOrNotFound(held[r])
       ELSE Reply("error", 0)]
  /\ UNCHANGED <<question, sessionVars, known, version, reply, copies,
                 held, faults, historyVars>>

\* A mutant: the answer is returned before its copy is stored.
BeginWriteInBackground(r) ==
  /\ stage[r] = "forwarded"
  /\ outcome[r] = "ok"
  /\ stage' = [stage EXCEPT ![r] = "writing"]
  /\ answer' = [answer EXCEPT ![r] = reply[r]]
  /\ newest' = [newest EXCEPT ![question[r]] =
       IF reply[r].content > @ THEN reply[r].content ELSE @]
  /\ UNCHANGED <<question, sessionVars, known, version, reply, copies, held, faults,
                 kept, relied, unsteady>>

\* The session has answered 200: the body is cloned and hashed.
BeginWrite(r) ==
  /\ stage[r] = "forwarded"
  /\ outcome[r] = "ok"
  /\ stage' = [stage EXCEPT ![r] = "writing"]
  /\ UNCHANGED <<question, sessionVars, known, version, reply, copies, held, answer,
                 faults, historyVars>>

\* The copy is stored, or the store throws and the error is swallowed; the
\* client then gets the answer.
WriteCache(r) ==
  LET q == question[r]  content == reply[r].content IN
  /\ stage[r] = "writing"
  /\ \/ /\ copies' = [copies EXCEPT ![q] = content]
        /\ kept' = kept \cup {q}
        /\ UNCHANGED <<faults, unsteady>>
     \/ /\ Fault
        /\ unsteady' = unsteady \cup {q}
        /\ UNCHANGED <<copies, kept>>
  /\ stage' = [stage EXCEPT ![r] = "done"]
  /\ answer' = [answer EXCEPT ![r] = reply[r]]
  /\ newest' = [newest EXCEPT ![q] = IF content > @ THEN content ELSE @]
  /\ UNCHANGED <<question, sessionVars, known, version, reply, held, relied>>

-----------------------------------------------------------------------------
(* The store, the session, the daemon and the process *)

\* The copy expires or makes room for another.
Evict(q) ==
  /\ copies[q] # 0
  /\ Fault
  /\ copies' = [copies EXCEPT ![q] = 0]
  /\ kept' = kept \ {q}
  /\ relied' = {r \in relied : question[r] # q}
  /\ UNCHANGED <<question, sessionVars, known, version, reply, stage,
                 held, answer, newest, unsteady>>

\* A daemon registers; the session stays in the map for good.
Register ==
  /\ ~known
  /\ known' = TRUE
  /\ UNCHANGED <<question, sessionVars, version, reply, copies, stage, held, answer,
                 faults, historyVars>>

\* Someone commits to the repository behind the daemon.
Commit ==
  /\ version < MaxVersion
  /\ version' = version + 1
  /\ UNCHANGED <<question, sessionVars, known, reply, copies, stage, held, answer,
                 faults, historyVars>>

\* The daemon runs git for a request it received: a push makes a new version,
\* and its answer is about that one.
Serve(r) ==
  /\ r \in forwarded
  /\ reply[r] = Pending
  /\ \/ /\ question[r] \notin Pushes
        /\ reply' = [reply EXCEPT ![r] = Reply("ok", version)]
        /\ UNCHANGED version
     \/ /\ question[r] \in Pushes /\ version < MaxVersion
        /\ version' = version + 1
        /\ reply' = [reply EXCEPT ![r] = Reply("ok", version')]
     \/ /\ \E status \in {"notFound", "error"} :
             reply' = [reply EXCEPT ![r] = Reply(status, ErrorBody)]
        /\ UNCHANGED version
  /\ UNCHANGED <<question, sessionVars, known, copies, stage, held,
                 answer, faults, historyVars>>

\* What the session may do with the requests it was given.
SessionStep(r) ==
  /\ stage[r] = "forwarded"
  /\ announced' = announced
  /\ \/ Refuse(r)
     \/ Accept(r, {})
     \/ r \notin forwarded /\ Forward({r})
     \/ reply[r].status = "ok" /\ Answer(r, "ok")
     \/ reply[r].status \in {"notFound", "error"} /\ Answer(r, "denied")
     \/ \E failure \in {"closed", "timeout"} : GiveUp({r}, failure)
  /\ UNCHANGED <<question, known, version, reply, copies, stage,
                 held, answer, faults, historyVars>>

\* The process stops and starts again: sessions, copies and requests are gone.
Restart ==
  LET gone == {r \in Requests : outcome[r] = "accepted"} IN
  /\ Fault
  /\ known' = FALSE
  /\ copies' = [q \in Questions |-> 0]
  /\ IF gone = {} THEN UNCHANGED sessionVars ELSE GiveUp(gone, "lost")
  /\ stage' = [r \in Requests |-> IF stage[r] = "new" THEN "new" ELSE "done"]
  /\ kept' = {} /\ relied' = {}
  /\ UNCHANGED <<question, version, reply, held, answer, newest, unsteady>>

Next ==
  \/ \E r \in Requests :
       ReadCache(r) \/ FailOver(r) \/ BeginWrite(r)
         \/ WriteCache(r) \/ Serve(r) \/ SessionStep(r)
  \/ \E r \in Requests, q \in Questions : BeginRequest(r, q)
  \/ \E q \in Questions : Evict(q)
  \/ Register \/ Commit \/ Restart

Spec == Init /\ [][Next]_vars

-----------------------------------------------------------------------------
(* Properties *)

\* Whatever a client is given with status 200 was given by the daemon with
\* status 200 to the same question; a cached error never turns into a 200
\* (writeGitCache keeps only 200 answers, readGitCache answers 200).
EveryOkWasServed ==
  \A r \in Requests : answer[r].status = "ok" =>
    \E s \in Requests : question[s] = question[r] /\ reply[s] = answer[r]

\* A git request is never answered 404 or 410 when a client was given a 200
\* for the same question before it began and the copy was not evicted, read
\* in vain or lost with the process since: the 200 is stored before it is
\* returned, and every request reads the cache before it is forwarded
\* (deno_main.ts:380-417).
KeptCopyAnswers ==
  \A r \in relied : answer[r].status # "notFound"

\* The fallback answers when it can, and only with what the daemon once said.
FallbackIsSound == EveryOkWasServed /\ KeptCopyAnswers

\* As long as the requests for a question do not overlap and no write of the
\* cache fails, no client is given content older than what a client before it
\* was given, be it from the daemon or from the cache.  (Overlapping requests
\* may store their answers in the other order: the hash of the body is
\* awaited before the put.)
SteadyNeverOlder ==
  [][\A r \in Requests :
       /\ answer[r] = Pending /\ answer'[r].status = "ok"
       /\ question[r] \notin unsteady
       => answer'[r].content >= newest[question[r]]]_vars
=============================================================================
