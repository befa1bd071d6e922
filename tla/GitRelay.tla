------------------------------ MODULE GitRelay ------------------------------
(***************************************************************************)
(* What a git serve session promises to the git clients that talk to a    *)
(* serving daemon through it, whatever the queue, the long polls and the   *)
(* timers inside do:                                                       *)
(*   - a client's request is answered at most once;                        *)
(*   - an answer that comes from the daemon was given to a request the     *)
(*     daemon had seen;                                                    *)
(*   - a pushed ref is announced at most once, and only for a request the  *)
(*     daemon had seen.                                                    *)
(* GitServeSession implements this specification.                          *)
(***************************************************************************)
CONSTANTS
  Requests       \* the git HTTP requests clients make

VARIABLES
  outcome,       \* outcome[r]: what the client of request r knows of it
  forwarded,     \* the requests the daemon has received
  announced      \* the requests whose pushed refs were announced

relayVars == <<outcome, forwarded, announced>>

Verdicts == {"ok", "denied"}                 \* answers of the daemon
Failures == {"refused", "closed", "timeout", "lost"}

RelayInit ==
  /\ outcome = [r \in Requests |-> "new"]
  /\ forwarded = {}
  /\ announced = {}

\* The session is not active: the request is turned away.
Refuse(r) ==
  /\ outcome[r] = "new"
  /\ outcome' = [outcome EXCEPT ![r] = "refused"]
  /\ UNCHANGED <<forwarded, announced>>

\* The session takes the request, and may hand it at once to a daemon that
\* waits, with every other request it holds.
Accept(r, S) ==
  /\ outcome[r] = "new"
  /\ outcome' = [outcome EXCEPT ![r] = "accepted"]
  /\ forwarded' = forwarded \cup S
  /\ UNCHANGED announced

\* The daemon receives requests that were accepted and not yet answered.
Forward(S) ==
  /\ \A r \in S : outcome[r] = "accepted"
  /\ forwarded' = forwarded \cup S
  /\ UNCHANGED <<outcome, announced>>

\* The daemon's verdict reaches the client.
Answer(r, verdict) ==
  /\ outcome[r] = "accepted"
  /\ r \in forwarded
  /\ outcome' = [outcome EXCEPT ![r] = verdict]
  /\ announced' \in {announced, announced \cup {r}}
  /\ r \in announced' => verdict = "ok"
  /\ UNCHANGED forwarded

\* The daemon's verdict breaks on its way to the client, who keeps waiting;
\* its refs may already have been announced.
Strand(r) ==
  /\ outcome[r] = "accepted"
  /\ r \in forwarded
  /\ r \notin announced
  /\ announced' = announced \cup {r}
  /\ UNCHANGED <<outcome, forwarded>>

\* The relay gives up on requests it holds, all with the same failure.
GiveUp(S, failure) ==
  /\ S # {}
  /\ \A r \in S : outcome[r] = "accepted"
  /\ outcome' = [r \in Requests |-> IF r \in S THEN failure ELSE outcome[r]]
  /\ UNCHANGED <<forwarded, announced>>

RelayNext ==
  \/ \E r \in Requests : Refuse(r) \/ Strand(r)
  \/ \E r \in Requests, S \in SUBSET Requests :
       /\ \A q \in S : q = r \/ outcome[q] = "accepted"
       /\ Accept(r, S)
  \/ \E S \in SUBSET Requests : Forward(S)
  \/ \E r \in Requests, v \in Verdicts : Answer(r, v)
  \/ \E S \in SUBSET Requests, f \in Failures \ {"refused"} : GiveUp(S, f)

RelaySpec == RelayInit /\ [][RelayNext]_relayVars
=============================================================================
