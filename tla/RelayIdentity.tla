---------------------------- MODULE RelayIdentity ----------------------------
(***************************************************************************)
(* What a relay knows of one sender: the public key it registered on first *)
(* use, whether GitHub lists that key, and the nonces of the requests it   *)
(* accepted (memory_handler.ts).  Signed publishes and reviews, rotations  *)
(* and GitHub verifications of the sender interleave at the awaits of      *)
(* their signature checks and fetches.  In a RelayRoom Durable Object      *)
(* (cloudflare_worker.ts) the identity is put into storage after each of   *)
(* these calls.  Senders do not share state, and every request is properly *)
(* signed with its key: a bad signature is a 401 that changes nothing.     *)
(***************************************************************************)
EXTENDS Integers, FiniteSets, SequencesExt

CONSTANTS
  Keys,           \* public keys
  NoKey,          \* the sender is not registered
  Nonces,         \* nonces of requests
  Requests,       \* signed requests; each may be sent again and again
  Calls,          \* HTTP calls that can be under way at once
  MaxClockSkew,   \* maxClockSkewSec
  NonceTtl,       \* nonceTtlSec
  MaxNonces,      \* maxNoncesPerSender
  HasStorage,     \* Durable Object or Deno process
  MaxTime         \* bound on the clock

\* A rotation is signed with key and with newKey, the others with key only.
SignedRequests ==
  [op : {"publish", "review", "rotate"}, key : Keys, newKey : Keys,
   nonce : Nonces, ts : 0..MaxTime]

ASSUME IdentityAssumption ==
  /\ NoKey \notin Keys
  /\ Requests \subseteq SignedRequests
  /\ MaxClockSkew \in Nat /\ NonceTtl \in Nat /\ MaxTime \in Nat
  /\ MaxNonces \in Nat \ {0}
  /\ HasStorage \in BOOLEAN

VARIABLES
  now,            \* nowEpochSec()
  key,            \* keyRegistry.get(sender).publicKey
  verified,       \* githubVerifiedAt # null
  version,        \* how often key has changed since the registry was empty
  remembered,     \* noncesBySender.get(sender), in insertion order
  stored,         \* the identity in the Durable Object's storage
  call,           \* call[c]: where call c stands
  accepted,       \* requests that were accepted
  held,           \* keys the sender has been registered with
  attested,       \* keys some fetch from GitHub listed
  forgotten,      \* nonces lost other than by their TTL
  durable,        \* requests answered after their identity was stored
  ackedVersion    \* version of the newest key change answered that way

clockVars    == <<now>>
registryVars == <<key, verified, version, remembered>>
historyVars  == <<accepted, held, attested, forgotten, durable, ackedVersion>>
vars == <<clockVars, registryVars, stored, call, historyVars>>

Entries == [nonce : Nonces, ts : 0..MaxTime]
Snapshots == [key : Keys \cup {NoKey}, verified : BOOLEAN, version : Nat,
              remembered : Seq(Entries)]
EmptySnapshot ==
  [key |-> NoKey, verified |-> FALSE, version |-> 0, remembered |-> << >>]

Idle == [phase |-> "idle"]
\* An awaiting call keeps what its handler read before the await: the key and
\* the clock.  replayed says whether its request had been accepted before.
Verifying ==
  [phase : {"verifying"}, request : Requests, seen : Keys \cup {NoKey},
   at : 0..MaxTime, replayed : BOOLEAN]
Fetching == [phase : {"fetching"}, seen : Keys]
\* A call whose response is ready keeps, for the properties only, what it
\* accepted, whether that had been accepted before, and the key's version.
Persisting ==
  [phase : {"persisting"}, accepted : SUBSET Requests, again : BOOLEAN, version : Nat]

NoncesOf(map) == {map[i].nonce : i \in DOMAIN map}

TypeOK ==
  /\ now \in 0..MaxTime
  /\ key \in Keys \cup {NoKey} /\ verified \in BOOLEAN /\ version \in Nat
  /\ remembered \in Seq(Entries)
  /\ Len(remembered) <= MaxNonces
  /\ \A i, j \in DOMAIN remembered : remembered[i].nonce = remembered[j].nonce => i = j
  /\ stored \in Snapshots
  /\ call \in [Calls -> {Idle} \cup Verifying \cup Fetching \cup Persisting]
  /\ accepted \subseteq Requests
  /\ held \subseteq Keys /\ attested \subseteq Keys
  /\ forgotten \subseteq Nonces /\ durable \subseteq Requests
  /\ ackedVersion \in Nat

Init ==
  /\ now = 0
  /\ key = NoKey /\ verified = FALSE /\ version = 0 /\ remembered = << >>
  /\ stored = EmptySnapshot
  /\ call = [c \in Calls |-> Idle]
  /\ accepted = {}
  /\ held = {} /\ attested = {} /\ forgotten = {}
  /\ durable = {} /\ ackedVersion = 0

-----------------------------------------------------------------------------
(* Nonces *)

\* Is an entry past its TTL at time t?
ExpiredAtLimit(e, t) == t - e.ts >= NonceTtl   \* mutant: one second early
Expired(e, t) == t - e.ts > NonceTtl

Untrimmed(map) == map               \* mutant: the limit is not enforced
\* The longest tail that fits the limit: the oldest insertions go first.
Newest(map) ==
  IF Len(map) > MaxNonces THEN SubSeq(map, Len(map) - MaxNonces + 1, Len(map)) ELSE map

\* The entries at the places in P, in their order.
At(map, P) ==
  [n \in 1..Cardinality(P) |-> map[CHOOSE i \in P : Cardinality({j \in P : j <= i}) = n]]

\* The entries whose TTL has not passed at time t.
Live(map, t) == At(map, {i \in DOMAIN map : ~Expired(map[i], t)})

\* pruneSenderNonces
Prune(map, t) == Newest(Live(map, t))

\* Setting a key a Map has keeps its place.
SetNonce(map, nonce, ts) ==
  IF nonce \in NoncesOf(map)
  THEN [i \in DOMAIN map |-> IF map[i].nonce = nonce THEN [map[i] EXCEPT !.ts = ts] ELSE map[i]]
  ELSE Append(map, [nonce |-> nonce, ts |-> ts])

\* rememberNonce with the clock the handler read at its start.
Remember(q, t) ==
  LET before == Live(remembered, t)
      overwritten == {e.nonce : e \in {x \in ToSet(before) : x.nonce = q.nonce /\ x.ts > q.ts}}
  IN /\ remembered' = Newest(SetNonce(Prune(remembered, t), q.nonce, q.ts))
     /\ forgotten' = forgotten \cup overwritten \cup
                       (NoncesOf(before) \ NoncesOf(remembered'))

-----------------------------------------------------------------------------
(* The end of a call *)

\* The handler has produced its response; a Durable Object stores the
\* identity before it is sent.
Reply(c, requests, v) ==
  call' = [call EXCEPT ![c] =
             IF HasStorage
             THEN [phase |-> "persisting", accepted |-> requests,
                   again |-> requests \cap accepted # {}, version |-> v]
             ELSE Idle]

\* identitySnapshot
NoncesOnly ==                       \* mutant: the keys are left out
  [EmptySnapshot EXCEPT !.remembered = remembered]
Snapshot ==
  [key |-> key, verified |-> verified, version |-> version, remembered |-> remembered]

\* The identity is put into storage as it is by now and the response is sent.
\* A put that fails is logged and the response is sent all the same.
Persist(c) ==
  /\ call[c].phase = "persisting"
  /\ call' = [call EXCEPT ![c] = Idle]
  /\ \/ /\ stored' = Snapshot
        /\ durable' = durable \cup call[c].accepted
        /\ ackedVersion' = IF call[c].version > ackedVersion THEN call[c].version
                           ELSE ackedVersion
     \/ UNCHANGED <<stored, durable, ackedVersion>>
  /\ UNCHANGED <<clockVars, registryVars, accepted, held, attested, forgotten>>

-----------------------------------------------------------------------------
(* Publish, review and rotate *)

\* Up to the first await: clock skew, replayed nonce and, for a rotation, a
\* registered key.
Begin(c, q) ==
  /\ call[c] = Idle
  /\ LET stale == now - q.ts > MaxClockSkew \/ q.ts - now > MaxClockSkew
         pruned == Prune(remembered, now)
         replay == q.nonce \in NoncesOf(pruned)
     IN /\ remembered' = IF stale THEN remembered ELSE pruned
        /\ IF stale \/ replay \/ (q.op = "rotate" /\ key = NoKey)
           THEN Reply(c, {}, 0)
           ELSE call' = [call EXCEPT ![c] =
                           [phase |-> "verifying", request |-> q, seen |-> key,
                            at |-> now, replayed |-> q \in accepted]]
  /\ UNCHANGED <<clockVars, key, verified, version, stored, historyVars>>

\* handleSignatureVerification and the review handler after the signature
\* was verified: ensureTofuKey, rememberNonce.
FinishSigned(c) ==
  LET q == call[c].request IN
  /\ call[c].phase = "verifying"
  /\ q.op \in {"publish", "review"}
  /\ \/ /\ key \notin {NoKey, q.key}                     \* sender key mismatch
        /\ Reply(c, {}, 0)
        /\ UNCHANGED <<registryVars, historyVars>>
     \/ /\ key \in {NoKey, q.key}
        /\ key' = q.key
        /\ verified' = (key # NoKey /\ verified)
        /\ version' = IF key = NoKey THEN version + 1 ELSE version
        /\ held' = held \cup {q.key}
        /\ Remember(q, call[c].at)
        /\ accepted' = accepted \cup {q}
        /\ Reply(c, {q}, version')
        /\ UNCHANGED <<attested, durable, ackedVersion>>
  /\ UNCHANGED <<clockVars, stored>>

\* Was the old signature made with the key the handler read before it
\* verified?
SignedByOldKey(c) == call[c].request.key = call[c].seen

\* What a rotation leaves of the GitHub verification.
ResetVerification == FALSE

\* handleKeyRotate after both signatures were verified.
FinishRotate(c) ==
  LET q == call[c].request IN
  /\ call[c].phase = "verifying"
  /\ q.op = "rotate"
  /\ \/ /\ ~SignedByOldKey(c)                            \* invalid old signature
        /\ Reply(c, {}, 0)
        /\ UNCHANGED <<registryVars, historyVars>>
     \/ /\ SignedByOldKey(c)
        /\ key' = q.newKey
        /\ verified' = ResetVerification
        /\ version' = version + 1
        /\ held' = held \cup {q.newKey}
        /\ Remember(q, call[c].at)
        /\ accepted' = accepted \cup {q}
        /\ Reply(c, {q}, version')
        /\ UNCHANGED <<attested, durable, ackedVersion>>
  /\ UNCHANGED <<clockVars, stored>>

-----------------------------------------------------------------------------
(* Verification with GitHub *)

\* handleKeyVerifyGitHub up to the fetch; without a key it is a 404.
BeginVerify(c) ==
  /\ call[c] = Idle
  /\ \/ key = NoKey /\ Reply(c, {}, 0)
     \/ /\ key # NoKey
        /\ call' = [call EXCEPT ![c] = [phase |-> "fetching", seen |-> key]]
  /\ UNCHANGED <<clockVars, registryVars, stored, historyVars>>

\* The key compared with GitHub's answer is the one registered by then.
KeyBeforeFetch(c) == call[c].seen   \* mutant: the key read before the fetch
KeyToMatch(c) == key

\* GitHub's answer arrives, with the keys it lists; none for a failed fetch.
FinishVerify(c, listed) ==
  /\ call[c].phase = "fetching"
  /\ verified' = (verified \/ KeyToMatch(c) \in listed)
  /\ attested' = attested \cup listed
  /\ Reply(c, {}, 0)
  /\ UNCHANGED <<clockVars, key, version, remembered, stored>>
  /\ UNCHANGED <<accepted, held, forgotten, durable, ackedVersion>>

-----------------------------------------------------------------------------
\* Calls under way are cut off.  restoreIdentity drops the nonces whose TTL
\* has passed; without storage the registry starts empty.
Restart ==
  /\ key' = stored.key /\ verified' = stored.verified /\ version' = stored.version
  /\ remembered' = Live(stored.remembered, now)
  /\ call' = [c \in Calls |-> Idle]
  /\ forgotten' = forgotten \cup
       {e.nonce : e \in {x \in ToSet(remembered) :
                           \A s \in ToSet(stored.remembered) : s.nonce = x.nonce => s.ts < x.ts}}
  /\ UNCHANGED <<clockVars, stored, accepted, held>>
  /\ UNCHANGED <<attested, durable, ackedVersion>>

Tick ==
  /\ now < MaxTime
  /\ now' = now + 1
  /\ UNCHANGED <<registryVars, stored, call, historyVars>>

Next ==
  \/ Tick \/ Restart
  \/ \E c \in Calls, q \in Requests : Begin(c, q)
  \/ \E c \in Calls : FinishSigned(c) \/ FinishRotate(c) \/ BeginVerify(c) \/ Persist(c)
  \/ \E c \in Calls, listed \in SUBSET Keys : FinishVerify(c, listed)

Spec == Init /\ [][Next]_vars

-----------------------------------------------------------------------------
(* Safety *)

\* A request that was accepted before gets past the nonce check only if its
\* nonce was dropped for want of room, overwritten or lost in a crash: as
\* long as the TTL covers the clock skew, pruning never lets a replay through.
ReplayOnlyIfForgotten ==
  NonceTtl >= MaxClockSkew =>
    \A c \in Calls :
      call[c].phase = "verifying" /\ call[c].replayed => call[c].request.nonce \in forgotten

\* What was answered after a successful put survives a crash: the nonce, up to
\* its TTL, the key change, and so the key that was registered on first use
\* (cloudflare_worker.ts:539 puts the identity before the answer goes out).
AckedIdentityIsKept ==
  /\ [](/\ ackedVersion <= stored.version
        /\ \A q \in durable :
             q.nonce \in NoncesOf(stored.remembered) \cup forgotten \/ Expired(q, now))
  /\ [][ackedVersion > 0 => key' # NoKey \/ key = NoKey]_vars

\* A registered key gives way only to one that a key of the same sender has
\* signed for, or to the stored one after a crash.
RotationsAreAuthorised ==
  [][key # NoKey /\ key' # key =>
       \/ key' = stored.key
       \/ \E q \in Requests : q.op = "rotate" /\ q.newKey = key' /\ q.key \in held]_vars

\* Whatever calls overlap, the registered key is vouched for by a key the
\* sender held, and its GitHub mark by GitHub: no fetch that was under way
\* during a rotation marks a key GitHub did not list (lines 1796 and 1859).
KeysAreVouchedFor == [](verified => key \in attested) /\ RotationsAreAuthorised

(* Claims of the documentation *)

\* README.md, Signing / TOFU: a nonce cannot be used again; a second use is
\* answered with 409 replayed nonce.
NonceUsedOnce == \A c \in Calls : call[c].phase = "persisting" => ~call[c].again
=============================================================================
