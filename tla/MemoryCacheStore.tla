-------------------------- MODULE MemoryCacheStore --------------------------
(***************************************************************************)
(* The cache store in memory (createMemoryCacheStore of cache_store.ts):   *)
(* each operation is one step.  The tests hold every other store to what   *)
(* this one does (tests/cache_store_contract_test.ts 249-260).             *)
(***************************************************************************)
EXTENDS Integers, FiniteSets

CONSTANTS
  Ttl,      \* ttlSec, 0 if there is none
  MaxBytes  \* maxBytes, 0 if there is none

VARIABLES
  records,  \* [key, at, size]: at is updatedAt, keys are in their order
  now       \* nowEpochSec()

Records(keys, sizes) == [key : keys, at : Nat, size : sizes]
Keyed(R) == \A r, s \in R : r.key = s.key => r = s

-----------------------------------------------------------------------------
(* The policy *)

\* isExpiredByPolicy
Expired(r) == Ttl # 0 /\ now - r.at >= Ttl
Fresh(R) == {r \in R : ~Expired(r)}

\* sortEvictionCandidates
Older(r, s) == r.at < s.at \/ (r.at = s.at /\ r.key < s.key)
\* The number of bytes of R.
Total(R) == Cardinality(UNION {{r} \X (1..r.size) : r \in R})

\* enforceMaxBytesLimit: the oldest go until the rest fits.
Fits(R) ==
  {r \in R : MaxBytes = 0 \/ Total({s \in R : ~Older(s, r)}) <= MaxBytes}

-----------------------------------------------------------------------------
(* The operations *)

Without(R, key) == {r \in R : r.key # key}

Put(r) == records' = Fits(Without(Fresh(records), r.key) \cup {r})
Get(key) == records' = {r \in records : r.key # key \/ ~Expired(r)}
RemoveRecord(key) == records' = Without(records, key)
List == records' = Fresh(records)

\* paginateMetadata: the page at a cursor, which counts entries in key order.
Place(keys, key) == Cardinality({k \in keys : k < key})
PageAt(keys, cursor, limit) ==
  {key \in keys : cursor <= Place(keys, key) /\ Place(keys, key) < cursor + limit}
=============================================================================
