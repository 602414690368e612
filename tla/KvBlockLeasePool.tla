-------------------------- MODULE KvBlockLeasePool --------------------------
(***************************************************************************)
(* The pool of physical KV-cache blocks that the demo's live lane leases   *)
(* to requests: KvBlockLeasePool and KvBlockLeaseGuard in                  *)
(* crates/mainarch-cli/src/demo.rs.                                        *)
(*                                                                         *)
(* The free list is a Vec behind a Mutex.  Its order only chooses WHICH    *)
(* blocks a lease gets, so it is a set here and the choice is free.  The   *)
(* gauges are atomics that other threads read without the mutex; a guard   *)
(* is owned by one request and released once, by take() or by Drop.        *)
(*                                                                         *)
(* A definition that starts with Faulty is a plausible bug of the one that *)
(* follows it.  Nothing uses it: put in its place, it breaks a property.   *)
(***************************************************************************)
EXTENDS Naturals, FiniteSets

CONSTANTS
  Request,          \* the requests; each has a connection handler thread
  Block,            \* the physical KV blocks (LIVE_LANE_KV_BLOCK_CAPACITY)
  BlocksPerRequest, \* PROOF_KV_LOGICAL_BLOCKS
  NoRequest         \* "no thread holds the mutex"

ASSUME PoolAssumption ==
  /\ IsFiniteSet(Request)
  /\ IsFiniteSet(Block)
  /\ BlocksPerRequest \in Nat \ {0}
  /\ NoRequest \notin Request

VARIABLES
  free,      \* free_blocks
  lease,     \* request -> the block_table of its guard, {} without a guard
  inUse,     \* kv_blocks_in_use
  poolLock   \* who is inside the acquire critical section

poolVars == <<free, lease, inUse, poolLock>>

PoolTypeOK ==
  /\ free \in SUBSET Block
  /\ lease \in [Request -> SUBSET Block]
  /\ inUse \in Nat
  /\ poolLock \in Request \cup {NoRequest}

PoolInit ==
  /\ free = Block
  /\ lease = [r \in Request |-> {}]
  /\ inUse = 0
  /\ poolLock = NoRequest

-----------------------------------------------------------------------------
(* try_acquire, the denied branch: too few free blocks, nothing is taken.  *)
TryAcquireDenied(r) ==
  /\ poolLock = NoRequest
  /\ Cardinality(free) < BlocksPerRequest
  /\ UNCHANGED poolVars

(* try_acquire up to the last pop: the blocks have left the free list, the *)
(* mutex is still held and the gauges do not show the lease yet.           *)
TryAcquireTake(r) ==
  /\ poolLock = NoRequest
  /\ Cardinality(free) >= BlocksPerRequest
  /\ \E table \in SUBSET free :
       /\ Cardinality(table) = BlocksPerRequest
       /\ lease' = [lease EXCEPT ![r] = table]
       /\ free' = free \ table
  /\ poolLock' = r
  /\ UNCHANGED inUse

FaultyPublishWithoutGauge(r) ==
  /\ poolLock = r
  /\ poolLock' = NoRequest
  /\ UNCHANGED <<free, lease, inUse>>

(* try_acquire after the pops: the gauges are raised, the mutex released.  *)
TryAcquirePublish(r) ==
  /\ poolLock = r
  /\ inUse' = inUse + Cardinality(lease[r])
  /\ poolLock' = NoRequest
  /\ UNCHANGED <<free, lease>>

FaultyReleaseUndrained(r) ==
  /\ poolLock = NoRequest
  /\ free' = free \cup lease[r]
  /\ inUse' = inUse - Cardinality(lease[r])
  /\ UNCHANGED <<lease, poolLock>>

(* release_blocks, reached from take() or Drop of the request's guard.     *)
ReleaseBlocks(r) ==
  /\ poolLock = NoRequest
  /\ free' = free \cup lease[r]
  /\ inUse' = inUse - Cardinality(lease[r])
  /\ lease' = [lease EXCEPT ![r] = {}]
  /\ UNCHANGED poolLock

-----------------------------------------------------------------------------
(* The pool on its own, with every request acquiring and releasing freely. *)
PoolNext ==
  \E r \in Request :
    \/ lease[r] = {} /\ TryAcquireDenied(r)
    \/ lease[r] = {} /\ TryAcquireTake(r)
    \/ TryAcquirePublish(r)
    \/ lease[r] # {} /\ ReleaseBlocks(r)

PoolSpec == PoolInit /\ [][PoolNext]_poolVars

-----------------------------------------------------------------------------
(* No physical block is in two block tables at once, none is leased and    *)
(* free, and none is lost: whatever the interleaving of acquires and       *)
(* releases, every block is free or in exactly one lease.                  *)
LeaseExclusive ==
  /\ \A r, s \in Request : r # s => lease[r] \cap lease[s] = {}
  /\ \A r \in Request : lease[r] \cap free = {}
  /\ \A b \in Block : b \in free \/ \E r \in Request : b \in lease[r]

(* Every guard has a full block table: a shortage denies the request, it   *)
(* never yields a short table (validate_active_block_tables relies on it). *)
LeaseComplete ==
  \A r \in Request :
    lease[r] # {} => Cardinality(lease[r]) = BlocksPerRequest

(* kv_blocks_in_use counts the blocks outside the free list; it lags by    *)
(* one table exactly while an acquirer is between its pops and its         *)
(* fetch_add, inside the mutex.                                            *)
GaugeExact ==
  inUse + (IF poolLock = NoRequest THEN 0 ELSE Cardinality(lease[poolLock]))
    = Cardinality(Block \ free)

=============================================================================
