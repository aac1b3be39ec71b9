--------------------------- MODULE CacheContract ---------------------------
(***************************************************************************)
(* What registry/vram_aware_cache.py promises its users: an entry may      *)
(* leave at any time, but one enters only by set(), and only while         *)
(* registrations are not blocked; and only the background monitor blocks   *)
(* or unblocks them.  VRAMCache implements it, ContextRegistry relies on   *)
(* no more than it.                                                        *)
(***************************************************************************)
CONSTANT Keys

VARIABLES
    held,         \* keys that are present
    refusing      \* set() returns False

cacheVars == <<held, refusing>>

CacheInit == held = {} /\ refusing = FALSE

\* An accepted set(): the eviction it triggers may take any entry, the new one
\* included
Put(k) ==
    /\ ~refusing
    /\ held' \in SUBSET (held \cup {k})
    /\ UNCHANGED refusing

\* delete() and clear()
Drop(K) ==
    /\ held' = held \ K
    /\ UNCHANGED refusing

\* The monitor loop enters another mode
ModeChange ==
    /\ held' \in SUBSET held
    /\ refusing' \in BOOLEAN

CacheNext ==
    \/ \E k \in Keys : Put(k)
    \/ \E K \in SUBSET Keys : Drop(K)
    \/ ModeChange

CacheSpec == CacheInit /\ [][CacheNext]_cacheVars
=============================================================================
