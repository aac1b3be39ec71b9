-------------------------- MODULE LMCacheConnector --------------------------
(***************************************************************************)
(* LMCacheConnectorV2 (serving/lmcache_connector.py): connectors of one    *)
(* instance id, which the builder gives one and the same engine.  The      *)
(* engine is LMCache's: what is stored lands later or is lost, it evicts,  *)
(* and any call of it may raise.                                           *)
(*                                                                         *)
(* A definition marked (fault) is a plausible bug in the definition after  *)
(* it; nothing uses it, and some property tells the two apart.             *)
(***************************************************************************)
EXTENDS Naturals, FiniteSets

CONSTANTS
    Connectors,
    Chunks,        \* what is stored, token sequences
    MaxCalls       \* bound on the calls of a connector

VARIABLES
    wired,         \* connector -> its _engine is there (and _active is TRUE)
    backend,       \* connector -> _backend
    stats,         \* connector -> [stores, hits, misses, lookups]
    prefetching,   \* connector -> a block of prefetch between lookup and retrieve
    reported,      \* connector -> what its last retrieve or prefetch reported, and
                   \* whether the mask it rests on could be tested
    inFlight, inEngine,   \* the engine: stores accepted, blocks held
    everStored,    \* history: blocks that ever were in the engine
    engineClosed,
    asked          \* history: connector -> retrieves asked of the engine

cacheConnVars == <<wired, backend, stats, prefetching, reported, inFlight, inEngine,
                   everStored, engineClosed, asked>>
engineVars    == <<inFlight, inEngine, everStored, engineClosed>>

NoCalls   == [stores |-> 0, hits |-> 0, misses |-> 0, lookups |-> 0]
NoReport  == [hit |-> FALSE, chunk |-> "none", tested |-> TRUE]

ConnectorInit ==
    /\ wired = [c \in Connectors |-> FALSE] /\ backend = [c \in Connectors |-> "none"]
    /\ stats = [c \in Connectors |-> NoCalls]
    /\ prefetching = [c \in Connectors |-> {}] /\ reported = [c \in Connectors |-> NoReport]
    /\ inFlight = {} /\ inEngine = {} /\ everStored = {} /\ engineClosed = FALSE
    /\ asked = [c \in Connectors |-> 0]

-----------------------------------------------------------------------------
\* __init__ and _try_build_engine: by the import that works, with the engine the
\* host hands over (none is looked for), or without any engine
Build(c, how) ==
    /\ backend[c] = "none"
    /\ backend' = [backend EXCEPT ![c] = IF how \in {"cuda", "non_cuda"} THEN how ELSE "fallback"]
    /\ wired' = [wired EXCEPT ![c] = how \in {"cuda", "non_cuda", "handed over"}]
    /\ UNCHANGED <<stats, prefetching, reported, engineVars, asked>>

Free(c)  == wired[c] /\ prefetching[c] = {}
Calls(c) == asked[c] + stats[c].stores + stats[c].lookups

\* store: counted when the engine accepts it, whenever the blocks land
ConnectorStore(c, chunk, blocking) ==
    /\ Free(c) /\ ~ engineClosed /\ Calls(c) < MaxCalls
    /\ stats' = [stats EXCEPT ![c].stores = @ + 1]
    /\ IF blocking
       THEN /\ inEngine' = inEngine \cup {chunk} /\ everStored' = everStored \cup {chunk}
            /\ UNCHANGED inFlight
       ELSE inFlight' = inFlight \cup {chunk} /\ UNCHANGED <<inEngine, everStored>>
    /\ UNCHANGED <<wired, backend, prefetching, reported, engineClosed, asked>>

\* The engine's answers to retrieve: an exception, no mask, a mask, all zero or
\* not, or one that says neither: testing it raises
Masks(chunk) ==
    IF engineClosed THEN {"raises"}
    ELSE {"unreadable", "raises"}
           \cup (IF chunk \in inEngine THEN {"some"} ELSE {"zero", "none"})

\* a mask that cannot be tested counts as a hit: it is not None
HasHit(mask) == mask \in {"some", "unreadable"}

\* (fault) an engine that raises was not asked
CountedAsAskedFault(s, mask) ==
    IF mask = "raises" THEN s
    ELSE IF HasHit(mask) THEN [s EXCEPT !.hits = @ + 1] ELSE [s EXCEPT !.misses = @ + 1]

CountedAsAsked(s, mask) ==
    IF HasHit(mask) THEN [s EXCEPT !.hits = @ + 1] ELSE [s EXCEPT !.misses = @ + 1]

Fetch(c, chunk) ==
    /\ \E mask \in Masks(chunk) :
          /\ stats' = [stats EXCEPT ![c] = CountedAsAsked(@, mask)]
          /\ reported' = [reported EXCEPT ![c] = [hit |-> HasHit(mask), chunk |-> chunk,
                                                  tested |-> mask # "unreadable"]]
    /\ asked' = [asked EXCEPT ![c] = @ + 1]

ConnectorRetrieve(c, chunk) ==
    /\ Free(c) /\ Calls(c) < MaxCalls
    /\ Fetch(c, chunk)
    /\ UNCHANGED <<wired, backend, prefetching, engineVars>>

\* lookup: an engine that raises is reported as 0 and not counted
LookupChunk(c, chunk, found) ==
    /\ Free(c) /\ Calls(c) < MaxCalls
    /\ found => ~ engineClosed /\ chunk \in inEngine
    /\ \E counts \in BOOLEAN :
          /\ found => counts
          /\ engineClosed => ~ counts
          /\ stats' = IF counts THEN [stats EXCEPT ![c].lookups = @ + 1] ELSE stats

ConnectorLookup(c, chunk, found) ==
    /\ LookupChunk(c, chunk, found)
    /\ UNCHANGED <<wired, backend, prefetching, reported, engineVars, asked>>

\* prefetch: a block is fetched if it was there when it was looked up
PrefetchLooks(c, chunk, found) ==
    /\ LookupChunk(c, chunk, found)
    /\ prefetching' = [prefetching EXCEPT ![c] = IF found THEN {chunk} ELSE {}]
    /\ reported' = [reported EXCEPT ![c] = [NoReport EXCEPT !.chunk = chunk]]
    /\ UNCHANGED <<wired, backend, engineVars, asked>>

PrefetchFetches(c) ==
    /\ \E chunk \in prefetching[c] : Fetch(c, chunk)
    /\ prefetching' = [prefetching EXCEPT ![c] = {}]
    /\ UNCHANGED <<wired, backend, engineVars>>

\* close: the engine is closed for whoever else has it
ConnectorClose(c) ==
    /\ Free(c)
    /\ wired' = [wired EXCEPT ![c] = FALSE]
    /\ engineClosed' = TRUE /\ inFlight' = {} /\ inEngine' = {}
    /\ UNCHANGED <<backend, stats, prefetching, reported, everStored, asked>>

\* The engine: a store lands, is lost, or makes way
Land(chunk) ==
    /\ chunk \in inFlight
    /\ inFlight' = inFlight \ {chunk} /\ inEngine' = inEngine \cup {chunk}
    /\ everStored' = everStored \cup {chunk}
    /\ UNCHANGED <<wired, backend, stats, prefetching, reported, engineClosed, asked>>

Lose(chunk) ==
    /\ chunk \in inFlight \cup inEngine
    /\ inFlight' = inFlight \ {chunk} /\ inEngine' = inEngine \ {chunk}
    /\ UNCHANGED <<wired, backend, stats, prefetching, reported, everStored, engineClosed, asked>>

ConnectorNext ==
    \/ \E c \in Connectors :
          \/ \E how \in {"cuda", "non_cuda", "handed over", "none"} : Build(c, how)
          \/ PrefetchFetches(c) \/ ConnectorClose(c)
          \/ \E chunk \in Chunks :
                \/ \E blocking \in BOOLEAN : ConnectorStore(c, chunk, blocking)
                \/ ConnectorRetrieve(c, chunk)
                \/ \E found \in BOOLEAN :
                     \/ ConnectorLookup(c, chunk, found)
                     \/ PrefetchLooks(c, chunk, found)
    \/ \E chunk \in Chunks : Land(chunk) \/ Lose(chunk)

ConnectorSpec == ConnectorInit /\ [][ConnectorNext]_cacheConnVars

-----------------------------------------------------------------------------
ConnectorTypeOK ==
    /\ \A c \in Connectors :
          /\ backend[c] \in {"none", "cuda", "non_cuda", "fallback"}
          /\ prefetching[c] \subseteq Chunks
          /\ backend[c] = "none" => ~ wired[c] /\ stats[c] = NoCalls
    /\ inEngine \subseteq everStored

\* "State, not intent" (the module's docstring): every retrieve asked of the
\* engine is counted once, as a hit or as a miss, those that raise and those with a
\* mask that cannot be tested included; and a hit that a tested mask tells is of
\* blocks the engine once had, whatever was lost, evicted or closed between the
\* store, the lookup and the retrieve (retrieve, prefetch).
HitsAreReal ==
    \A c \in Connectors :
        /\ stats[c].hits + stats[c].misses = asked[c]
        /\ reported[c].hit /\ reported[c].tested => reported[c].chunk \in everStored

\* Violated: what retrieve reports as a hit the engine once had ("Returns
\* (kv_tensors, mask) on hit, None on miss").  Where testing the mask raises, any
\* mask but None is a hit, that of blocks nobody stored too (290-293).
HitsWereStored ==
    \A c \in Connectors : reported[c].hit => reported[c].chunk \in everStored

\* Violated: is_active means that the engine is ready.  A connector whose instance
\* another one closed goes on as active.
ActiveIsReady == \A c \in Connectors : wired[c] => ~ engineClosed
=============================================================================
