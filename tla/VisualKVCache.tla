--------------------------- MODULE VisualKVCache ---------------------------
(***************************************************************************)
(* multimodal/visual_kv_cache.py: image embeddings by content hash, the    *)
(* least recently read of them evicted for room.  The controller's floor   *)
(* (get_minimum_stable_blocks) is asked for before each eviction; it moves *)
(* between calls, never during one, since every method is synchronous.     *)
(* The embeddings are their sizes.                                         *)
(*                                                                         *)
(* A definition marked (fault) is a plausible bug in the definition after  *)
(* it; nothing uses it, and some property tells the two apart.             *)
(***************************************************************************)
EXTENDS Integers, Sequences, SequencesExt

CONSTANTS
    Images,          \* content hashes
    Sizes,           \* estimated_vram_bytes an embedding may have
    MaxEntries,      \* max_entries
    MaxVram,         \* max_vram_bytes
    Floors,          \* what the controller may answer; {0} without one
    MaxLookups,      \* bound on the lookups counted
    BatchShapes      \* [count, side, depth] of the batches asked about

ASSUME VisualAssumption == Sizes \subseteq Nat /\ Floors \subseteq Nat /\ MaxEntries \in Nat \ {0}

VARIABLES
    visual,          \* _cache: [hash, bytes, reads], the next to be evicted first
    floor,           \* the controller's floor
    visualCounts,    \* _hits, _misses, _vram_saved_bytes, _dp_mode_recommendations
    lastStore,       \* the floor the last store met, and whether it returned
    lastBatch        \* the last recommendation: the batch and the answer

visualVars == <<visual, floor, visualCounts, lastStore, lastBatch>>

NoCounts == [hits |-> 0, misses |-> 0, saved |-> 0, dp |-> 0]
NoBatch  == [count |-> 0, side |-> 0, depth |-> 0]

VisualInit ==
    /\ visual = << >>
    /\ floor = 0
    /\ visualCounts = NoCounts
    /\ lastStore = [floor |-> 0, returned |-> TRUE]
    /\ lastBatch = [batch |-> NoBatch, dp |-> FALSE]

-----------------------------------------------------------------------------
Entries(h)  == {i \in DOMAIN visual : visual[i].hash = h}
Vram(seq)   == FoldLeft(LAMBDA sum, b : sum + b.bytes, 0, seq)
Dropped(seq, k) == SubSeq(seq, k + 1, Len(seq))
Without(seq, h) ==
    LET at == {i \in DOMAIN seq : seq[i].hash = h}
    IN IF at = {} THEN seq ELSE RemoveAt(seq, CHOOSE i \in at : TRUE)
Least(S) == CHOOSE k \in S : \A j \in S : k <= j

\* (fault) the last entry over the floor is kept too
AtFloorFault(n) == n <= floor + 1

\* An eviction is refused at the floor (INV-11)
AtFloor(n) == n <= floor

HasRoom(seq, bytes) == Vram(seq) + bytes <= MaxVram

\* The cache once room is made for `bytes`, or once an eviction is refused
EvictIfNeeded(bytes) ==
    LET Enough(k) == \/ k = Len(visual)
                     \/ AtFloor(Len(visual) - k)
                     \/ HasRoom(Dropped(visual, k), bytes)
    IN Dropped(visual, Least({k \in 0 .. Len(visual) : Enough(k)}))

Lookup(h) ==
    /\ visualCounts.hits + visualCounts.misses < MaxLookups
    /\ IF Entries(h) = {}
       THEN /\ visualCounts' = [visualCounts EXCEPT !.misses = @ + 1]
            /\ UNCHANGED visual
       ELSE LET b == visual[CHOOSE i \in Entries(h) : TRUE] IN
            /\ visual' = Append(Without(visual, h), [b EXCEPT !.reads = @ + 1])
            /\ visualCounts' = [visualCounts EXCEPT !.hits = @ + 1, !.saved = @ + b.bytes]
    /\ UNCHANGED <<floor, lastStore, lastBatch>>

\* The loop that makes room for a new hash does not end once the floor
\* refuses an eviction: `returned` is FALSE from then on.
Store(h, bytes) ==
    LET block  == [hash |-> h, bytes |-> bytes, reads |-> 0]
        room   == EvictIfNeeded(bytes)
        known  == \E i \in DOMAIN room : room[i].hash = h
        excess == IF known \/ Len(room) < MaxEntries THEN 0 ELSE Len(room) - MaxEntries + 1
        hangs  == excess > 0 /\ AtFloor(Len(room) - excess + 1)
    IN /\ visual' = IF hangs THEN room ELSE Append(Without(Dropped(room, excess), h), block)
       /\ lastStore' = [floor |-> floor, returned |-> ~ hangs]
       /\ UNCHANGED <<floor, visualCounts, lastBatch>>

DPMode(b) ==
    /\ ~ (b.count >= 10 /\ b.side <= 256)
    /\ b.count >= 2 \/ b.side >= 512 \/ b.depth >= 45

\* Counted when an answer is reached by one of the four tests, FALSE included
GetDPMode(b) ==
    /\ visualCounts.dp < MaxLookups
    /\ lastBatch' = [batch |-> b, dp |-> DPMode(b)]
    /\ visualCounts' = IF DPMode(b) \/ b.count >= 10
                       THEN [visualCounts EXCEPT !.dp = @ + 1] ELSE visualCounts
    /\ UNCHANGED <<visual, floor, lastStore>>

Clear ==
    /\ visual' = << >>
    /\ visualCounts' = NoCounts
    /\ UNCHANGED <<floor, lastStore, lastBatch>>

\* The controller's estimates move
MoveFloor(n) == floor' = n /\ UNCHANGED <<visual, visualCounts, lastStore, lastBatch>>

\* A store that hangs holds the thread
Spin == UNCHANGED visualVars

VisualNext ==
    \/ /\ lastStore.returned
       /\ \/ \E h \in Images : Lookup(h)
          \/ \E h \in Images, bytes \in Sizes : Store(h, bytes)
          \/ \E b \in BatchShapes : GetDPMode(b)
          \/ Clear
          \/ \E n \in Floors : MoveFloor(n)
    \/ ~ lastStore.returned /\ Spin

VisualSpec == VisualInit /\ [][VisualNext]_visualVars

-----------------------------------------------------------------------------
VisualTypeOK ==
    /\ Len(visual) <= MaxEntries
    /\ \A i \in DOMAIN visual : visual[i].hash \in Images /\ visual[i].bytes \in Sizes
    /\ \A i, j \in DOMAIN visual : visual[i].hash = visual[j].hash => i = j

\* The budget is exceeded only by what the floor kept from being evicted: the
\* cache is over max_vram_bytes only if the store that took it there met a
\* floor, or holds that one block alone.  (store decides on room before it
\* looks whether it replaces a block, and goes on when eviction is refused.)
OverBudgetOnlyAtFloor ==
    Vram(visual) > MaxVram => Len(visual) <= lastStore.floor + 1

\* INV-11: evictions never take the cache below the floor, or below what it
\* held when it was under it already; only clear() does.
EvictionsKeepFloor ==
    [][Len(visual') < Len(visual) => visual' = << >> \/ Len(visual') >= floor]_visual

\* A store hangs only if the controller's floor is as large as the cache.
StoresReturn == ~ lastStore.returned => lastStore.floor >= MaxEntries
=============================================================================
