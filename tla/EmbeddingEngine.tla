-------------------------- MODULE EmbeddingEngine --------------------------
(***************************************************************************)
(* The embedding engine (embeddings/embedding_engine.py): coroutines of    *)
(* one event loop that encode texts through a bounded cache, over a model  *)
(* that the first of them loads in a thread.  Without a model a vector is  *)
(* made from the text, in another space.  The locks guard no wait but that *)
(* of the load, so what a call does between two waits is one action.       *)
(*                                                                         *)
(* A definition marked (fault) is a plausible bug in the definition after  *)
(* it; nothing uses it, and some property tells the two apart.             *)
(***************************************************************************)
EXTENDS Naturals, Sequences, FiniteSets

CONSTANTS
    Encoders,      \* the coroutines that call encode
    Passages,      \* the texts
    LRUMaxSize,    \* LRU_MAX_SIZE
    MaxEncodes,    \* bound on the calls begun
    MaxCancels     \* bound on the calls cancelled in the load

ASSUME EmbedAssumption == LRUMaxSize \in Nat \ {0}

VARIABLES
    singleton,     \* [made, onnx]: get_instance keeps the first caller's flag
    loaded, failed,   \* _model_loaded, _model_failed
    threads,       \* the executor's threads that load
    lockHolder,    \* who holds _st_lock, if any
    encodes,       \* Encoders -> [at, text]
    lru,           \* _cache, the oldest first: [text, space]
    encoded,       \* what calls have returned: [text, space]
    begun, cancels

embedVars == <<singleton, loaded, failed, threads, lockHolder, encodes, lru,
               encoded, begun, cancels>>

Resting == [at |-> "idle", text |-> "none"]

EmbedInit ==
    /\ singleton = [made |-> FALSE, onnx |-> FALSE]
    /\ loaded = FALSE /\ failed = FALSE /\ threads = {} /\ lockHolder = {}
    /\ encodes = [e \in Encoders |-> Resting] /\ lru = << >> /\ encoded = {}
    /\ begun = 0 /\ cancels = 0

-----------------------------------------------------------------------------
GetInstance(onnx) ==
    /\ ~ singleton.made
    /\ singleton' = [made |-> TRUE, onnx |-> onnx]
    /\ UNCHANGED <<loaded, failed, threads, lockHolder, encodes, lru, encoded, begun, cancels>>

CachedAt(text) == {i \in DOMAIN lru : lru[i].text = text}

\* A full cache loses its oldest entry first, for a text it holds already as well
Inserted(entry) ==
    LET kept == IF Len(lru) >= LRUMaxSize THEN Tail(lru) ELSE lru
        same == {i \in DOMAIN kept : kept[i].text = entry.text}
    IN IF same = {} THEN Append(kept, entry)
       ELSE [i \in DOMAIN kept |-> IF i \in same THEN entry ELSE kept[i]]

\* The end of encode, without a wait since the vector was had
Return(e, text, space) ==
    /\ encodes' = [encodes EXCEPT ![e] = Resting]
    /\ lru' = Inserted([text |-> text, space |-> space])
    /\ encoded' = encoded \cup {[text |-> text, space |-> space]}

MoveTo(e, at, text) ==
    /\ encodes' = [encodes EXCEPT ![e] = [at |-> at, text |-> text]]
    /\ UNCHANGED <<lru, encoded>>

\* From the load on: the model in a thread, or the hash of the text at once
Embed(e, text) ==
    IF loaded THEN MoveTo(e, "embed", text) ELSE Return(e, text, "hash")

\* (fault) who finds the load under way does without the model
AwaitLoadFault(e, text) ==
    IF lockHolder = {}
    THEN lockHolder' = {e} /\ threads' = threads \cup {e} /\ MoveTo(e, "load", text)
    ELSE Return(e, text, "hash") /\ UNCHANGED <<lockHolder, threads>>

\* _ensure_loaded: the first to come loads, the others wait for the lock
AwaitLoad(e, text) ==
    IF lockHolder = {}
    THEN lockHolder' = {e} /\ threads' = threads \cup {e} /\ MoveTo(e, "load", text)
    ELSE MoveTo(e, "wait", text) /\ UNCHANGED <<lockHolder, threads>>

\* encode of a text that is in the cache
EncodeCached(e, text) ==
    /\ singleton.made /\ encodes[e].at = "idle" /\ begun < MaxEncodes
    /\ \E i \in CachedAt(text) :
          /\ lru' = SubSeq(lru, 1, i - 1) \o SubSeq(lru, i + 1, Len(lru)) \o <<lru[i]>>
          /\ encoded' = encoded \cup {lru[i]}
    /\ begun' = begun + 1
    /\ UNCHANGED <<singleton, loaded, failed, threads, lockHolder, encodes, cancels>>

EncodeNew(e, text) ==
    /\ singleton.made /\ encodes[e].at = "idle" /\ begun < MaxEncodes
    /\ CachedAt(text) = {}
    /\ begun' = begun + 1
    /\ CASE singleton.onnx -> Return(e, text, "xorshift") /\ UNCHANGED <<lockHolder, threads>>
         [] ~ singleton.onnx /\ (loaded \/ failed) ->
              Embed(e, text) /\ UNCHANGED <<lockHolder, threads>>
         [] OTHER -> AwaitLoad(e, text)
    /\ UNCHANGED <<singleton, loaded, failed, cancels>>

\* _try_load_sentence_transformer, in the thread that e started
ThreadEnds(e, succeeds) ==
    /\ e \in threads
    /\ threads' = threads \ {e}
    /\ IF succeeds THEN loaded' = TRUE /\ UNCHANGED failed ELSE failed' = TRUE /\ UNCHANGED loaded
    /\ UNCHANGED <<singleton, lockHolder, encodes, lru, encoded, begun, cancels>>

LoadAnswered(e) ==
    /\ encodes[e].at = "load" /\ e \notin threads
    /\ lockHolder' = {}
    /\ Embed(e, encodes[e].text)
    /\ UNCHANGED <<singleton, loaded, failed, threads, begun, cancels>>

\* A waiter has the lock: the outcome is known, unless the loader was cancelled
LockGranted(e) ==
    /\ encodes[e].at = "wait" /\ lockHolder = {}
    /\ IF loaded \/ failed
       THEN Embed(e, encodes[e].text) /\ UNCHANGED <<lockHolder, threads>>
       ELSE e \notin threads /\ AwaitLoad(e, encodes[e].text)
    /\ UNCHANGED <<singleton, loaded, failed, begun, cancels>>

\* _encode_st: the model answers, or raises to the caller
ModelAnswers(e) ==
    /\ encodes[e].at = "embed"
    /\ Return(e, encodes[e].text, "model")
    /\ UNCHANGED <<singleton, loaded, failed, threads, lockHolder, begun, cancels>>

ModelRaises(e) ==
    /\ encodes[e].at = "embed"
    /\ encodes' = [encodes EXCEPT ![e] = Resting]
    /\ UNCHANGED <<singleton, loaded, failed, threads, lockHolder, lru, encoded, begun, cancels>>

\* The caller is cancelled in the load; its thread goes on
CancelLoad(e) ==
    /\ encodes[e].at = "load" /\ e \in threads /\ cancels < MaxCancels
    /\ cancels' = cancels + 1
    /\ encodes' = [encodes EXCEPT ![e] = Resting] /\ lockHolder' = {}
    /\ UNCHANGED <<singleton, loaded, failed, threads, lru, encoded, begun>>

ClearCache ==
    /\ lru # << >> /\ lru' = << >>
    /\ UNCHANGED <<singleton, loaded, failed, threads, lockHolder>>
    /\ UNCHANGED <<encodes, encoded, begun, cancels>>

EmbedNext ==
    \/ \E onnx \in BOOLEAN : GetInstance(onnx)
    \/ \E e \in Encoders, text \in Passages : EncodeCached(e, text) \/ EncodeNew(e, text)
    \/ \E e \in Encoders, succeeds \in BOOLEAN : ThreadEnds(e, succeeds)
    \/ \E e \in Encoders : \/ LoadAnswered(e) \/ LockGranted(e)
                           \/ ModelAnswers(e) \/ ModelRaises(e) \/ CancelLoad(e)
    \/ ClearCache

EmbedSpec == EmbedInit /\ [][EmbedNext]_embedVars

-----------------------------------------------------------------------------
EmbedTypeOK ==
    /\ {loaded, failed} \subseteq BOOLEAN
    /\ threads \subseteq Encoders /\ lockHolder \subseteq Encoders /\ Cardinality(lockHolder) <= 1
    /\ \A e \in Encoders : encodes[e].at \in {"idle", "load", "wait", "embed"}
    /\ Len(lru) <= LRUMaxSize

\* Whatever the order of calls, load and eviction, a text has one vector: no call
\* falls back while another is loading the model, and what the cache holds was
\* made as a new vector would be (_ensure_loaded, encode).  The registry and the
\* FAISS index compare vectors of different calls.  Once a loading call has been
\* cancelled it fails: two threads may end differently.
SameTextSameVector ==
    cancels = 0 => \A a, b \in encoded : a.text = b.text => a.space = b.space

\* The first load coalesces the calls that wait for it (_ensure_loaded's
\* docstring).  Violated when the loading call is cancelled: its thread goes on,
\* and a waiter starts a second.
LoadsCoalesce == Cardinality(threads) <= 1
=============================================================================
