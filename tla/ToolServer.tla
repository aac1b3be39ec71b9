----------------------------- MODULE ToolServer -----------------------------
(***************************************************************************)
(* The two tools of mcp/server.py: register_context, over register() of    *)
(* registry/context_registry.py, and get_optimized_context, over decide()  *)
(* of compression/coordinator.py, find_similar() of the registry and the   *)
(* compressor of compression/compressor.py; and the counters they leave in *)
(* metrics/collector.py.                                                   *)
(*                                                                         *)
(* Requests run concurrently and wait where the code awaits: for a thread  *)
(* that counts tokens, for the index, for the cached contexts, for the     *)
(* compressor.  Agents reach the index by register_agent(), which is the   *)
(* subject of ContextRegistry and appears here as AgentCached; no tool     *)
(* calls it.                                                               *)
(***************************************************************************)
EXTENDS Naturals, FiniteSets

CONSTANTS
    Requests,     \* the requests that may be made
    Clients,      \* agent ids of register_context
    Peers,        \* agents that register_agent() may have indexed
    NoPeer

VARIABLES
    request,      \* request -> where it is and what it holds
    sent,         \* history: how many requests were sent
    simple,       \* _simple_entries: client -> the number of the request, or 0
    cachedPeers,  \* peers in the index and in the cache
    modelLoaded,       \* the compressor's _model is there
    registers, decisions   \* _register_calls, _decision_calls: how many

toolVars == <<request, sent, simple, cachedPeers, modelLoaded, registers, decisions>>

NoAnswer == [strategy |-> "none", from |-> NoPeer]
NoRequest == [at |-> "unsent", nr |-> 0, client |-> "none", long |-> FALSE,
              found |-> {}, from |-> NoPeer, strong |-> FALSE, answer |-> NoAnswer]

ToolInit ==
    /\ request = [r \in Requests |-> NoRequest] /\ sent = 0
    /\ simple = [c \in Clients |-> 0]
    /\ cachedPeers = {} /\ modelLoaded = FALSE
    /\ registers = 0 /\ decisions = 0

At(r, where) == request[r].at = where

-----------------------------------------------------------------------------
\* register_context: the count is awaited (one that fails is made of the words),
\* then the entry is stored and the call recorded
SendRegister(r, c) ==
    /\ At(r, "unsent")
    /\ sent' = sent + 1
    /\ request' = [request EXCEPT ![r].at = "counting", ![r].nr = sent', ![r].client = c]
    /\ UNCHANGED <<simple, cachedPeers, modelLoaded, registers, decisions>>

RegisterStored(r) ==
    /\ At(r, "counting")
    /\ simple' = [simple EXCEPT ![request[r].client] = request[r].nr]
    /\ registers' = registers + 1
    /\ request' = [request EXCEPT ![r].at = "registered"]
    /\ UNCHANGED <<sent, cachedPeers, modelLoaded, decisions>>

-----------------------------------------------------------------------------
\* get_optimized_context up to the first wait, in find_similar
SendOptimize(r, long) ==
    /\ At(r, "unsent")
    /\ sent' = sent + 1
    /\ request' = [request EXCEPT ![r].at = "searching", ![r].nr = sent', ![r].long = long]
    /\ UNCHANGED <<simple, cachedPeers, modelLoaded, registers, decisions>>

\* The search of the index; the contexts of what it finds are read after it
IndexSearched(r, hits) ==
    /\ At(r, "searching") /\ hits \subseteq cachedPeers
    /\ request' = [request EXCEPT ![r].at = "reading", ![r].found = hits]
    /\ UNCHANGED <<sent, simple, cachedPeers, modelLoaded, registers, decisions>>

\* _process_match for every hit, up to the threads that measure the prefixes: one
\* whose context has left the cache is dropped
ContextsRead(r) ==
    /\ At(r, "reading")
    /\ request' = [request EXCEPT ![r].at = "measuring", ![r].found = @ \cap cachedPeers]
    /\ UNCHANGED <<sent, simple, cachedPeers, modelLoaded, registers, decisions>>

\* The most similar of the others; its prefix exceeds the threshold, or not
Best(r, p, strong) ==
    IF request[r].found = {} THEN p = NoPeer /\ ~ strong ELSE p \in request[r].found

\* decide: what the two strict thresholds make of a context and its best match
Strategy(long, strong) ==
    CASE strong /\ ~ long   -> "apc_reuse"
      [] strong /\ long     -> "compress_and_reuse"
      [] ~ strong /\ long   -> "compress"
      [] ~ strong /\ ~ long -> "passthrough"

\* A passthrough surfaces the weak prefix, a compress does not
PrefixOf(strategy, p) == IF strategy = "compress" THEN NoPeer ELSE p

Answer(r, strategy, p) ==
    /\ request' = [request EXCEPT ![r].at = "answered", ![r].from = p,
                      ![r].answer = [strategy |-> strategy, from |-> PrefixOf(strategy, p)]]
    /\ decisions' = decisions + 1

\* The coordinator raised: 503 with a passthrough, and nothing is recorded
Unavailable(r) ==
    /\ request' = [request EXCEPT ![r].at = "unavailable",
                      ![r].answer = [strategy |-> "passthrough", from |-> NoPeer]]
    /\ UNCHANGED decisions

SearchRaises(r) ==
    /\ request[r].at \in {"searching", "reading", "measuring"}
    /\ Unavailable(r)
    /\ UNCHANGED <<sent, simple, cachedPeers, modelLoaded, registers>>

\* The rest of a decide that compresses nothing
DecidedShort(r, p, strong) ==
    /\ At(r, "measuring") /\ ~ request[r].long /\ Best(r, p, strong)
    /\ Answer(r, Strategy(FALSE, strong), p)
    /\ UNCHANGED <<sent, simple, cachedPeers, modelLoaded, registers>>

\* A decide that compresses: load() may raise, and is tried again by the next
\* call, or the text goes to a thread of the executor
StartCompress(r, p, strong, loads) ==
    /\ At(r, "measuring") /\ request[r].long /\ Best(r, p, strong)
    /\ modelLoaded => loads
    /\ IF loads
       THEN /\ request' = [request EXCEPT ![r].at = "compressing", ![r].from = p,
                              ![r].strong = strong]
            /\ UNCHANGED decisions
       ELSE Unavailable(r)
    /\ modelLoaded' = loads
    /\ UNCHANGED <<sent, simple, cachedPeers, registers>>

Compressed(r, raises) ==
    /\ At(r, "compressing")
    /\ IF raises THEN Unavailable(r)
       ELSE Answer(r, Strategy(TRUE, request[r].strong), request[r].from)
    /\ UNCHANGED <<sent, simple, cachedPeers, modelLoaded, registers>>

-----------------------------------------------------------------------------
\* register_agent and clear_agent or an eviction, of others
AgentCached(p) ==
    /\ p \notin cachedPeers /\ cachedPeers' = cachedPeers \cup {p}
    /\ UNCHANGED <<request, sent, simple, modelLoaded, registers, decisions>>

AgentGone(p) ==
    /\ p \in cachedPeers /\ cachedPeers' = cachedPeers \ {p}
    /\ UNCHANGED <<request, sent, simple, modelLoaded, registers, decisions>>

\* clear(), at the end of the lifespan: no request is left, and the index and the
\* cache stay
ClearSimple ==
    /\ \A r \in Requests :
          request[r].at \in {"unsent", "registered", "answered", "unavailable"}
    /\ simple' = [c \in Clients |-> 0]
    /\ UNCHANGED <<request, sent, cachedPeers, modelLoaded, registers, decisions>>

ToolNext ==
    \/ ClearSimple
    \/ \E r \in Requests :
          \/ RegisterStored(r) \/ ContextsRead(r) \/ SearchRaises(r)
          \/ \E c \in Clients : SendRegister(r, c)
          \/ \E b \in BOOLEAN : SendOptimize(r, b) \/ Compressed(r, b)
          \/ \E hits \in SUBSET Peers : IndexSearched(r, hits)
          \/ \E p \in Peers \cup {NoPeer}, strong \in BOOLEAN :
                \/ DecidedShort(r, p, strong)
                \/ \E loads \in BOOLEAN : StartCompress(r, p, strong, loads)
    \/ \E p \in Peers : AgentCached(p) \/ AgentGone(p)

ToolSpec == ToolInit /\ [][ToolNext]_toolVars

-----------------------------------------------------------------------------
ToolTypeOK ==
    /\ simple \in [Clients -> 0 .. Cardinality(Requests)]
    /\ cachedPeers \subseteq Peers /\ modelLoaded \in BOOLEAN
    /\ registers + decisions <= sent

\* Only an answer with status 200 is recorded, each once, and a prefix is only
\* reused under a strategy that says so: what the index and the cache went through
\* while the request waited leaves no half of another answer in it.
AnswersAreWhole ==
    /\ decisions = Cardinality({r \in Requests : At(r, "answered")})
    /\ \A r \in Requests :
          LET a == request[r].answer
          IN  /\ At(r, "unavailable") => a.strategy = "passthrough" /\ a.from = NoPeer
              /\ a.strategy \in {"apc_reuse", "compress_and_reuse"} =>
                   a.from # NoPeer /\ a.from \in request[r].found
              /\ a.strategy \in {"compress", "compress_and_reuse"} => request[r].long /\ modelLoaded

\* Violated: of two registrations of one agent the one that was sent last stands.
\* The count of the first may come back after that of the second.
LastSentStands ==
    \A r, s \in Requests :
        At(r, "registered") /\ At(s, "registered") /\ request[r].client = request[s].client
          /\ request[r].nr < request[s].nr => simple[request[r].client] # request[r].nr

\* Violated: a reused prefix is that of an agent that is still there.
ReusedIsThere ==
    [][\A r \in Requests : At(r, "compressing") /\ request'[r].at = "answered"
         => request[r].from \in cachedPeers \cup {NoPeer}]_toolVars
=============================================================================
