----------------------------- MODULE ROMYPlugin -----------------------------
(***************************************************************************)
(* The plugin object of serving/romy_plugin.py: the pre-attention hook,    *)
(* which asks the JCR gate, looks for an anchor and quantises, and the     *)
(* post-attention hook, which counts.  The gate, the quantizer and the     *)
(* metrics are handed in and may raise; any of them may be missing.        *)
(***************************************************************************)
EXTENDS Naturals

CONSTANTS
    Wirings,      \* subsets of {"quantizer", "lsh_matcher", "jcr_gate", "metrics"}
    Features,     \* subsets of {"quantization", "rotate_kv", "anchors", "cla", "gate"}
    BlockCounts, MaxQuantizeBlocks,
    MaxHookCalls  \* bound on the calls of a hook

VARIABLES
    given, enabled, \* the dependencies, and the features of the config
    workerOf,       \* "none" before there is a plugin, then its _worker_id
    quantizedBlocks, quantizations,  \* _quantized_block_count; history: calls that quantised
    hookStats,      \* the post hook's _stats
    recorded,       \* history: record_register calls that the metrics took
    result          \* the flags of the last pre-attention call

romyVars == <<given, enabled, workerOf, quantizedBlocks, quantizations, hookStats,
              recorded, result>>

NoStats  == [blocks |-> 0, layers |-> 0, matched |-> 0]
NoResult == [attempted |-> FALSE, applied |-> FALSE, anchor |-> FALSE,
             dense |-> "unasked", cla |-> FALSE]

RomyInit ==
    /\ given = {} /\ enabled = {} /\ workerOf = "none"
    /\ quantizedBlocks = 0 /\ quantizations = 0
    /\ hookStats = NoStats /\ recorded = 0 /\ result = NoResult

\* The constructor, and initialize() once; register() does both, with nothing given
Make(deps, features) ==
    /\ workerOf = "none" /\ workerOf' = "unset"
    /\ given' = deps /\ enabled' = features
    /\ UNCHANGED <<quantizedBlocks, quantizations, hookStats, recorded, result>>

Initialize ==
    /\ workerOf = "unset" /\ workerOf' = "default"
    /\ UNCHANGED <<given, enabled, quantizedBlocks, quantizations, hookStats, recorded, result>>

-----------------------------------------------------------------------------
GateAsked == "jcr_gate" \in given /\ "gate" \in enabled

\* _attempt_anchor_routing: a dense decision bypasses the registry.  The matcher
\* is asynchronous and the hook is not, so what is found is a pending lookup.
AnchorRouted(dense) ==
    "lsh_matcher" \in given /\ "anchors" \in enabled /\ dense # "dense"

\* _attempt_quantization's conditions; tensors is whether the caller gave
\* keys, values and positions
Quantizable(blocks, tensors) ==
    /\ "quantizer" \in given /\ {"quantization", "rotate_kv"} \subseteq enabled
    /\ tensors /\ blocks <= MaxQuantizeBlocks

\* A call of the pre-attention hook.  The quantizer may raise, which is a call
\* that applied nothing.
PreAttention(blocks, tensors, dense, raises) ==
    /\ workerOf # "none" /\ quantizations < MaxHookCalls
    /\ (dense = "unasked") <=> ~ GateAsked
    /\ raises => Quantizable(blocks, tensors)
    /\ LET applied == Quantizable(blocks, tensors) /\ ~ raises
       IN  /\ result' = [attempted |-> "quantization" \in enabled /\ "quantizer" \in given,
                         applied |-> applied, anchor |-> AnchorRouted(dense),
                         dense |-> dense, cla |-> "cla" \in enabled]
           /\ quantizedBlocks' = quantizedBlocks + (IF applied THEN blocks ELSE 0)
           /\ quantizations' = quantizations + (IF applied THEN 1 ELSE 0)
    /\ UNCHANGED <<given, enabled, workerOf, hookStats, recorded>>

\* The gate is asked outside any try: when it raises, so does the hook, and the
\* quantization that does not depend on it does not happen
GateRaises ==
    /\ GateAsked /\ result' = NoResult
    /\ UNCHANGED <<given, enabled, workerOf, quantizedBlocks, quantizations, hookStats, recorded>>

\* The post-attention hook.  What the metrics refuse is counted by the hook alone.
PostAttention(blocks, matched, raises) ==
    /\ workerOf # "none" /\ hookStats.layers < MaxHookCalls
    /\ hookStats' = [blocks  |-> hookStats.blocks + blocks, layers |-> hookStats.layers + 1,
                     matched |-> hookStats.matched + (IF matched THEN blocks ELSE 0)]
    /\ raises => "metrics" \in given
    /\ recorded' = recorded + (IF "metrics" \in given /\ ~ raises THEN 1 ELSE 0)
    /\ UNCHANGED <<given, enabled, workerOf, quantizedBlocks, quantizations, result>>

RomyNext ==
    \/ Initialize \/ GateRaises
    \/ \E deps \in Wirings, features \in Features : Make(deps, features)
    \/ \E blocks \in BlockCounts, yes, raises \in BOOLEAN :
          \/ PostAttention(blocks, yes, raises)
          \/ \E dense \in {"unasked", "dense", "reuse"} : PreAttention(blocks, yes, dense, raises)

RomySpec == RomyInit /\ [][RomyNext]_romyVars

-----------------------------------------------------------------------------
RomyTypeOK ==
    /\ hookStats.matched <= hookStats.blocks /\ recorded <= hookStats.layers
    /\ quantizedBlocks <= quantizations * MaxQuantizeBlocks

\* Violated: the flags "are HONEST: they describe what this hook actually did, not
\* what its config requested" (PreAttentionHook.__call__).  cla_injected is the
\* request; nothing the hook does injects anything.
FlagsAreHonest == ~ result.cla /\ (result.applied => quantizations > 0)
=============================================================================
