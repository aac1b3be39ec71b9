--------------------------- MODULE Gate0Readings ---------------------------
(***************************************************************************)
(* GATE #0: what is read from a driven server (scripts/gate0/metrics.py)   *)
(* and when a run may be quoted (scripts/gate0/validity.py).  Memory is in *)
(* units, rates in percent, a prefix counter counts requests.  The texts   *)
(* of the checks and the confidence intervals are left out.                *)
(***************************************************************************)
EXTENDS Gate0Workload

CONSTANTS
    Null,           \* None
    MinRequests,    \* min_requests
    MaxControlHits, \* c_max_hit_rate, in percent
    MaxLocalHits    \* max_local_hit_rate, in percent

HonestSources == {"pyrsmi", "drm_sysfs", "cuda_nvml", "cuda_nvidia_smi"}
DishonestSources == {"amd_default_192gb", "cuda_unavailable", "unknown", "dry"}

-----------------------------------------------------------------------------
\* read_hbm: a reading by whatever source answered
HBMReading(used, source) ==
    [used |-> used, source |-> source, valid |-> used # Null /\ source \notin DishonestSources]

\* _scrape_kv_gauges: what a server that answers exposes, and the capacity if the
\* geometry of its blocks is there
Gauges(exposed, answers) ==
    IF ~ answers THEN {}
    ELSE exposed \cup {g \in {"capacity"} :
                         {"num_gpu_blocks", "block_size", "bytes_per_token"} \subseteq exposed}

\* _calculate_kv_footprint: by the gauges, else what the card holds over the
\* baseline, else all the card holds
KVFootprint(used, gauges, hbm, baseline) ==
    LET weights == IF baseline.valid THEN baseline.used ELSE Null
        footprint(value, method) ==
            [value |-> value, method |-> method, hbm |-> hbm,
             usage |-> IF "usage" \in gauges THEN used ELSE Null]
        byBlocks == {"blocks_used", "block_size", "bytes_per_token"} \subseteq gauges
    IN CASE {"usage", "capacity"} \subseteq gauges ->
              footprint(used, "gpu_cache_usage_perc")
         [] ~ {"usage", "capacity"} \subseteq gauges /\ byBlocks ->
              footprint(used, "num_gpu_blocks")
         [] OTHER ->
              IF hbm.valid /\ weights # Null
              THEN footprint(hbm.used - weights, "hbm_minus_weights")
              ELSE footprint(IF hbm.valid THEN hbm.used ELSE Null, "hbm_device_wide")

Isolating == {"gpu_cache_usage_perc", "num_gpu_blocks"}

\* prefix_metrics_window over counters [queries, hits, external] of two
\* scrapes.  A scrape that fails counts as zeros and is named in `failed`.
PrefixMetrics(before, after, failed) ==
    LET zero == [queries |-> 0, hits |-> 0, external |-> 0]
        b == IF "before" \in failed THEN zero ELSE before
        a == IF "after" \in failed THEN zero ELSE after
        queries == a.queries - b.queries
        hits == a.hits - b.hits
    IN [queries |-> queries, hits |-> hits,
        hitRate |-> IF queries > 0 THEN (100 * hits) \div queries ELSE 0,
        external |-> a.external - b.external,
        error |-> failed # {}]

-----------------------------------------------------------------------------
\* check_apc_on of every arm's server log; a dry run supplies none
APCOn(live, arms) == live /\ \A arm \in DOMAIN arms : arms[arm].apcLogged

\* check_aiter_parity
AiterParity(topology) ==
    \A n, k \in DOMAIN Arms : ArmLaunch(Arms[n], topology).env \cap AiterEnv
                                 = ArmLaunch(Arms[k], topology).env \cap AiterEnv

\* check_seed_pinned, which is required of two workers only
SeedPinned(topology) ==
    \A n \in DOMAIN Arms : "PYTHONHASHSEED" \in ArmLaunch(Arms[n], topology).env

\* check_shared_prefix_single
SharedPrefixSingle == DistinctPrefixes = 1

\* check_c_control
ControlClean(m) ==
    m # Null /\ ~ m.error /\ m.queries > 0 /\ m.hitRate <= MaxControlHits

\* check_w2_cold_read
ColdRead(m) == m # Null /\ ~ m.error /\ m.external > 0 /\ m.hitRate <= MaxLocalHits

\* check_cross_negative_control
NoExternalHits(m) == m # Null /\ ~ m.error /\ m.external <= 0

\* check_n_requests: of the requests asked for
EnoughRequests == NRequests >= MinRequests

\* check_vram_source_honest
SourceHonest(hbm) == hbm.source \in HonestSources

\* The first reading there is, in the arms' order
FirstHBM(arms) ==
    LET read == {n \in DOMAIN Arms : arms[Arms[n]].kv # Null}
    IN IF read = {} THEN Null
       ELSE arms[Arms[CHOOSE n \in read : \A k \in read : n <= k]].kv.hbm

\* run_all
Quotable(topology, live, arms) ==
    /\ APCOn(live, arms) /\ AiterParity(topology)
    /\ SharedPrefixSingle /\ ControlClean(arms["C"].prefix)
    /\ topology = "cross_worker" =>
          /\ SeedPinned(topology)
          /\ ColdRead(arms["B"].prefix) /\ NoExternalHits(arms["A"].prefix)
    /\ EnoughRequests
    /\ FirstHBM(arms) # Null => SourceHonest(FirstHBM(arms))
=============================================================================
