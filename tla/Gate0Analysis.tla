--------------------------- MODULE Gate0Analysis ---------------------------
(***************************************************************************)
(* GATE #0: the decision (scripts/gate0/analyze.py), a function of the raw *)
(* logs alone.  The operator names the logs, in an order; their arms are   *)
(* merged and arm B is compared with arm A on one primary metric.  The     *)
(* report, the confidence intervals and the throughput primary are left    *)
(* out.                                                                    *)
(*                                                                         *)
(* A definition marked (fault) is a plausible bug in the definition after  *)
(* it; nothing uses it, and some property tells the two apart.             *)
(***************************************************************************)
EXTENDS Gate0Run, SequencesExt

Primaries == {"kv_footprint", "kv_cache_util"}

\* (fault) the first log speaks for all of them
MergedFault(ls) ==
    [arms |-> [arm \in {"A", "B", "C"} |-> ls[Len(ls)].arms[arm]],
     topology |-> ls[1].topology, live |-> ls[1].live, quotable |-> ls[1].quotable]

\* _merge_runs: the first log, its arms replaced by those of the later ones; a
\* later log that is not quotable makes the whole so
Merged(ls) ==
    [arms |-> [arm \in {"A", "B", "C"} |-> ls[Len(ls)].arms[arm]],
     topology |-> ls[1].topology, live |-> ls[1].live,
     quotable |-> \A i \in DOMAIN ls : ls[i].quotable]

\* _condition_for: the arm's topology is used if the run has none
ConditionFor(run, arm) == run.topology

\* (fault) without the gauge, the footprint stands in for it
ReadingFault(block, primary) ==
    IF block.kv = Null THEN Null
    ELSE IF primary = "kv_cache_util" /\ block.kv.usage # Null THEN block.kv.usage
    ELSE block.kv.value

\* _value_and_samples
Reading(block, primary) ==
    IF block.kv = Null THEN Null
    ELSE CASE primary = "kv_footprint"  -> block.kv.value
           [] primary = "kv_cache_util" -> block.kv.usage

\* arm_metric
ArmMetric(run, arm, primary) ==
    LET block == run.arms[arm]
        value == Reading(block, primary)
    IN [value |-> value,
        valid |-> /\ block.measured /\ value # Null
                  /\ primary = "kv_footprint" =>
                        block.kv.hbm.valid /\ block.kv.hbm.source \notin DishonestSources]

\* _check_indecisive_guards
Indecisive(run, a, b) == ~ run.quotable \/ ~ a.valid \/ ~ b.valid \/ a.value = 0

\* _classify of the reduction from a to b in percent, the less the better: the cuts
\* it may come to.  The code divides doubles, so that a reduction of exactly 15% or
\* 5% may end on either side of the threshold: from 2.0 to 1.7 it is
\* 15.000000000000002, from 20 to 17 it is 15.0.
Classify(a, b) ==
    LET reduction == 100 * (a - b) IN
    {cut \in {"INVEST", "GREY_ZONE", "ABANDON"} :
        /\ cut = "INVEST"    => reduction >= 15 * a
        /\ cut = "GREY_ZONE" => 5 * a <= reduction /\ reduction <= 15 * a
        /\ cut = "ABANDON"   => reduction <= 5 * a}

\* compute_verdict
Cuts(run, primary) ==
    LET a == ArmMetric(run, "A", primary)
        b == ArmMetric(run, "B", primary)
    IN IF Indecisive(run, a, b) THEN {"INDECISIVE"} ELSE Classify(a.value, b.value)

-----------------------------------------------------------------------------
\* What the operator may analyse between runs: the logs, in an order
Analysed ==
    IF task.step = "idle" THEN SetToAllKPermutations(Range(logs)) \ {<< >>} ELSE {}
Decided(ls, primary) == "INDECISIVE" \notin Cuts(Merged(ls), primary)

\* Whatever fails, no server outlives the harness's use of it, except one that
\* outlived its kill: teardown is in the finally of every launch.
NothingLeftRunning ==
    \A s \in card :
        \/ s.killed
        \/ (task.step \in {"poll", "drive", "stop"} /\ s.launch = Launch)

\* Whatever outlived its kill and answers at a port, a quotable run measured its
\* arms on servers of their own: in one worker each arm has its port
\* (default_ports), in two only an arm B fetches from the store
\* (check_w2_cold_read).
ArmsKeepApart ==
    \A i \in DOMAIN logs : logs[i].quotable =>
        \A arm \in (IF logs[i].topology = "cross_worker" THEN {"B"} ELSE {"A", "B", "C"}) :
            logs[i].arms[arm].measured => logs[i].arms[arm].launch[2] = arm

\* No decision rests on a dry run, on a run whose control was contaminated, on an
\* arm that was not measured, or on memory read from no real source, however the
\* operator merges the logs (compute_verdict).
DecidedOnSoundEvidence ==
    \A ls \in Analysed, primary \in Primaries : Decided(ls, primary) =>
        /\ \A i \in DOMAIN ls : ls[i].live /\ ControlClean(ls[i].arms["C"].prefix)
        /\ \A arm \in {"A", "B"} :
              LET block == Merged(ls).arms[arm] IN
              /\ block.measured
              /\ primary = "kv_footprint" => block.kv.hbm.source \in HonestSources

\* Whatever scrapes failed and however the logs are merged, no cut is wrong of what
\* the arms' own traffic held in the cache: INVEST is of at least 15% less in arm B
\* than in arm A, ABANDON of at most 5% less, GREY_ZONE of something between.  The
\* footprint says it only where the gauges gave it (read_kv_footprint to _classify).
CutsFollowTruth ==
    \A ls \in Analysed, primary \in Primaries :
        LET a == Merged(ls).arms["A"]
            b == Merged(ls).arms["B"]
            cuts == Cuts(Merged(ls), primary)
        IN /\ Decided(ls, primary)
           /\ \/ primary = "kv_cache_util"
              \/ {a.kv.method, b.kv.method} \subseteq Isolating
           => /\ "INVEST" \in cuts    => 100 * b.used <= 85 * a.used
              /\ "ABANDON" \in cuts   => 100 * b.used >= 95 * a.used
              /\ "GREY_ZONE" \in cuts => /\ 100 * b.used >= 85 * a.used
                                         /\ 100 * b.used <= 95 * a.used

\* A run that was begun ends (wait_health gives up, teardown gives up).
RunsEnd == task.step # "idle" ~> task.step = "idle"

\* Violated: the docstring says that a reduction of 5% or 15% is in the grey zone
\* ("``5 <= delta_pct <= 15`` -> GREY_ZONE", analyze.py:15).
ThresholdIsGrey ==
    \A ls \in Analysed, primary \in Primaries :
        LET a == ArmMetric(Merged(ls), "A", primary).value
            b == ArmMetric(Merged(ls), "B", primary).value
        IN Decided(ls, primary) /\ 100 * (a - b) \in {5 * a, 15 * a}
           => Cuts(Merged(ls), primary) = {"GREY_ZONE"}

\* Violated: what the card holds as a whole is decided on.
DecisionsAreIsolated ==
    \A ls \in Analysed : Decided(ls, "kv_footprint") =>
        \A arm \in {"A", "B"} : Merged(ls).arms[arm].kv.method # "hbm_device_wide"

\* Violated: an arm may be decided on that answered fewer requests than the floor.
DecidedOnEnoughRequests ==
    \A ls \in Analysed, primary \in Primaries : Decided(ls, primary) =>
        \A arm \in {"A", "B"} : Merged(ls).arms[arm].answered >= MinRequests

\* Violated: a server that outlived its kill is measured in the place of another's.
ArmsMeasuredOnTheirOwn ==
    \A i \in DOMAIN logs : logs[i].quotable =>
        \A arm \in {"A", "B", "C"} :
            logs[i].arms[arm].measured => logs[i].arms[arm].launch[2] = arm
=============================================================================
