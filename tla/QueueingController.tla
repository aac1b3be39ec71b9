------------------------- MODULE QueueingController -------------------------
(***************************************************************************)
(* scheduling/queueing_controller.py: the arrival rate by a moving         *)
(* average, the mean service time and block use, the number of blocks that *)
(* must stay free for the queue to be stable, and how many blocks to evict *)
(* for a request.  Times are ticks; rates are in units of 1/RateUnit a     *)
(* tick.  The average's new value lies somewhere between the old one and   *)
(* the instantaneous rate; the means are exact quotients of sums.  The     *)
(* inter-arrival times the code also keeps are never read.                 *)
(*                                                                         *)
(* A definition marked (fault) is a plausible bug in the definition after  *)
(* it; nothing uses it, and some property tells the two apart.             *)
(***************************************************************************)
EXTENDS Integers, Sequences

CONSTANTS
    RateUnit,          \* makes RateUnit \div dt exact for the gaps used
    WindowTicks,       \* window_seconds
    EvictionGap,       \* min_eviction_interval_ms
    MinObserved,       \* _min_requests_for_stable_estimate
    FallbackBlocks,    \* the minimum while fewer completions are known
    FallbackRho,       \* and the utilisation, in percent
    MarginNum, MarginDen,  \* safety_margin
    Services, Blocks,  \* service times and blocks of completed requests
    FreeBlocks, Requested,
    MaxTicks, MaxCompletions   \* bounds

ASSUME QueueAssumption ==
    /\ {RateUnit, MinObserved, MarginNum, MarginDen} \subseteq Nat \ {0}
    /\ {EvictionGap, FallbackBlocks} \subseteq Nat
    /\ Services \subseteq Nat \ {0} /\ Blocks \subseteq Nat
    /\ FreeBlocks \subseteq Nat /\ Requested \subseteq Nat

VARIABLES
    tick,          \* time.monotonic()
    arrivals,      \* _arrival_buffer: timestamps
    lastArrival,   \* _last_arrival_time, or Never
    rate,          \* _lambda_ema
    completed,     \* _service_stats and _blocks_stats as counts and sums
    lastEviction,  \* _last_eviction_time
    target,        \* the last answer of get_eviction_target_blocks
    evictedAt      \* history: when an answer last asked for an eviction

queueVars == <<tick, arrivals, lastArrival, rate, completed, lastEviction, target, evictedAt>>

Never == -1
Unasked == [free |-> 0, requested |-> 0, minimum |-> 0, evict |-> 0, at |-> 0, before |-> 0]

\* The clock counts from the machine's start, an interval ago or more
QueueInit ==
    /\ tick = EvictionGap /\ lastEviction = 0 /\ evictedAt = 0
    /\ arrivals = << >> /\ lastArrival = Never /\ rate = 0
    /\ completed = [n |-> 0, time |-> 0, m |-> 0, blocks |-> 0]
    /\ target = Unasked

-----------------------------------------------------------------------------
CeilDiv(a, b) == (a + b - 1) \div b
Lesser(a, b)  == IF a <= b THEN a ELSE b

Estimable == completed.n >= MinObserved

\* _get_lambda, as a quotient of naturals: 0.1 a second when nothing is known
Lambda == IF rate > 0 THEN <<rate, RateUnit>> ELSE <<1, 10>>

\* max(1, mean blocks): the mean of positive counts
MeanBlocks == IF completed.m = 0 THEN <<1, 1>> ELSE <<completed.blocks, completed.m>>

\* Utilisation in percent; the code caps it below one
Rho ==
    IF ~ Estimable THEN FallbackRho
    ELSE Lesser(99, (100 * Lambda[1] * completed.time) \div (Lambda[2] * completed.n))

\* ceil(lambda * E[S] * E[B] * margin)
MinimumStable ==
    IF ~ Estimable THEN FallbackBlocks
    ELSE CeilDiv(Lambda[1] * completed.time * MeanBlocks[1] * MarginNum,
                 Lambda[2] * completed.n * MeanBlocks[2] * MarginDen)

IsStable(free) == Rho < 100 /\ free >= MinimumStable

Bits ==
    CASE Rho < 70 -> 16 [] Rho >= 70 /\ Rho < 85 -> 8 [] Rho >= 85 /\ Rho < 95 -> 4 [] OTHER -> 2

\* The average moves towards `fresh`, and reaches neither 0 nor beyond it
Blends(fresh) ==
    {r \in 1 .. RateUnit : \/ rate <= r /\ r <= fresh
                           \/ fresh <= r /\ r <= rate}

\* A timestamp may lie before the last one: it is not averaged, but becomes
\* the time the next gap is measured from.
Arrive(t) ==
    /\ arrivals' = SelectSeq(Append(arrivals, t), LAMBDA a : a >= t - WindowTicks)
    /\ IF lastArrival # Never /\ t > lastArrival
       THEN rate' \in Blends(RateUnit \div (t - lastArrival))
       ELSE UNCHANGED rate
    /\ lastArrival' = t
    /\ UNCHANGED <<tick, completed, lastEviction, target, evictedAt>>

Complete(time, blocks) ==
    /\ completed.n < MaxCompletions
    /\ completed' = [n      |-> completed.n + 1,
                  time   |-> completed.time + time,
                  m      |-> completed.m + (IF blocks > 0 THEN 1 ELSE 0),
                  blocks |-> completed.blocks + blocks]
    /\ UNCHANGED <<tick, arrivals, lastArrival, rate, lastEviction, target, evictedAt>>

EvictNeeded(free, requested) == requested - free + MinimumStable

Throttled == tick - lastEviction < EvictionGap

\* (fault) every call takes the time, so that who asks again is put off again
StampedFault(evicts) == tick

\* _last_eviction_time after a call
Stamped(evicts) == IF evicts THEN tick ELSE lastEviction

\* An answer of n blocks
Answered(free, requested, n) ==
    /\ target' = [free |-> free, requested |-> requested, minimum |-> MinimumStable,
                  evict |-> n, at |-> tick, before |-> evictedAt]
    /\ evictedAt' = IF n > 0 THEN tick ELSE evictedAt

GetEvictionTarget(free, requested) ==
    LET needed == EvictNeeded(free, requested) IN
    /\ \/ /\ free - requested >= MinimumStable \/ (Throttled /\ needed > 0)
          /\ Answered(free, requested, 0)
          /\ lastEviction' = Stamped(FALSE)
       \/ /\ free - requested < MinimumStable /\ ~ (Throttled /\ needed > 0)
          /\ Answered(free, requested, needed)
          /\ lastEviction' = Stamped(TRUE)
    /\ UNCHANGED <<tick, arrivals, lastArrival, rate, completed>>

Tick ==
    /\ tick < EvictionGap + MaxTicks
    /\ tick' = tick + 1
    /\ UNCHANGED <<arrivals, lastArrival, rate, completed, lastEviction, target, evictedAt>>

QueueNext ==
    \/ \E t \in {tick, tick - 1} \cap Nat : Len(arrivals) < MaxTicks /\ Arrive(t)
    \/ \E time \in Services, blocks \in Blocks : Complete(time, blocks)
    \/ \E free \in FreeBlocks, requested \in Requested : GetEvictionTarget(free, requested)
    \/ Tick

QueueSpec == QueueInit /\ [][QueueNext]_queueVars

-----------------------------------------------------------------------------
QueueTypeOK ==
    /\ {tick, lastEviction, rate} \subseteq Nat /\ lastEviction <= tick
    /\ completed \in [n : Nat, time : Nat, m : Nat, blocks : Nat]
    /\ target.evict \in Nat

\* The throttle does what it is for, and no more, whatever is asked in between
\* and however the estimates change: two answers that evict are an interval apart
\* ("prevent eviction storms"), and who is put off below the floor may retry ("Caller
\* should retry later"): an interval after the last eviction nobody is put off.
\* before is when an answer last evicted, _last_eviction_time what the code knows of it.
EvictionsSpaced ==
    /\ target.evict > 0 => target.at - target.before >= EvictionGap
    /\ target.evict <= 0 /\ target.free - target.requested < target.minimum
          => target.at - target.before < EvictionGap

\* Violated: INV-11, "The result guarantees free_blocks_after_eviction >=
\* minimum_stable_blocks", after every call.  Soon after an eviction the answer is 0
\* whatever is free.
FloorAfterEveryCall == target.free - target.requested + target.evict >= target.minimum

\* A queue whose work arrives faster than it is completed is never called stable:
\* what the comment at the stability check asks ("utilization < 1 AND ...").
\* The code caps the utilisation at 0.9999 first.
OverloadIsUnstable ==
    Estimable /\ Lambda[1] * completed.time >= Lambda[2] * completed.n
        => \A free \in FreeBlocks : ~ IsStable(free)
=============================================================================
