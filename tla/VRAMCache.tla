----------------------------- MODULE VRAMCache -----------------------------
(***************************************************************************)
(* The pressure-driven cache of registry/vram_aware_cache.py: the store,   *)
(* its token counter, the eviction mode, the registration block, and the   *)
(* background loop that reads the VRAM pressure and applies the policy.    *)
(*                                                                         *)
(* Every coroutine of the class runs without suspending (its lock is never *)
(* held across a suspension, so acquiring it never waits), which is why    *)
(* each operation is one action.  The only suspension is the loop's sleep  *)
(* between two iterations.                                                 *)
(*                                                                         *)
(* Wall-clock idleness is a whole number of ticks, and it saturates one    *)
(* tick above the longest threshold the code compares it with.             *)
(*                                                                         *)
(* A definition marked (fault) is a plausible bug in the definition after  *)
(* it; nothing uses it, and some property tells the two apart.             *)
(***************************************************************************)
EXTENDS Integers, FiniteSets, Functions

CONSTANTS
    Keys,         \* cache keys ("context:<agent>")
    TokenCounts,  \* token counts that set() is called with
    Pressures,    \* VRAM pressures get_pressure() reports, in percent
    IdleShort,    \* the 30 s threshold, in ticks
    IdleLong,     \* the 120 s threshold, in ticks
    ShareNum, ShareDen, \* PRESSURE evicts this share of the entries (1/4 in the code)
    MaxAccesses,  \* bound on access_count
    MaxTokenBudget \* the constructor's max_token_budget

ASSUME TokensAssumption   == TokenCounts \subseteq Nat
ASSUME PressureAssumption == Pressures \subseteq Nat /\ 0 \in Pressures
ASSUME IdleAssumption     == IdleShort \in Nat /\ IdleLong \in Nat /\ IdleShort < IdleLong
ASSUME ShareAssumption    == ShareNum \in Nat /\ ShareDen \in Nat \ {0} /\ ShareNum <= ShareDen
ASSUME AccessAssumption   == MaxAccesses \in Nat \ {0}

Modes  == {"RELAXED", "NORMAL", "PRESSURE", "CRITICAL", "EMERGENCY"}
MaxAge == IdleLong + 1

VARIABLES
    store,        \* key -> entry, for the keys that are present
    totalTokens,  \* _total_tokens
    mode,         \* _mode
    blocked,      \* _blocked
    monitoring,   \* a monitor task is alive
    pressure      \* what get_pressure() would return now (the environment)

vars == <<store, totalTokens, mode, blocked, monitoring, pressure>>

CacheEntry == [tokens : TokenCounts, accesses : 1..MaxAccesses,
               age : 0..MaxAge, offloaded : BOOLEAN]

-----------------------------------------------------------------------------
PressureToMode(p) ==
    CASE p < 70              -> "RELAXED"
      [] p >= 70 /\ p < 85   -> "NORMAL"
      [] p >= 85 /\ p < 92   -> "PRESSURE"
      [] p >= 92 /\ p < 96   -> "CRITICAL"
      [] p >= 96             -> "EMERGENCY"

Idle(s, threshold) == {k \in DOMAIN s : s[k].age > threshold}

\* (fault) the frequency of use forgotten
HeavierFault(a, b) == a.tokens >= b.tokens

\* a is at least as heavy per access as b: tokens/accesses compared exactly
AtLeastAsHeavy(a, b) == a.tokens * b.accesses >= b.tokens * a.accesses

PressureTarget(n) ==
    LET share == (n * ShareNum) \div ShareDen IN IF share = 0 THEN 1 ELSE share

\* The victims that sorting by weight can put first.  Python's sort breaks
\* ties by dict order; here a tie may fall either way.
Heaviest(s) ==
    IF DOMAIN s = {} THEN {{}}
    ELSE {V \in SUBSET DOMAIN s :
            /\ Cardinality(V) = PressureTarget(Cardinality(DOMAIN s))
            /\ \A v \in V, k \in DOMAIN s \ V : AtLeastAsHeavy(s[v], s[k])}

VictimSets(m, s) ==
    CASE m = "EMERGENCY" -> {Idle(s, IdleShort)}
      [] m = "NORMAL"    -> {Idle(s, IdleLong)}
      [] m = "PRESSURE"  -> Heaviest(s)
      [] OTHER           -> {{}}

MarkOffloaded(m, s) ==
    [k \in DOMAIN s |-> [s[k] EXCEPT !.offloaded =
        @ \/ (m = "CRITICAL" /\ k \in Idle(s, IdleShort))]]

\* The tokens of all the entries of s, each token counted as <<key, number>>
TokensIn(s) == Cardinality(UNION {{k} \X (1..s[k].tokens) : k \in DOMAIN s})

\* (fault) no branch but EMERGENCY's touches the block
ApplyPolicyFault(m, s, tot) ==
    \E V \in VictimSets(m, s) :
        /\ store' = MarkOffloaded(m, Restrict(s, DOMAIN s \ V))
        /\ totalTokens' = tot - TokensIn(Restrict(s, V))
        /\ blocked' = (blocked \/ m = "EMERGENCY")

\* _apply_eviction_policy in mode m over a store s that counts tot tokens
ApplyPolicy(m, s, tot) ==
    \E V \in VictimSets(m, s) :
        /\ store' = MarkOffloaded(m, Restrict(s, DOMAIN s \ V))
        /\ totalTokens' = tot - TokensIn(Restrict(s, V))
        /\ blocked' = (m = "EMERGENCY")

-----------------------------------------------------------------------------
Init ==
    /\ store = [k \in {} |-> {}]
    /\ totalTokens = 0
    /\ mode = "RELAXED"
    /\ blocked = FALSE
    /\ monitoring = FALSE
    /\ pressure = 0

\* start() and stop(); what a stop leaves behind is the mode and the block
Start ==
    /\ ~monitoring
    /\ monitoring' = TRUE
    /\ UNCHANGED <<store, totalTokens, mode, blocked, pressure>>

Stop ==
    /\ monitoring
    /\ monitoring' = FALSE
    /\ UNCHANGED <<store, totalTokens, mode, blocked, pressure>>

\* One iteration of _vram_monitor_loop.  An iteration that finds the mode it
\* found last time does nothing: the policy runs on a mode CHANGE only.
MonitorStep ==
    /\ monitoring
    /\ PressureToMode(pressure) # mode
    /\ mode' = PressureToMode(pressure)
    /\ ApplyPolicy(mode', store, totalTokens)
    /\ UNCHANGED <<monitoring, pressure>>

NewEntry(t) == [tokens |-> t, accesses |-> 1, age |-> 0, offloaded |-> FALSE]

StoreWith(k, t) ==
    [x \in DOMAIN store \cup {k} |-> IF x = k THEN NewEntry(t) ELSE store[x]]

\* (fault) an overwritten entry's tokens stay counted
TotalWithFault(k, t) == totalTokens + t

TotalWith(k, t) ==
    totalTokens + t - (IF k \in DOMAIN store THEN store[k].tokens ELSE 0)

\* (fault) the block is not looked at
SetFault(k, t) ==
    /\ UNCHANGED <<mode, monitoring, pressure>>
    /\ IF mode \in {"PRESSURE", "CRITICAL", "EMERGENCY"}
         THEN ApplyPolicy(mode, StoreWith(k, t), TotalWith(k, t))
         ELSE /\ store' = StoreWith(k, t)
              /\ totalTokens' = TotalWith(k, t)
              /\ UNCHANGED blocked

Set(k, t) ==
    /\ ~blocked
    /\ UNCHANGED <<mode, monitoring, pressure>>
    /\ IF mode \in {"PRESSURE", "CRITICAL", "EMERGENCY"}
         THEN ApplyPolicy(mode, StoreWith(k, t), TotalWith(k, t))
         ELSE /\ store' = StoreWith(k, t)
              /\ totalTokens' = TotalWith(k, t)
              /\ UNCHANGED blocked

\* get() refreshes recency and frequency; it does not clear the offload mark
Get(k) ==
    /\ k \in DOMAIN store
    /\ store[k].accesses < MaxAccesses
    /\ store' = [store EXCEPT ![k].age = 0, ![k].accesses = @ + 1]
    /\ UNCHANGED <<totalTokens, mode, blocked, monitoring, pressure>>

Delete(k) ==
    /\ k \in DOMAIN store
    /\ store' = Restrict(store, DOMAIN store \ {k})
    /\ totalTokens' = totalTokens - store[k].tokens
    /\ UNCHANGED <<mode, blocked, monitoring, pressure>>

Clear ==
    /\ store' = [k \in {} |-> {}]
    /\ totalTokens' = 0
    /\ UNCHANGED <<mode, blocked, monitoring, pressure>>

\* Time passes: every entry becomes one tick more idle
Tick ==
    /\ \E k \in DOMAIN store : store[k].age < MaxAge
    /\ store' = [k \in DOMAIN store |->
                   [store[k] EXCEPT !.age = IF @ < MaxAge THEN @ + 1 ELSE @]]
    /\ UNCHANGED <<totalTokens, mode, blocked, monitoring, pressure>>

\* The GPU's memory use changes, or its reader fails (a failed read is 0)
PressureChange(p) ==
    /\ pressure' = p
    /\ UNCHANGED <<store, totalTokens, mode, blocked, monitoring>>

Next ==
    \/ Start
    \/ Stop
    \/ MonitorStep
    \/ \E k \in Keys, t \in TokenCounts : Set(k, t)
    \/ \E k \in Keys : Get(k) \/ Delete(k)
    \/ Clear
    \/ Tick
    \/ \E p \in Pressures : PressureChange(p)

Spec == Init /\ [][Next]_vars

\* The loop wakes every 2 s while its task lives, and time passes
FairSpec == Spec /\ WF_vars(MonitorStep) /\ WF_vars(Tick)
-----------------------------------------------------------------------------
(* Correctness *)

\* Every variable stays in its domain.  (totalTokens is TokenAccounting's.)
TypeOK ==
    /\ DOMAIN store \subseteq Keys
    /\ \A k \in DOMAIN store : store[k] \in CacheEntry
    /\ mode \in Modes
    /\ blocked \in BOOLEAN
    /\ monitoring \in BOOLEAN
    /\ pressure \in Pressures

\* The running counter _total_tokens, adjusted by set, re-set, delete and each
\* kind of eviction, always equals the tokens of the entries actually held.
TokenAccounting == totalTokens = TokensIn(store)

\* Registrations are refused exactly in EMERGENCY.  The loop's own branch that
\* should lift the block (line 105) can never be taken; the block is lifted
\* by the policy of the next mode, so this rests on every mode doing that.
BlockedIffEmergency == blocked <=> mode = "EMERGENCY"

\* While the cache stays in EMERGENCY its contents only shrink: no path of
\* set() reaches the store, whatever the monitor did in between.
NoGrowthInEmergency ==
    [][mode = "EMERGENCY" /\ mode' = "EMERGENCY"
         => /\ DOMAIN store' \subseteq DOMAIN store
            /\ \A k \in DOMAIN store' : store'[k].tokens = store[k].tokens]_vars

\* What mode m promises to evict of s, of which r is left: nothing when RELAXED or
\* CRITICAL, only entries idle beyond the threshold when NORMAL or EMERGENCY, and
\* under PRESSURE only entries no lighter than any survivor, a fixed share of the
\* store but always at least one.
Justified(m, s, r) ==
    LET lost == DOMAIN s \ DOMAIN r IN
    /\ m \in {"RELAXED", "CRITICAL"} => lost = {}
    /\ m = "NORMAL" => lost = {k \in DOMAIN s : s[k].age > IdleLong}
    /\ m = "EMERGENCY" => lost = {k \in DOMAIN s : s[k].age > IdleShort}
    /\ m = "PRESSURE" =>
         /\ DOMAIN s # {} => lost # {}
         /\ Cardinality(lost) * ShareDen <= Cardinality(DOMAIN s) * ShareNum
              \/ Cardinality(lost) = 1
         /\ \A k \in lost, j \in DOMAIN r :
              s[k].tokens * s[j].accesses >= s[j].tokens * s[k].accesses

\* What a mode change throws out is what the mode entered promises; and set(),
\* which goes by the mode that the monitor found last, whatever the pressure became
\* since, evicts under PRESSURE only, by the same promise about the store with the
\* new entry in it, which may be the one to go (_vram_monitor_loop, set line 157).
EvictionJustified ==
    [][/\ MonitorStep => Justified(mode', store, store')
       /\ \A k \in Keys, t \in TokenCounts : Set(k, t) =>
            IF mode = "PRESSURE"
            THEN Justified("PRESSURE", StoreWith(k, t), store')
            ELSE DOMAIN store' = DOMAIN store \cup {k}]_vars

\* With the loop alive and the pressure below 96 % for good, registrations are
\* accepted again for good.
EmergencyEnds ==
    <>[](monitoring /\ pressure < 96) => <>[]~blocked

\* Seen from outside, the cache never takes in an entry but by an accepted
\* set(), and only the monitor starts or ends the refusals.
Contract == INSTANCE CacheContract WITH held <- DOMAIN store, refusing <- blocked

ImplementsContract == Contract!CacheSpec

-----------------------------------------------------------------------------
(* What the code's own text says, which the code does not do *)

\* _apply_eviction_policy's docstring: without an override it "uses the actual VRAM
\* pressure reading".  set() evicts by the mode of an iteration up to 2 s ago, and
\* may evict where the reading of now asks for nothing to go.
SetEvictsByPressureNow ==
    [][\A k \in Keys, t \in TokenCounts :
         Set(k, t) /\ PressureToMode(pressure) \in {"RELAXED", "CRITICAL"}
            => DOMAIN store' = DOMAIN store \cup {k}]_vars

\* set()'s docstring: "True if stored".
SetStoresWhatItAccepts ==
    [][\A k \in Keys, t \in TokenCounts : Set(k, t) => k \in DOMAIN store']_vars

\* __init__'s docstring: "Maximum tokens to hold in cache".
WithinTokenBudget == totalTokens <= MaxTokenBudget

\* Module docstring: in EMERGENCY, "Hard evict all idle > 30s".
IdleLeaveInEmergency ==
    <>[](mode = "EMERGENCY" /\ pressure >= 96 /\ monitoring)
      => []<>(\A k \in DOMAIN store : store[k].age <= IdleShort)
=============================================================================
