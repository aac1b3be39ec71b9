-------------------------- MODULE VRAMCacheProofs --------------------------
(***************************************************************************)
(* For every set of keys, token counts, pressures and thresholds: the      *)
(* types, the equivalence of the registration block and EMERGENCY, that an *)
(* EMERGENCY never lets the store grow, that the token counter is exact,   *)
(* and that each mode evicts what it promises to evict.                    *)
(***************************************************************************)
EXTENDS VRAMCache, FiniteSetTheorems, TLAPS

\* The inductive invariant
IInv == TypeOK /\ BlockedIffEmergency

\* Every reading of the monitor is classified into one of the five modes.
LEMMA ModeOfReading ==
    ASSUME NEW p \in Nat
    PROVE  PressureToMode(p) \in Modes
BY DEF PressureToMode, Modes

\* The policy only drops entries and sets offload marks, and it leaves the block
\* as its mode requires.
LEMMA PolicyEffect ==
    ASSUME NEW m, NEW s, NEW tot, ApplyPolicy(m, s, tot),
           \A k \in DOMAIN s : s[k] \in CacheEntry
    PROVE  /\ DOMAIN store' \subseteq DOMAIN s
           /\ \A k \in DOMAIN store' :
                /\ store'[k] \in CacheEntry
                /\ store'[k].tokens = s[k].tokens
                /\ store'[k].accesses = s[k].accesses
                /\ store'[k].age = s[k].age
           /\ blocked' = (m = "EMERGENCY")
<1>1. PICK V \in VictimSets(m, s) :
        /\ store' = MarkOffloaded(m, Restrict(s, DOMAIN s \ V))
        /\ blocked' = (m = "EMERGENCY")
  BY DEF ApplyPolicy
<1> DEFINE r == Restrict(s, DOMAIN s \ V)
<1>2. /\ DOMAIN r = DOMAIN s \ V
      /\ \A k \in DOMAIN r : r[k] = s[k]
  BY DEF Restrict
<1>3. \A k \in DOMAIN r : r[k] \in CacheEntry
  BY <1>2
<1> HIDE DEF r
<1>4. /\ DOMAIN store' = DOMAIN r
      /\ \A k \in DOMAIN r : store'[k] =
           [r[k] EXCEPT !.offloaded = @ \/ (m = "CRITICAL" /\ k \in Idle(r, IdleShort))]
  BY <1>1 DEF MarkOffloaded, r
<1>5. ASSUME NEW k \in DOMAIN r
      PROVE  /\ store'[k] \in CacheEntry
             /\ store'[k].tokens = r[k].tokens
             /\ store'[k].accesses = r[k].accesses
             /\ store'[k].age = r[k].age
  BY <1>3, <1>4 DEF CacheEntry, Idle
<1> QED
  BY <1>1, <1>2, <1>4, <1>5

LEMMA InitIInv == Init => IInv
BY PressureAssumption
   DEF Init, IInv, TypeOK, BlockedIffEmergency, Modes

LEMMA NextIInv == IInv /\ [Next]_vars => IInv'
<1> SUFFICES ASSUME IInv, [Next]_vars PROVE IInv'
  OBVIOUS
<1> USE DEF IInv
<1> USE IdleAssumption, AccessAssumption
<1>1. CASE Start \/ Stop
  <2>1. monitoring' \in BOOLEAN /\ UNCHANGED <<store, mode, blocked, pressure>>
    BY <1>1 DEF Start, Stop
  <2> QED
    BY <2>1 DEF TypeOK, BlockedIffEmergency
<1>2. CASE MonitorStep
  <2>1. mode' \in Modes
    BY <1>2, ModeOfReading, PressureAssumption DEF MonitorStep, TypeOK
  <2>2. ApplyPolicy(mode', store, totalTokens)
    BY <1>2 DEF MonitorStep
  <2>3. \A k \in DOMAIN store : store[k] \in CacheEntry
    BY DEF TypeOK
  <2>4. TypeOK'
    BY <1>2, <2>1, <2>2, <2>3, PolicyEffect DEF MonitorStep, TypeOK
  <2>5. BlockedIffEmergency'
    BY <2>2, <2>3, PolicyEffect DEF BlockedIffEmergency
  <2> QED BY <2>4, <2>5
<1>3. ASSUME NEW k \in Keys, NEW t \in TokenCounts, Set(k, t)
      PROVE  IInv'
  <2> DEFINE s == StoreWith(k, t)
  <2>1. /\ DOMAIN s = DOMAIN store \cup {k}
        /\ s[k] = NewEntry(t)
        /\ \A j \in DOMAIN store : j # k => s[j] = store[j]
    BY DEF StoreWith
  <2>2. NewEntry(t) \in CacheEntry
    BY DEF NewEntry, CacheEntry, MaxAge
  <2> HIDE DEF s
  <2>3. /\ DOMAIN s \subseteq Keys
        /\ \A j \in DOMAIN s : s[j] \in CacheEntry
    BY <2>1, <2>2 DEF TypeOK
  <2>5. CASE mode \in {"PRESSURE", "CRITICAL", "EMERGENCY"}
    <3>1. ApplyPolicy(mode, s, TotalWith(k, t))
      BY <1>3, <2>5 DEF Set, s
    <3>2. TypeOK'
      BY <1>3, <2>3, <3>1, PolicyEffect DEF Set, TypeOK
    <3>3. BlockedIffEmergency'
      BY <1>3, <2>3, <3>1, PolicyEffect DEF Set, BlockedIffEmergency
    <3> QED BY <3>2, <3>3
  <2>6. CASE mode \notin {"PRESSURE", "CRITICAL", "EMERGENCY"}
    <3>1. store' = s /\ UNCHANGED <<blocked, mode, monitoring, pressure>>
      BY <1>3, <2>6 DEF Set, s
    <3> QED
      BY <2>3, <3>1 DEF TypeOK, BlockedIffEmergency
  <2> QED BY <2>5, <2>6
<1>4. ASSUME NEW k \in Keys, Get(k)
      PROVE  IInv'
  <2>1. /\ DOMAIN store' = DOMAIN store
        /\ \A j \in DOMAIN store : j # k => store'[j] = store[j]
        /\ store'[k] = [store[k] EXCEPT !.age = 0, !.accesses = @ + 1]
    BY <1>4 DEF Get
  <2>2. store[k] \in CacheEntry /\ store[k].accesses < MaxAccesses
    BY <1>4 DEF Get, TypeOK
  <2>3. store'[k] \in CacheEntry /\ store'[k].accesses # 1
    <3>1. /\ store'[k].accesses = store[k].accesses + 1
          /\ store[k].accesses \in 1..MaxAccesses
      BY <2>1, <2>2 DEF CacheEntry
    <3>2. store[k].accesses + 1 \in 1..MaxAccesses
      BY <2>2, <3>1
    <3>3. 0 \in 0..MaxAge
      BY DEF MaxAge
    <3>4. store'[k] \in CacheEntry
      BY <2>1, <2>2, <3>2, <3>3 DEF CacheEntry
    <3> QED BY <3>1, <3>4
  <2>4. TypeOK'
    BY <1>4, <2>1, <2>3 DEF Get, TypeOK
  <2>5. BlockedIffEmergency'
    BY <1>4, <2>1, <2>3 DEF Get, BlockedIffEmergency
  <2> QED BY <2>4, <2>5
<1>5. ASSUME NEW k \in Keys, Delete(k)
      PROVE  IInv'
  <2>1. /\ DOMAIN store' = DOMAIN store \ {k}
        /\ \A j \in DOMAIN store' : store'[j] = store[j]
    BY <1>5 DEF Delete, Restrict
  <2> QED
    BY <1>5, <2>1 DEF Delete, TypeOK, BlockedIffEmergency
<1>6. CASE Clear
  BY <1>6 DEF Clear, TypeOK, BlockedIffEmergency
<1>7. CASE Tick
  <2>1. /\ DOMAIN store' = DOMAIN store
        /\ \A j \in DOMAIN store : store'[j] =
             [store[j] EXCEPT !.age = IF @ < MaxAge THEN @ + 1 ELSE @]
    BY <1>7 DEF Tick
  <2>2. ASSUME NEW j \in DOMAIN store
        PROVE  store'[j] \in CacheEntry
    <3>1. store[j] \in CacheEntry
      BY DEF TypeOK
    <3> QED BY <2>1, <3>1 DEF CacheEntry, MaxAge
  <2>3. TypeOK'
    BY <1>7, <2>1, <2>2 DEF Tick, TypeOK
  <2>4. BlockedIffEmergency'
    BY <1>7 DEF Tick, BlockedIffEmergency
  <2> QED BY <2>3, <2>4
<1>8. ASSUME NEW p \in Pressures, PressureChange(p)
      PROVE  IInv'
  BY <1>8 DEF PressureChange, TypeOK, BlockedIffEmergency
<1>9. CASE UNCHANGED vars
  BY <1>9 DEF vars, TypeOK, BlockedIffEmergency
<1> QED
  BY <1>1, <1>2, <1>3, <1>4, <1>5, <1>6, <1>7, <1>8, <1>9 DEF Next

\* Every reachable state is well typed.
THEOREM TypeCorrect == Spec => []TypeOK
<1>1. IInv => TypeOK BY DEF IInv
<1> QED BY <1>1, InitIInv, NextIInv, PTL DEF Spec

\* Registrations are refused in EMERGENCY and in no other mode, although the
\* branch written to lift the block is dead code.
THEOREM BlockMatchesMode == Spec => []BlockedIffEmergency
<1>1. IInv => BlockedIffEmergency BY DEF IInv
<1> QED BY <1>1, InitIInv, NextIInv, PTL DEF Spec

\* No operation adds or replaces an entry while the cache stays in EMERGENCY.
THEOREM EmergencyFreezesGrowth == Spec => NoGrowthInEmergency
<1> DEFINE Shrinks ==
      /\ DOMAIN store' \subseteq DOMAIN store
      /\ \A k \in DOMAIN store' : store'[k].tokens = store[k].tokens
<1>1. IInv /\ [Next]_vars
        => [mode = "EMERGENCY" /\ mode' = "EMERGENCY" => Shrinks]_vars
  <2> SUFFICES ASSUME IInv, Next, mode = "EMERGENCY", mode' = "EMERGENCY"
               PROVE  Shrinks
    OBVIOUS
  <2>1. blocked
    BY DEF IInv, BlockedIffEmergency
  <2>2. CASE MonitorStep
    BY <2>2 DEF MonitorStep
  <2>3. ASSUME NEW k \in Keys, Get(k) PROVE Shrinks
    BY <2>3 DEF Get, IInv, TypeOK, CacheEntry
  <2>4. ASSUME NEW k \in Keys, Delete(k) PROVE Shrinks
    BY <2>4 DEF Delete, Restrict
  <2>5. CASE Clear
    BY <2>5 DEF Clear
  <2>6. CASE Tick
    BY <2>6 DEF Tick, IInv, TypeOK, CacheEntry
  <2>7. CASE UNCHANGED store
    BY <2>7
  <2> QED
    BY <2>1, <2>2, <2>3, <2>4, <2>5, <2>6, <2>7
       DEF Next, Start, Stop, Set, PressureChange
<1> QED
  BY <1>1, InitIInv, NextIInv, PTL DEF Spec, NoGrowthInEmergency

\* The cache implements CacheContract: only an accepted set() takes an entry
\* in, and only the monitor starts or ends the refusals.
THEOREM ContractImplemented == Spec => ImplementsContract
<1>1. Init => Contract!CacheInit
  BY DEF Init, Contract!CacheInit
<1>2. IInv /\ [Next]_vars => [Contract!CacheNext]_(Contract!cacheVars)
  <2> SUFFICES ASSUME IInv, Next
               PROVE  Contract!CacheNext \/ UNCHANGED <<DOMAIN store, blocked>>
    BY DEF vars, Contract!cacheVars
  <2>1. CASE MonitorStep
    <3>1. \A k \in DOMAIN store : store[k] \in CacheEntry
      BY DEF IInv, TypeOK
    <3>2. ApplyPolicy(mode', store, totalTokens)
      BY <2>1 DEF MonitorStep
    <3>3. DOMAIN store' \subseteq DOMAIN store /\ blocked' \in BOOLEAN
      BY <3>1, <3>2, PolicyEffect
    <3> QED BY <3>3 DEF Contract!CacheNext, Contract!ModeChange
  <2>2. ASSUME NEW k \in Keys, NEW t \in TokenCounts, Set(k, t)
        PROVE  Contract!CacheNext
    <3>1. ~blocked /\ mode # "EMERGENCY"
      BY <2>2 DEF Set, IInv, BlockedIffEmergency
    <3>2. DOMAIN store' \subseteq DOMAIN store \cup {k} /\ blocked' = blocked
      <4> DEFINE s == StoreWith(k, t)
      <4>1. DOMAIN s = DOMAIN store \cup {k} /\ \A j \in DOMAIN s : s[j] \in CacheEntry
        <5>1. \A j \in DOMAIN store : store[j] \in CacheEntry
          BY DEF IInv, TypeOK
        <5>2. NewEntry(t) \in CacheEntry
          BY IdleAssumption, AccessAssumption DEF NewEntry, CacheEntry, MaxAge
        <5> QED BY <5>1, <5>2 DEF StoreWith
      <4> HIDE DEF s
      <4>2. CASE mode \in {"PRESSURE", "CRITICAL"}
        <5>1. ApplyPolicy(mode, s, TotalWith(k, t))
          BY <2>2, <4>2 DEF Set, s
        <5>2. DOMAIN store' \subseteq DOMAIN s /\ blocked' = (mode = "EMERGENCY")
          BY <4>1, <5>1, PolicyEffect
        <5> QED BY <3>1, <4>1, <5>2 DEF IInv, TypeOK
      <4>3. CASE mode \notin {"PRESSURE", "CRITICAL"}
        BY <2>2, <3>1, <4>1, <4>3 DEF Set, s
      <4> QED BY <4>2, <4>3
    <3>3. Contract!Put(k)
      BY <3>1, <3>2 DEF Contract!Put
    <3> QED BY <3>3 DEF Contract!CacheNext
  <2>3. ASSUME NEW k \in Keys, Get(k) PROVE UNCHANGED <<DOMAIN store, blocked>>
    BY <2>3 DEF Get
  <2>4. ASSUME NEW k \in Keys, Delete(k) PROVE Contract!CacheNext
    <3>1. Contract!Drop({k})
      BY <2>4 DEF Delete, Restrict, Contract!Drop
    <3> QED BY <3>1 DEF Contract!CacheNext
  <2>5. CASE Clear
    <3>1. DOMAIN store \subseteq Keys
      BY DEF IInv, TypeOK
    <3>2. DOMAIN store' = {} /\ blocked' = blocked
      BY <2>5 DEF Clear
    <3>3. Contract!Drop(Keys)
      BY <3>1, <3>2 DEF Contract!Drop
    <3> QED BY <3>3 DEF Contract!CacheNext
  <2>6. CASE Tick
    BY <2>6 DEF Tick
  <2>7. CASE UNCHANGED <<store, blocked>>
    BY <2>7
  <2> QED
    BY <2>1, <2>2, <2>3, <2>4, <2>5, <2>6, <2>7 DEF Next, Start, Stop, PressureChange
<1> QED
  BY <1>1, <1>2, InitIInv, NextIInv, PTL DEF Spec, ImplementsContract, Contract!CacheSpec

-----------------------------------------------------------------------------
(* The token counter *)

\* The tokens of s, one by one: TokensIn counts this set.
Units(s) == UNION {{k} \X (1..s[k].tokens) : k \in DOMAIN s}

\* A store whose tokens can be counted
Countable(s) == IsFiniteSet(DOMAIN s) /\ \A k \in DOMAIN s : s[k].tokens \in Nat

LEMMA UnitsAre ==
    ASSUME NEW s
    PROVE  \A u : u \in Units(s) <=>
             \E k \in DOMAIN s : \E i \in 1..s[k].tokens : u = <<k, i>>
BY DEF Units

LEMMA UnitsFinite ==
    ASSUME NEW s, Countable(s)
    PROVE  IsFiniteSet(Units(s)) /\ TokensIn(s) = Cardinality(Units(s)) /\ TokensIn(s) \in Nat
<1> DEFINE U(k) == {k} \X (1..s[k].tokens)
           T == {U(k) : k \in DOMAIN s}
           f == [k \in DOMAIN s |-> U(k)]
<1>1. f \in Surjection(DOMAIN s, T)
  BY DEF Surjection
<1>2. IsFiniteSet(T)
  BY <1>1, FS_Surjection DEF Countable
<1>3. ASSUME NEW k \in DOMAIN s PROVE IsFiniteSet(U(k))
  <2>1. IsFiniteSet(1..s[k].tokens)
    BY FS_Interval DEF Countable
  <2> QED BY <2>1, FS_Singleton, FS_Product
<1>4. IsFiniteSet(UNION T)
  <2>1. \A X \in T : IsFiniteSet(X)
    BY <1>3
  <2> HIDE DEF T
  <2> QED BY <1>2, <2>1, FS_UNION
<1>5. UNION T = Units(s) /\ TokensIn(s) = Cardinality(Units(s))
  BY DEF Units, TokensIn
<1> QED BY <1>4, <1>5, FS_CardinalityType

\* Stores with the same keys and the same tokens per key count the same.
LEMMA SameTokens ==
    ASSUME NEW s, NEW r, DOMAIN s = DOMAIN r,
           \A k \in DOMAIN r : s[k].tokens = r[k].tokens
    PROVE  TokensIn(s) = TokensIn(r)
<1>1. {{k} \X (1..s[k].tokens) : k \in DOMAIN s} = {{k} \X (1..r[k].tokens) : k \in DOMAIN r}
  OBVIOUS
<1> QED BY <1>1 DEF TokensIn

LEMMA NoTokens == ASSUME NEW s, DOMAIN s = {} PROVE TokensIn(s) = 0
<1>1. Units(s) = {}
  BY DEF Units
<1> QED BY <1>1, FS_EmptySet DEF TokensIn, Units

LEMMA RestrictIs ==
    ASSUME NEW s, NEW K \in SUBSET DOMAIN s
    PROVE  /\ DOMAIN Restrict(s, K) = K
           /\ \A k \in K : Restrict(s, K)[k] = s[k]
           /\ Countable(s) => Countable(Restrict(s, K))
<1>1. /\ DOMAIN Restrict(s, K) = K
      /\ \A k \in K : Restrict(s, K)[k] = s[k]
  BY DEF Restrict
<1>2. Countable(s) => Countable(Restrict(s, K))
  BY <1>1, FS_Subset DEF Countable
<1> QED BY <1>1, <1>2

\* The tokens of a store are those of any part of it and those of the rest.
LEMMA TokensSplit ==
    ASSUME NEW s, Countable(s), NEW V \in SUBSET DOMAIN s
    PROVE  TokensIn(s) = TokensIn(Restrict(s, DOMAIN s \ V)) + TokensIn(Restrict(s, V))
<1> DEFINE a == Restrict(s, DOMAIN s \ V)
           b == Restrict(s, V)
<1>1. /\ DOMAIN a = DOMAIN s \ V /\ (\A k \in DOMAIN a : a[k] = s[k]) /\ Countable(a)
      /\ DOMAIN b = V /\ (\A k \in DOMAIN b : b[k] = s[k]) /\ Countable(b)
  BY RestrictIs
<1> HIDE DEF a, b
<1>2. Units(s) = Units(a) \cup Units(b)
  <2>1. ASSUME NEW u PROVE u \in Units(s) <=> u \in Units(a) \/ u \in Units(b)
    BY <1>1, UnitsAre
  <2> QED BY <2>1
<1>3. Units(a) \cap Units(b) = {}
  BY <1>1, UnitsAre
<1>4. /\ IsFiniteSet(Units(a)) /\ TokensIn(a) = Cardinality(Units(a)) /\ TokensIn(a) \in Nat
      /\ IsFiniteSet(Units(b)) /\ TokensIn(b) = Cardinality(Units(b)) /\ TokensIn(b) \in Nat
      /\ TokensIn(s) = Cardinality(Units(s))
  BY <1>1, UnitsFinite
<1>5. Cardinality(Units(s)) = Cardinality(Units(a)) + Cardinality(Units(b)) - 0
  <2>1. Cardinality(Units(a) \cap Units(b)) = 0
    BY <1>3, FS_EmptySet
  <2>2. Cardinality(Units(a) \cup Units(b)) =
          Cardinality(Units(a)) + Cardinality(Units(b)) - Cardinality(Units(a) \cap Units(b))
    BY <1>4, FS_Union
  <2> QED
    BY <1>2, <2>1, <2>2
<1>6. TokensIn(s) = TokensIn(a) + TokensIn(b)
  BY <1>4, <1>5
<1> QED BY <1>6 DEF a, b

\* A store of one entry counts that entry's tokens.
LEMMA TokensOfOne ==
    ASSUME NEW s, NEW k \in DOMAIN s, DOMAIN s = {k}, s[k].tokens \in Nat
    PROVE  TokensIn(s) = s[k].tokens
<1> DEFINE n == s[k].tokens
<1>1. Units(s) = {k} \X (1..n) /\ TokensIn(s) = Cardinality(Units(s)) /\ n \in Nat
  BY DEF Units, TokensIn
<1> HIDE DEF n
<1>2. IsFiniteSet(1..n) /\ Cardinality(1..n) = n
  <2>1. Cardinality(1..n) = IF 1 > n THEN 0 ELSE n - 1 + 1
    BY <1>1, FS_Interval
  <2> QED BY <1>1, <2>1, FS_Interval
<1>3. Cardinality({k} \X (1..n)) = Cardinality({k}) * Cardinality(1..n)
  BY <1>2, FS_Singleton, FS_Product
<1>4. Cardinality({k}) = 1
  BY FS_Singleton
<1>5. Cardinality({k} \X (1..n)) = n
  BY <1>1, <1>2, <1>3, <1>4
<1> QED BY <1>1, <1>5 DEF n

\* What taking one entry out takes off the count
LEMMA TokensWithout ==
    ASSUME NEW s, Countable(s), NEW k \in DOMAIN s
    PROVE  TokensIn(Restrict(s, DOMAIN s \ {k})) = TokensIn(s) - s[k].tokens
<1> DEFINE a == Restrict(s, DOMAIN s \ {k})
           b == Restrict(s, {k})
<1>1. TokensIn(s) = TokensIn(a) + TokensIn(b)
  BY TokensSplit
<1>2. DOMAIN b = {k} /\ b[k] = s[k] /\ Countable(a)
  BY RestrictIs
<1>3. TokensIn(b) = s[k].tokens /\ s[k].tokens \in Nat
  BY <1>2, TokensOfOne DEF Countable
<1>4. TokensIn(a) \in Nat
  BY <1>2, UnitsFinite
<1> QED BY <1>1, <1>3, <1>4

\* The keys that a mode evicts are keys of the store.
LEMMA VictimsHeld ==
    ASSUME NEW m, NEW s, NEW V \in VictimSets(m, s)
    PROVE  V \subseteq DOMAIN s
BY DEF VictimSets, Heaviest, Idle

\* The policy takes off the counter what it takes out of the store.
LEMMA PolicyCounts ==
    ASSUME NEW m, NEW s, NEW tot, ApplyPolicy(m, s, tot), Countable(s),
           \A k \in DOMAIN s : s[k] \in CacheEntry, tot = TokensIn(s)
    PROVE  IsFiniteSet(DOMAIN store') /\ totalTokens' = TokensIn(store')
<1>1. PICK V \in VictimSets(m, s) :
        /\ store' = MarkOffloaded(m, Restrict(s, DOMAIN s \ V))
        /\ totalTokens' = tot - TokensIn(Restrict(s, V))
  BY DEF ApplyPolicy
<1>2. V \in SUBSET DOMAIN s
  BY VictimsHeld
<1> DEFINE r == Restrict(s, DOMAIN s \ V)
<1>3. DOMAIN r \subseteq DOMAIN s /\ (\A k \in DOMAIN r : r[k] = s[k]) /\ Countable(r)
  BY RestrictIs
<1>4. TokensIn(s) = TokensIn(r) + TokensIn(Restrict(s, V))
  BY <1>2, TokensSplit
<1>5. TokensIn(r) \in Nat /\ TokensIn(Restrict(s, V)) \in Nat
  BY <1>2, <1>3, UnitsFinite, RestrictIs
<1> HIDE DEF r
<1>6. totalTokens' = TokensIn(r)
  BY <1>1, <1>4, <1>5
<1>7. /\ DOMAIN store' = DOMAIN r
      /\ \A k \in DOMAIN r : store'[k] =
           [r[k] EXCEPT !.offloaded = @ \/ (m = "CRITICAL" /\ k \in Idle(r, IdleShort))]
  BY <1>1 DEF MarkOffloaded, r
<1>8. \A k \in DOMAIN r : store'[k].tokens = r[k].tokens
  BY <1>3, <1>7 DEF CacheEntry
<1>9. TokensIn(store') = TokensIn(r)
  BY <1>7, <1>8, SameTokens
<1> QED BY <1>3, <1>6, <1>7, <1>9 DEF Countable

\* The counter is inductive beside the types and the finiteness of the store.
Counted == IsFiniteSet(DOMAIN store) /\ TokenAccounting

LEMMA InitCounted == Init => Counted
BY NoTokens, FS_EmptySet DEF Init, Counted, TokenAccounting

LEMMA NextCounted == IInv /\ Counted /\ [Next]_vars => Counted'
<1> SUFFICES ASSUME IInv, Counted, [Next]_vars PROVE Counted'
  OBVIOUS
<1>1. /\ \A k \in DOMAIN store : store[k] \in CacheEntry
      /\ Countable(store)
      /\ totalTokens = TokensIn(store)
  BY TokensAssumption DEF IInv, TypeOK, Counted, Countable, CacheEntry, TokenAccounting
<1>2. CASE UNCHANGED <<store, totalTokens>>
  BY <1>2 DEF Counted, TokenAccounting
<1>3. CASE MonitorStep
  BY <1>1, <1>3, PolicyCounts DEF MonitorStep, Counted, TokenAccounting
<1>4. ASSUME NEW k \in Keys, NEW t \in TokenCounts, Set(k, t) PROVE Counted'
  <2> DEFINE s == StoreWith(k, t)
  <2>1. /\ DOMAIN s = DOMAIN store \cup {k}
        /\ s[k] = NewEntry(t)
        /\ \A j \in DOMAIN store : j # k => s[j] = store[j]
    BY DEF StoreWith
  <2>2. NewEntry(t) \in CacheEntry /\ NewEntry(t).tokens = t /\ t \in Nat
    BY IdleAssumption, AccessAssumption, TokensAssumption DEF NewEntry, CacheEntry, MaxAge
  <2> HIDE DEF s
  <2>3. Countable(s) /\ \A j \in DOMAIN s : s[j] \in CacheEntry
    <3>1. IsFiniteSet(DOMAIN s)
      BY <1>1, <2>1, FS_AddElement DEF Countable
    <3> QED BY <1>1, <2>1, <2>2, <3>1 DEF Countable
  <2>4. TokensIn(Restrict(s, DOMAIN s \ {k})) = TokensIn(Restrict(store, DOMAIN store \ {k}))
    <3> DEFINE a == Restrict(s, DOMAIN s \ {k})
               b == Restrict(store, DOMAIN store \ {k})
    <3>1. /\ DOMAIN a = DOMAIN b
          /\ \A j \in DOMAIN b : a[j] = b[j]
      BY <2>1 DEF Restrict
    <3> HIDE DEF a, b
    <3>2. TokensIn(a) = TokensIn(b)
      BY <3>1, SameTokens
    <3> QED BY <3>2 DEF a, b
  <2>5. TokensIn(s) = TokensIn(Restrict(store, DOMAIN store \ {k})) + t
    <3>1. k \in DOMAIN s /\ s[k].tokens = t
      BY <2>1, <2>2
    <3>2. TokensIn(Restrict(s, DOMAIN s \ {k})) = TokensIn(s) - t
      BY <2>3, <3>1, TokensWithout
    <3>3. TokensIn(s) \in Nat
      BY <2>3, UnitsFinite
    <3> QED BY <2>2, <2>4, <3>2, <3>3
  <2>6. TotalWith(k, t) = TokensIn(s)
    <3>1. TokensIn(store) \in Nat
      BY <1>1, UnitsFinite
    <3>2. CASE k \in DOMAIN store
      <4>1. TokensIn(Restrict(store, DOMAIN store \ {k})) = TokensIn(store) - store[k].tokens
        BY <1>1, <3>2, TokensWithout
      <4>2. store[k].tokens \in Nat
        BY <1>1, <3>2 DEF Countable
      <4> QED BY <1>1, <2>2, <2>5, <3>1, <3>2, <4>1, <4>2 DEF TotalWith
    <3>3. CASE k \notin DOMAIN store
      <4>1. TokensIn(Restrict(store, DOMAIN store \ {k})) = TokensIn(store)
        <5> DEFINE b == Restrict(store, DOMAIN store \ {k})
        <5>1. DOMAIN b = DOMAIN store /\ \A j \in DOMAIN store : b[j].tokens = store[j].tokens
          BY <3>3 DEF Restrict
        <5> HIDE DEF b
        <5>2. TokensIn(b) = TokensIn(store)
          BY <5>1, SameTokens
        <5> QED BY <5>2 DEF b
      <4> QED BY <1>1, <2>2, <2>5, <3>1, <3>3, <4>1 DEF TotalWith
    <3> QED BY <3>2, <3>3
  <2>7. CASE mode \in {"PRESSURE", "CRITICAL", "EMERGENCY"}
    <3>1. ApplyPolicy(mode, s, TotalWith(k, t))
      BY <1>4, <2>7 DEF Set, s
    <3> QED BY <2>3, <2>6, <3>1, PolicyCounts DEF Counted, TokenAccounting
  <2>8. CASE mode \notin {"PRESSURE", "CRITICAL", "EMERGENCY"}
    <3>1. store' = s /\ totalTokens' = TotalWith(k, t)
      BY <1>4, <2>8 DEF Set, s
    <3> QED BY <2>3, <2>6, <3>1 DEF Counted, TokenAccounting, Countable
  <2> QED BY <2>7, <2>8
<1>5. ASSUME NEW k \in Keys, Get(k) PROVE Counted'
  <2>1. /\ DOMAIN store' = DOMAIN store
        /\ \A j \in DOMAIN store : store'[j].tokens = store[j].tokens
        /\ totalTokens' = totalTokens
    BY <1>1, <1>5 DEF Get, CacheEntry
  <2> QED BY <1>1, <2>1, SameTokens DEF Counted, TokenAccounting
<1>6. ASSUME NEW k \in Keys, Delete(k) PROVE Counted'
  <2>1. /\ k \in DOMAIN store
        /\ store' = Restrict(store, DOMAIN store \ {k})
        /\ totalTokens' = totalTokens - store[k].tokens
    BY <1>6 DEF Delete
  <2>2. Countable(store')
    BY <1>1, <2>1, RestrictIs
  <2> QED BY <1>1, <2>1, <2>2, TokensWithout DEF Counted, TokenAccounting, Countable
<1>7. CASE Clear
  BY <1>7, NoTokens, FS_EmptySet DEF Clear, Counted, TokenAccounting
<1>8. CASE Tick
  <2>1. /\ DOMAIN store' = DOMAIN store
        /\ \A j \in DOMAIN store : store'[j].tokens = store[j].tokens
        /\ totalTokens' = totalTokens
    BY <1>1, <1>8 DEF Tick, CacheEntry
  <2> QED BY <1>1, <2>1, SameTokens DEF Counted, TokenAccounting
<1> QED
  BY <1>2, <1>3, <1>4, <1>5, <1>6, <1>7, <1>8 DEF Next, Start, Stop, PressureChange, vars

\* The running total of set, overwrite, delete, clear and every eviction is
\* the number of tokens the cache holds.
THEOREM CounterIsExact == Spec => []TokenAccounting
<1>1. Init => IInv /\ Counted
  BY InitIInv, InitCounted
<1>2. (IInv /\ Counted) /\ [Next]_vars => (IInv /\ Counted)'
  BY NextIInv, NextCounted
<1>3. IInv /\ Counted => TokenAccounting
  BY DEF Counted
<1> QED BY <1>1, <1>2, <1>3, PTL DEF Spec

\* The part of the store that PRESSURE evicts: at least one entry, and no more
\* than the share unless it is that one.
LEMMA TargetIsShare ==
    ASSUME NEW n \in Nat
    PROVE  /\ PressureTarget(n) \in Nat \ {0}
           /\ PressureTarget(n) * ShareDen <= n * ShareNum \/ PressureTarget(n) = 1
<1> DEFINE p == n * ShareNum
           d == ShareDen
           q == p \div d
<1>1. p \in Nat /\ d \in Nat \ {0}
  BY ShareAssumption
<1> HIDE DEF p, d
<1>2. q \in Nat /\ q * d <= p
  BY <1>1
<1> HIDE DEF q
<1>3. PressureTarget(n) = IF q = 0 THEN 1 ELSE q
  BY DEF PressureTarget, q, p, d
<1>4. q = 0 \/ PressureTarget(n) * d <= p
  BY <1>2, <1>3
<1> QED BY <1>2, <1>3, <1>4 DEF p, d

\* What the policy takes out of a store is what its mode promises.
LEMMA PolicyIsJustified ==
    ASSUME NEW m, NEW s, NEW tot, ApplyPolicy(m, s, tot), IsFiniteSet(DOMAIN s)
    PROVE  Justified(m, s, store')
<1>1. PICK V \in VictimSets(m, s) : store' = MarkOffloaded(m, Restrict(s, DOMAIN s \ V))
  BY DEF ApplyPolicy
<1>2. V \subseteq DOMAIN s
  BY VictimsHeld
<1>3. DOMAIN store' = DOMAIN s \ V
  BY <1>1 DEF MarkOffloaded, Restrict
<1>4. DOMAIN s \ DOMAIN store' = V
  BY <1>2, <1>3
<1>5. m \in {"RELAXED", "CRITICAL"} => V = {}
  BY DEF VictimSets
<1>6. m = "NORMAL" => V = {k \in DOMAIN s : s[k].age > IdleLong}
  BY DEF VictimSets, Idle
<1>7. m = "EMERGENCY" => V = {k \in DOMAIN s : s[k].age > IdleShort}
  BY DEF VictimSets, Idle
<1>8. ASSUME m = "PRESSURE"
      PROVE  /\ DOMAIN s # {} => V # {}
             /\ Cardinality(V) * ShareDen <= Cardinality(DOMAIN s) * ShareNum
                  \/ Cardinality(V) = 1
             /\ \A k \in V, j \in DOMAIN s \ V :
                  s[k].tokens * s[j].accesses >= s[j].tokens * s[k].accesses
  <2>1. V \in Heaviest(s)
    BY <1>8 DEF VictimSets
  <2> DEFINE n == Cardinality(DOMAIN s)
  <2>2. n \in Nat
    BY FS_CardinalityType
  <2>3. CASE DOMAIN s = {}
    <3>1. V = {} /\ Cardinality(V) = 0 /\ n = 0
      BY <1>2, <2>3, FS_EmptySet
    <3>2. 0 * ShareDen <= 0 * ShareNum
      BY ShareAssumption
    <3> QED BY <2>3, <3>1, <3>2
  <2>4. CASE DOMAIN s # {}
    <3>1. /\ Cardinality(V) = PressureTarget(n)
          /\ \A v \in V, k \in DOMAIN s \ V : AtLeastAsHeavy(s[v], s[k])
      BY <2>1, <2>4 DEF Heaviest
    <3>2. Cardinality(V) # 0 /\ (Cardinality(V) * ShareDen <= n * ShareNum \/ Cardinality(V) = 1)
      BY <2>2, <3>1, TargetIsShare
    <3>3. V # {}
      BY <3>2, FS_EmptySet
    <3> QED BY <3>1, <3>2, <3>3 DEF AtLeastAsHeavy
  <2> QED BY <2>3, <2>4
<1> QED BY <1>3, <1>4, <1>5, <1>6, <1>7, <1>8 DEF Justified

\* Whatever the pressure does between the monitor's iterations, a mode change evicts
\* what the mode entered promises, and a set evicts under PRESSURE only, and then
\* what PRESSURE promises of the store with the new entry in it.
THEOREM EvictionsAreJustified == Spec => EvictionJustified
<1> DEFINE SetJustified(k, t) ==
      IF mode = "PRESSURE"
      THEN Justified("PRESSURE", StoreWith(k, t), store')
      ELSE DOMAIN store' = DOMAIN store \cup {k}
<1>1. Counted /\ MonitorStep => Justified(mode', store, store')
  BY PolicyIsJustified DEF MonitorStep, Counted
<1>2. ASSUME IInv, Counted, NEW k \in Keys, NEW t \in TokenCounts, Set(k, t)
      PROVE  SetJustified(k, t)
  <2> DEFINE s == StoreWith(k, t)
  <2>1. DOMAIN s = DOMAIN store \cup {k}
    BY DEF StoreWith
  <2>2. IsFiniteSet(DOMAIN s)
    BY <1>2, <2>1, FS_AddElement DEF Counted
  <2>3. mode # "EMERGENCY"
    BY <1>2 DEF IInv, BlockedIffEmergency, Set
  <2>4. CASE mode = "PRESSURE"
    <3>1. ApplyPolicy("PRESSURE", s, TotalWith(k, t))
      BY <1>2, <2>4 DEF Set
    <3> HIDE DEF s
    <3>2. Justified("PRESSURE", s, store')
      BY <2>2, <3>1, PolicyIsJustified
    <3> QED BY <2>4, <3>2 DEF s
  <2>5. CASE mode = "CRITICAL"
    <3>1. ApplyPolicy("CRITICAL", s, TotalWith(k, t))
      BY <1>2, <2>5 DEF Set
    <3> HIDE DEF s
    <3>2. PICK V \in VictimSets("CRITICAL", s) :
             store' = MarkOffloaded("CRITICAL", Restrict(s, DOMAIN s \ V))
      BY <3>1 DEF ApplyPolicy
    <3>3. V = {}
      BY <3>2 DEF VictimSets
    <3>4. DOMAIN store' = DOMAIN s
      BY <3>2, <3>3 DEF MarkOffloaded, Restrict
    <3> QED BY <2>1, <2>5, <3>4
  <2>6. CASE mode \notin {"PRESSURE", "CRITICAL"}
    <3>1. store' = s
      BY <1>2, <2>3, <2>6 DEF Set
    <3> QED BY <2>1, <2>6, <3>1
  <2> QED BY <2>4, <2>5, <2>6
<1>3. Init => IInv /\ Counted
  BY InitIInv, InitCounted
<1>4. (IInv /\ Counted) /\ [Next]_vars => (IInv /\ Counted)'
  BY NextIInv, NextCounted
<1>5. (IInv /\ Counted) /\ [Next]_vars =>
        [/\ MonitorStep => Justified(mode', store, store')
         /\ \A k \in Keys, t \in TokenCounts : Set(k, t) => SetJustified(k, t)]_vars
  BY <1>1, <1>2
<1> QED BY <1>3, <1>4, <1>5, PTL DEF Spec, EvictionJustified
=============================================================================
