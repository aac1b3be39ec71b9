--------------------------- MODULE LSHIndexProofs ---------------------------
(***************************************************************************)
(* For any agents, hashes, prompts and tasks: the LSH index's dictionaries *)
(* agree, no clear takes a block from an owner it shares it with, and      *)
(* answers name the others who have a block and never the asking agent.    *)
(***************************************************************************)
EXTENDS LSHIndex, TLAPS

Inv == TypeOK /\ StoreMatchesLists /\ AnswersAreOthers

\* What indexing does to the dictionaries, entry by entry.
LEMMA IndexEffect ==
    ASSUME NEW o, NEW H, IndexPrompt(o, H)
    PROVE  /\ DOMAIN blockStore' = DOMAIN blockStore \cup H
           /\ \A h \in H : blockStore'[h] = OwnersOf(h) \cup {o}
           /\ \A h \in DOMAIN blockStore \ H : blockStore'[h] = blockStore[h]
           /\ DOMAIN agentBlocks' = DOMAIN agentBlocks \cup {o}
           /\ agentBlocks'[o] = H
           /\ \A x \in DOMAIN agentBlocks \ {o} : agentBlocks'[x] = agentBlocks[x]
BY DEF IndexPrompt

\* What clearing does to the dictionaries, entry by entry.
LEMMA ClearEffect ==
    ASSUME NEW O, ClearOwners(O)
    PROVE  /\ DOMAIN blockStore' = {h \in DOMAIN blockStore : Remaining(h, O) # {}}
           /\ \A h \in DOMAIN blockStore' : blockStore'[h] = Remaining(h, O)
           /\ DOMAIN agentBlocks' = DOMAIN agentBlocks \ O
           /\ \A x \in DOMAIN agentBlocks' : agentBlocks'[x] = agentBlocks[x]
BY DEF ClearOwners

\* An owner that is not cleared keeps every block.
LEMMA OthersRemain ==
    ASSUME NEW O, ClearOwners(O), NEW h \in DOMAIN blockStore,
           NEW o \in blockStore[h], o \notin O
    PROVE  h \in DOMAIN blockStore' /\ o \in blockStore'[h]
<1>1. o \in Remaining(h, O)
  BY DEF Remaining
<1> QED BY <1>1, ClearEffect

LEMMA IndexKeepsStore ==
    ASSUME LSHTypes, StoreMatchesLists, NEW o \in Owners, NEW H \in Prompts,
           IndexPrompt(o, H)
    PROVE  LSHTypes' /\ StoreMatchesLists'
<1>0. /\ DOMAIN blockStore' = DOMAIN blockStore \cup H
      /\ \A h \in H : blockStore'[h] = OwnersOf(h) \cup {o}
      /\ \A h \in DOMAIN blockStore \ H : blockStore'[h] = blockStore[h]
      /\ DOMAIN agentBlocks' = DOMAIN agentBlocks \cup {o}
      /\ agentBlocks'[o] = H
      /\ \A x \in DOMAIN agentBlocks \ {o} : agentBlocks'[x] = agentBlocks[x]
  BY DEF IndexPrompt
<1>1. H \subseteq Hashes
  BY PromptsAssumption
<1>2. LSHTypes'
  <2>1. DOMAIN blockStore' \subseteq Hashes
    BY <1>0, <1>1 DEF LSHTypes
  <2>2. \A h \in DOMAIN blockStore' : blockStore'[h] \subseteq Owners
    <3>1. \A h \in H : OwnersOf(h) \subseteq Owners
      BY DEF LSHTypes, OwnersOf
    <3> QED BY <1>0, <3>1 DEF LSHTypes
  <2>3. DOMAIN agentBlocks' \subseteq Owners
    BY <1>0 DEF LSHTypes
  <2>4. \A x \in DOMAIN agentBlocks' : agentBlocks'[x] \in Prompts
    BY <1>0 DEF LSHTypes
  <2> QED BY <2>1, <2>2, <2>3, <2>4 DEF LSHTypes
<1>3. \A x \in DOMAIN agentBlocks' : \A h \in agentBlocks'[x] :
            h \in DOMAIN blockStore' /\ x \in blockStore'[h]
  <2> SUFFICES ASSUME NEW x \in DOMAIN agentBlocks', NEW h \in agentBlocks'[x]
               PROVE  h \in DOMAIN blockStore' /\ x \in blockStore'[h]
    OBVIOUS
  <2>1. CASE x = o
    BY <2>1, <1>0
  <2>2. CASE x # o
    <3>1. x \in DOMAIN agentBlocks /\ h \in agentBlocks[x]
      BY <2>2, <1>0
    <3>2. x \in OwnersOf(h)
      BY <3>1 DEF StoreMatchesLists
    <3>3. h \in DOMAIN blockStore /\ x \in blockStore[h]
      BY <3>2 DEF OwnersOf
    <3> QED BY <3>2, <3>3, <1>0
  <2> QED BY <2>1, <2>2
<1>4. \A h \in DOMAIN blockStore' : blockStore'[h] # {}
  <2>1. \A h \in DOMAIN blockStore : blockStore[h] # {}
    BY DEF StoreMatchesLists
  <2> QED BY <1>0, <2>1
<1> QED BY <1>2, <1>3, <1>4 DEF StoreMatchesLists, OwnersOf

LEMMA ClearKeepsStore ==
    ASSUME LSHTypes, StoreMatchesLists, NEW O, ClearOwners(O)
    PROVE  LSHTypes' /\ StoreMatchesLists'
<1>1. LSHTypes'
  <2>1. DOMAIN blockStore' \subseteq Hashes
    BY ClearEffect DEF LSHTypes
  <2>2. \A h \in DOMAIN blockStore' : blockStore'[h] \subseteq Owners
    BY ClearEffect DEF LSHTypes, Remaining
  <2>3. DOMAIN agentBlocks' \subseteq Owners
    BY ClearEffect DEF LSHTypes
  <2>4. \A x \in DOMAIN agentBlocks' : agentBlocks'[x] \in Prompts
    BY ClearEffect DEF LSHTypes
  <2> QED BY <2>1, <2>2, <2>3, <2>4 DEF LSHTypes
<1>2. \A x \in DOMAIN agentBlocks' : \A h \in agentBlocks'[x] :
            h \in DOMAIN blockStore' /\ x \in blockStore'[h]
  <2> SUFFICES ASSUME NEW x \in DOMAIN agentBlocks', NEW h \in agentBlocks'[x]
               PROVE  h \in DOMAIN blockStore' /\ x \in blockStore'[h]
    OBVIOUS
  <2>1. x \in DOMAIN agentBlocks /\ x \notin O /\ h \in agentBlocks[x]
    BY ClearEffect
  <2>2. x \in OwnersOf(h)
    BY <2>1 DEF StoreMatchesLists
  <2>3. h \in DOMAIN blockStore /\ x \in blockStore[h]
    BY <2>2 DEF OwnersOf
  <2> QED BY <2>1, <2>3, OthersRemain
<1>3. \A h \in DOMAIN blockStore' : blockStore'[h] # {}
  <2>1. /\ DOMAIN blockStore' = {h \in DOMAIN blockStore : Remaining(h, O) # {}}
        /\ \A h \in DOMAIN blockStore' : blockStore'[h] = Remaining(h, O)
    BY ClearEffect
  <2> QED BY <2>1
<1> QED BY <1>1, <1>2, <1>3 DEF StoreMatchesLists, OwnersOf

LEMMA CloseToItself ==
    ASSUME NEW h \in Hashes
    PROVE  Close(h, h)
<1>1. \A d : d = 0 => d <= Threshold
  <2>1. Threshold \in Nat
    BY DistanceAssumption
  <2> QED BY <2>1
<1>2. Distance[h, h] = 0
  BY DistanceAssumption
<1>3. Distance[h, h] <= Threshold
  BY <1>1, <1>2, Zenon
<1> QED BY <1>3, Zenon DEF Close

\* The answer computed from a store that matches its lists.
LEMMA FindAnswers ==
    ASSUME TypeOK, StoreMatchesLists, NEW t \in Tasks, FindReturns(t)
    PROVE  AnswersAreOthers'
<1> DEFINE H == task[t].prompt
           a == task[t].exclude
<1>1. task[t] \in TaskStates /\ task[t].pc = "finding"
  BY DEF TypeOK, FindReturns
<1>2. H \in Prompts
  BY <1>1 DEF TaskStates, Idle
<1>3. /\ found'.given /\ found'.asker = a /\ found'.prompt = H
      /\ found'.matches = Matches(H, a)
      /\ blockStore' = blockStore /\ agentBlocks' = agentBlocks
  BY DEF FindReturns, lshVars
<1>4. \A m \in Matches(H, a) : m[3][1] # a
  BY DEF Matches, Excluded
<1>5. \A o \in DOMAIN agentBlocks : \A h \in agentBlocks[o] \cap H :
            o[1] # a => <<h, h, o>> \in Matches(H, a)
  <2> SUFFICES ASSUME NEW o \in DOMAIN agentBlocks, NEW h \in agentBlocks[o] \cap H,
                      o[1] # a
               PROVE  <<h, h, o>> \in Matches(H, a)
    OBVIOUS
  <2>1. o \in OwnersOf(h) /\ o \in Owners
    BY DEF StoreMatchesLists, TypeOK, LSHTypes
  <2>2. h \in DOMAIN blockStore /\ o \in blockStore[h]
    BY <2>1 DEF OwnersOf
  <2>3. h \in Hashes
    BY <2>2 DEF TypeOK, LSHTypes
  <2>4. Close(h, h)
    BY <2>3, CloseToItself
  <2>5. ~Excluded(o, a)
    BY DEF Excluded
  <2> HIDE DEF H, a
  <2> QED BY <2>1, <2>2, <2>4, <2>5 DEF Matches
<1> HIDE DEF H, a
<1> QED BY <1>3, <1>4, <1>5 DEF AnswersAreOthers

LEMMA InitInv == Init => Inv
BY DEF Init, LSHInit, NoDict, Inv, TypeOK, LSHTypes, StoreMatchesLists,
       AnswersAreOthers, NotAsked, TaskStates

LEMMA NextInv == Inv /\ [Next]_vars => Inv'
<1> SUFFICES ASSUME Inv, [Next]_vars PROVE Inv'
  OBVIOUS
<1>0. TypeOK /\ LSHTypes /\ StoreMatchesLists /\ AnswersAreOthers
  BY DEF Inv, TypeOK
<1>1. ASSUME NEW t \in Tasks, NEW o \in Owners, NEW H \in Prompts, CallIndex(t, o, H)
      PROVE  Inv'
  <2>1. task' \in [Tasks -> TaskStates]
    BY <1>0, <1>1 DEF TypeOK, CallIndex, TaskStates
  <2>2. UNCHANGED <<blockStore, agentBlocks, found>>
    BY <1>1 DEF CallIndex, lshVars
  <2> QED BY <1>0, <2>1, <2>2
      DEF Inv, TypeOK, LSHTypes, StoreMatchesLists, OwnersOf, AnswersAreOthers
<1>2. ASSUME NEW t \in Tasks, NEW a \in Agents, NEW H \in Prompts, CallFind(t, H, a)
      PROVE  Inv'
  <2>1. task' \in [Tasks -> TaskStates]
    BY <1>0, <1>2 DEF TypeOK, CallFind, TaskStates
  <2>2. UNCHANGED <<blockStore, agentBlocks, found>>
    BY <1>2 DEF CallFind, lshVars
  <2> QED BY <1>0, <2>1, <2>2
      DEF Inv, TypeOK, LSHTypes, StoreMatchesLists, OwnersOf, AnswersAreOthers
<1>3. ASSUME NEW t \in Tasks, IndexReturns(t) PROVE Inv'
  <2>1. task[t] \in TaskStates /\ task[t].pc = "indexing"
    BY <1>0, <1>3 DEF TypeOK, IndexReturns
  <2>2. task[t].owner \in Owners /\ task[t].prompt \in Prompts
    BY <2>1 DEF TaskStates, Idle
  <2>3. LSHTypes' /\ StoreMatchesLists'
    BY <1>0, <1>3, <2>2, IndexKeepsStore DEF IndexReturns
  <2>4. task' \in [Tasks -> TaskStates]
    BY <1>0, <1>3 DEF TypeOK, IndexReturns, TaskStates
  <2>5. AnswersAreOthers'
    BY <1>3 DEF IndexReturns, AnswersAreOthers, NotAsked
  <2> QED BY <2>3, <2>4, <2>5 DEF Inv, TypeOK
<1>4. ASSUME NEW t \in Tasks, FindReturns(t) PROVE Inv'
  <2>1. AnswersAreOthers'
    BY <1>0, <1>4, FindAnswers
  <2>2. task' \in [Tasks -> TaskStates]
    BY <1>0, <1>4 DEF TypeOK, FindReturns, TaskStates
  <2>3. UNCHANGED <<blockStore, agentBlocks>>
    BY <1>4 DEF FindReturns, lshVars
  <2> QED BY <1>0, <2>1, <2>2, <2>3
      DEF Inv, TypeOK, LSHTypes, StoreMatchesLists, OwnersOf
<1>5. ASSUME NEW o \in Owners, ClearAgent(o) PROVE Inv'
  <2>1. LSHTypes' /\ StoreMatchesLists'
    BY <1>0, <1>5, ClearKeepsStore DEF ClearAgent
  <2>2. task' \in [Tasks -> TaskStates] /\ AnswersAreOthers'
    BY <1>0, <1>5 DEF TypeOK, ClearAgent, AnswersAreOthers, NotAsked
  <2> QED BY <2>1, <2>2 DEF Inv, TypeOK
<1>6. CASE UNCHANGED vars
  BY <1>0, <1>6 DEF vars, Inv, TypeOK, LSHTypes, StoreMatchesLists, OwnersOf,
                    AnswersAreOthers
<1> QED BY <1>1, <1>2, <1>3, <1>4, <1>5, <1>6 DEF Next

\* Every variable keeps its type.
THEOREM TypeCorrect == Spec => []TypeOK
<1>1. Inv => TypeOK
  BY DEF Inv
<1> QED BY <1>1, InitInv, NextInv, PTL DEF Spec

\* What an owner is listed with is in the store under its name, and no block is
\* kept without an owner.
THEOREM StoreCorrect == Spec => []StoreMatchesLists
<1>1. Inv => StoreMatchesLists
  BY DEF Inv
<1> QED BY <1>1, InitInv, NextInv, PTL DEF Spec

\* An answer names all others with an identical block, and never the asker.
THEOREM AnswersCorrect == Spec => []AnswersAreOthers
<1>1. Inv => AnswersAreOthers
  BY DEF Inv
<1> QED BY <1>1, InitInv, NextInv, PTL DEF Spec

\* No step takes a listed block from an owner that stays listed.
THEOREM ClearsSpareOthers == Spec => SharedBlocksSurvive
<1> DEFINE Survives ==
      \A o \in Owners :
        o \in DOMAIN agentBlocks /\ o \in DOMAIN agentBlocks'
          => \A h \in agentBlocks[o] :
               o \in (IF h \in DOMAIN blockStore' THEN blockStore'[h] ELSE {})
<1>1. ASSUME Inv, Next PROVE Survives
  <2> SUFFICES ASSUME NEW o \in Owners, o \in DOMAIN agentBlocks,
                      o \in DOMAIN agentBlocks', NEW h \in agentBlocks[o]
               PROVE  h \in DOMAIN blockStore' /\ o \in blockStore'[h]
    OBVIOUS
  <2>1. h \in DOMAIN blockStore /\ o \in blockStore[h]
    BY <1>1 DEF Inv, StoreMatchesLists, OwnersOf
  <2>2. ASSUME NEW p, NEW H, IndexPrompt(p, H) PROVE h \in DOMAIN blockStore' /\ o \in blockStore'[h]
    BY <2>1, <2>2, IndexEffect DEF OwnersOf
  <2>3. ASSUME NEW O, ClearOwners(O) PROVE h \in DOMAIN blockStore' /\ o \in blockStore'[h]
    <3>1. o \notin O
      BY <2>3, ClearEffect
    <3> QED BY <2>1, <2>3, <3>1, OthersRemain
  <2>4. CASE UNCHANGED blockStore
    BY <2>1, <2>4
  <2> QED BY <1>1, <2>2, <2>3, <2>4
      DEF Next, CallIndex, CallFind, IndexReturns, FindReturns, ClearAgent, lshVars
<1>2. Inv /\ [Next]_vars => [Survives]_lshVars
  BY <1>1 DEF vars, lshVars
<1> HIDE DEF Survives
<1>3. Spec => [][Survives]_lshVars
  BY <1>2, InitInv, NextInv, PTL DEF Spec
<1> QED BY <1>3 DEF SharedBlocksSurvive, Survives

\* What a call of index_prompt for an owner that is listed must not do: index it
\* under another prompt.
SamePrompt ==
    \A t \in Tasks : IndexReturns(t) /\ task[t].owner \in DOMAIN agentBlocks
        => agentBlocks[task[t].owner] = task[t].prompt

\* In every behaviour in which no owner is indexed under another prompt while it is
\* listed (before it was cleared, that is), every owner of a block is listed with it:
\* clear_agent finds all it must free, whatever prompts, other owners and overlapping
\* calls there are (index_prompt, 118-136; clear_agent, 291-301).
THEOREM StableOwnersListed == Spec /\ [][SamePrompt]_vars => []OwnersAreListed
<1> DEFINE Listed == LSHTypes /\ StoreMatchesLists /\ OwnersAreListed
<1>1. ASSUME Listed, NEW o \in Owners, NEW H \in Prompts, IndexPrompt(o, H),
             o \in DOMAIN agentBlocks => agentBlocks[o] = H
      PROVE  OwnersAreListed'
  <2>0. /\ DOMAIN blockStore' = DOMAIN blockStore \cup H
        /\ \A h \in H : blockStore'[h] = OwnersOf(h) \cup {o}
        /\ \A h \in DOMAIN blockStore \ H : blockStore'[h] = blockStore[h]
        /\ DOMAIN agentBlocks' = DOMAIN agentBlocks \cup {o}
        /\ agentBlocks'[o] = H
        /\ \A x \in DOMAIN agentBlocks \ {o} : agentBlocks'[x] = agentBlocks[x]
    BY <1>1 DEF IndexPrompt
  <2> SUFFICES ASSUME NEW h \in DOMAIN blockStore', NEW x \in blockStore'[h]
               PROVE  x \in DOMAIN agentBlocks' /\ h \in agentBlocks'[x]
    BY DEF OwnersAreListed, BlocksOf
  <2>1. CASE h \in H /\ x = o
    BY <2>0, <2>1
  <2>2. CASE ~(h \in H /\ x = o)
    <3>1. h \in DOMAIN blockStore /\ x \in blockStore[h]
      BY <2>0, <2>2 DEF OwnersOf
    <3>2. h \in BlocksOf(x)
      BY <1>1, <3>1 DEF OwnersAreListed
    <3>3. x \in DOMAIN agentBlocks /\ h \in agentBlocks[x]
      BY <3>2 DEF BlocksOf
    <3>4. CASE x = o
      <4>1. agentBlocks[x] = H
        BY <1>1, <3>3, <3>4
      <4> QED BY <2>2, <3>3, <3>4, <4>1
    <3>5. CASE x # o
      BY <2>0, <3>3, <3>5
    <3> QED BY <3>4, <3>5
  <2> QED BY <2>1, <2>2
<1>2. ASSUME Listed, NEW O, ClearOwners(O)
      PROVE  OwnersAreListed'
  <2>0. /\ DOMAIN blockStore' = {h \in DOMAIN blockStore : Remaining(h, O) # {}}
        /\ \A h \in DOMAIN blockStore' : blockStore'[h] = Remaining(h, O)
        /\ DOMAIN agentBlocks' = DOMAIN agentBlocks \ O
        /\ \A x \in DOMAIN agentBlocks' : agentBlocks'[x] = agentBlocks[x]
    BY <1>2, ClearEffect
  <2> SUFFICES ASSUME NEW h \in DOMAIN blockStore', NEW x \in blockStore'[h]
               PROVE  x \in DOMAIN agentBlocks' /\ h \in agentBlocks'[x]
    BY DEF OwnersAreListed, BlocksOf
  <2>1. h \in DOMAIN blockStore /\ x \in Remaining(h, O)
    BY <2>0
  <2>2. x \in blockStore[h] /\ ~(x \in O /\ h \in BlocksOf(x))
    BY <2>1 DEF Remaining
  <2>3. h \in BlocksOf(x)
    BY <1>2, <2>1, <2>2 DEF OwnersAreListed
  <2>4. x \in DOMAIN agentBlocks /\ h \in agentBlocks[x] /\ x \notin O
    BY <2>2, <2>3 DEF BlocksOf
  <2> QED BY <2>0, <2>4
<1>3. Inv /\ OwnersAreListed /\ [Next]_vars /\ [SamePrompt]_vars => OwnersAreListed'
  <2> SUFFICES ASSUME Inv, OwnersAreListed, [Next]_vars, [SamePrompt]_vars
               PROVE  OwnersAreListed'
    OBVIOUS
  <2>0. Listed
    BY DEF Inv, TypeOK
  <2> HIDE DEF Listed
  <2>1. ASSUME NEW t \in Tasks, IndexReturns(t), SamePrompt PROVE OwnersAreListed'
    <3>1. task[t] \in TaskStates /\ task[t].pc = "indexing"
      BY <2>1 DEF Inv, TypeOK, IndexReturns
    <3>2. task[t].owner \in Owners /\ task[t].prompt \in Prompts
      BY <3>1 DEF TaskStates, Idle
    <3>3. task[t].owner \in DOMAIN agentBlocks => agentBlocks[task[t].owner] = task[t].prompt
      BY <2>1 DEF SamePrompt
    <3> QED BY <1>1, <2>0, <2>1, <3>2, <3>3 DEF IndexReturns
  <2>2. ASSUME NEW o \in Owners, ClearAgent(o) PROVE OwnersAreListed'
    BY <1>2, <2>0, <2>2 DEF ClearAgent
  <2>3. CASE UNCHANGED <<blockStore, agentBlocks>>
    BY <2>3 DEF OwnersAreListed, BlocksOf
  <2> QED BY <2>1, <2>2, <2>3 DEF Next, CallIndex, CallFind, FindReturns, vars, lshVars
<1>4. Init => OwnersAreListed
  BY DEF Init, LSHInit, NoDict, OwnersAreListed
<1> QED BY <1>3, <1>4, InitInv, NextInv, PTL DEF Spec
=============================================================================
