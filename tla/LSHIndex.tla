------------------------------ MODULE LSHIndex ------------------------------
(***************************************************************************)
(* dedup/lsh_engine.py as tasks call it: index_prompt and                  *)
(* find_reusable_blocks suspend while an executor thread tokenizes the     *)
(* text, and do all their work on the dictionaries after that; clear_agent *)
(* does not suspend.                                                       *)
(***************************************************************************)
EXTENDS LSHStore

CONSTANTS
    Tasks,
    Distance,     \* hamming distance of two hashes
    Threshold     \* hamming_threshold: farther blocks do not match

ASSUME DistanceAssumption ==
    /\ Distance \in [Hashes \X Hashes -> Nat]
    /\ \A h \in Hashes : Distance[h, h] = 0
    /\ Threshold \in Nat

VARIABLES
    task,         \* what each task waits for
    found         \* the last answer of find_reusable_blocks

vars == <<blockStore, agentBlocks, task, found>>

Idle == [pc |-> "idle"]
NotAsked == [given |-> FALSE]

TaskStates ==
    {Idle} \cup [pc : {"indexing"}, owner : Owners, prompt : Prompts]
           \cup [pc : {"finding"}, prompt : Prompts, exclude : Agents]

Init ==
    /\ LSHInit
    /\ task = [t \in Tasks |-> Idle]
    /\ found = NotAsked

CallIndex(t, o, H) ==
    /\ task[t] = Idle
    /\ task' = [task EXCEPT ![t] = [pc |-> "indexing", owner |-> o, prompt |-> H]]
    /\ UNCHANGED <<lshVars, found>>

IndexReturns(t) ==
    /\ task[t].pc = "indexing"
    /\ IndexPrompt(task[t].owner, task[t].prompt)
    /\ task' = [task EXCEPT ![t] = Idle]
    /\ found' = NotAsked

CallFind(t, H, a) ==
    /\ task[t] = Idle
    /\ task' = [task EXCEPT ![t] = [pc |-> "finding", prompt |-> H, exclude |-> a]]
    /\ UNCHANGED <<lshVars, found>>

\* An owner is excluded by its bare id and by its role-suffixed ids
Excluded(o, a) == o[1] = a

Close(h, g) == Distance[h, g] <= Threshold

\* a match: a block of the prompt, the stored block near it, an owner of that
Matches(H, a) ==
    {m \in H \X (DOMAIN blockStore) \X Owners :
        Close(m[1], m[2]) /\ m[3] \in blockStore[m[2]] /\ ~Excluded(m[3], a)}

FindReturns(t) ==
    /\ task[t].pc = "finding"
    /\ found' = [given |-> TRUE, asker |-> task[t].exclude, prompt |-> task[t].prompt,
                 matches |-> Matches(task[t].prompt, task[t].exclude)]
    /\ task' = [task EXCEPT ![t] = Idle]
    /\ UNCHANGED lshVars

ClearAgent(o) ==
    /\ ClearOwners({o})
    /\ found' = NotAsked
    /\ UNCHANGED task

Next ==
    \/ \E t \in Tasks :
         \/ \E o \in Owners, H \in Prompts : CallIndex(t, o, H)
         \/ \E a \in Agents, H \in Prompts : CallFind(t, H, a)
         \/ IndexReturns(t)
         \/ FindReturns(t)
    \/ \E o \in Owners : ClearAgent(o)

Spec == Init /\ [][Next]_vars

-----------------------------------------------------------------------------
(* Correctness *)

\* Every variable stays in its domain.
TypeOK ==
    /\ LSHTypes
    /\ task \in [Tasks -> TaskStates]

\* An answer names every other agent that lists an identical block, and never
\* the asking agent itself under either of its names.
AnswersAreOthers ==
    found.given =>
        /\ \A m \in found.matches : m[3][1] # found.asker
        /\ \A o \in DOMAIN agentBlocks : \A h \in agentBlocks[o] \cap found.prompt :
             o[1] # found.asker => <<h, h, o>> \in found.matches
=============================================================================
