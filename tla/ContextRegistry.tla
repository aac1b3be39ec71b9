-------------------------- MODULE ContextRegistry --------------------------
(***************************************************************************)
(* register_agent and clear_agent of registry/context_registry.py, which   *)
(* walk through the LSH index, the anchor pool, the VRAM-aware cache, the  *)
(* FAISS index and the registry's own dictionary, suspending in between.   *)
(*                                                                         *)
(* One step of a task runs to its next suspension: an executor job         *)
(* (tokenizing, hashing, appending to FAISS) or the FAISS lock when it is  *)
(* held.  The registry's own lock is never held across a suspension.  The  *)
(* cache is known by its contract, the pool by what an update may do to it.*)
(*                                                                         *)
(* A definition marked (fault) is a plausible bug in the definition after  *)
(* it; nothing uses it, and some property tells the two apart.             *)
(***************************************************************************)
EXTENDS LSHStore, Sequences

CONSTANTS
    Tasks,
    NoTask,          \* the FAISS lock is free
    Texts,           \* system and role prompts, by their block hashes
    VectorsFit,      \* the embedding has the FAISS index's dimension
    OneCallPerAgent  \* callers have one call at a time under way per agent

ASSUME NoTaskAssumption == NoTask \notin Tasks
ASSUME TextsAssumption  == Texts \subseteq [system : Prompts, full : Prompts]
ASSUME SwitchAssumption == VectorsFit \in BOOLEAN /\ OneCallPerAgent \in BOOLEAN

VARIABLES
    agents,          \* _agents: agent -> the text it is registered with
    indexed,         \* keys of the FAISS index's _reverse_map
    held, refusing,  \* the cache: contexts it holds, and whether it takes more
    anchored,        \* agents with an offset in the anchor pool
    lock, queue,     \* the FAISS index's asyncio lock: holder, waiters
    task,            \* what each task is doing
    raised           \* a call has raised KeyError

vars == <<blockStore, agentBlocks, agents, indexed, held, refusing, anchored,
          lock, queue, task, raised>>

Cache == INSTANCE CacheContract WITH Keys <- Agents

Idle == [pc |-> "idle"]

TaskStates ==
    {Idle}
    \cup [pc : {"system", "full", "embedding"}, agent : Agents, text : Texts]
    \cup [pc : {"waiting", "adding"}, call : {"register"}, agent : Agents,
          text : Texts, stored : BOOLEAN]
    \cup [pc : {"waiting"}, call : {"clear"}, agent : Agents]

Init ==
    /\ LSHInit
    /\ Cache!CacheInit
    /\ agents = NoDict
    /\ indexed = {}
    /\ anchored = {}
    /\ lock = NoTask
    /\ queue = << >>
    /\ task = [t \in Tasks |-> Idle]
    /\ raised = FALSE

LockFree == lock = NoTask /\ queue = << >>

Become(t, state) == task' = [task EXCEPT ![t] = state]

Busy(a) == \E t \in Tasks : task[t] # Idle /\ task[t].agent = a

MayCall(t, a) == task[t] = Idle /\ (OneCallPerAgent => ~Busy(a))

-----------------------------------------------------------------------------
(* register_agent *)

\* the full context, then the system prompt are tokenized
Register(t, a, x) ==
    /\ MayCall(t, a)
    /\ Become(t, [pc |-> "system", agent |-> a, text |-> x])
    /\ UNCHANGED <<lshVars, agents, indexed, held, refusing, anchored, lock, queue, raised>>

SystemIndexed(t) ==
    /\ task[t].pc = "system"
    /\ IndexPrompt(<<task[t].agent, "system">>, task[t].text.system)
    /\ Become(t, [task[t] EXCEPT !.pc = "full"])
    /\ UNCHANGED <<agents, indexed, held, refusing, anchored, lock, queue, raised>>

\* (fault) an agent that is listed already is not indexed again
FullIndexedFault(t) ==
    /\ task[t].pc = "full"
    /\ IF <<task[t].agent, "full">> \in DOMAIN agentBlocks
         THEN UNCHANGED lshVars
         ELSE IndexPrompt(<<task[t].agent, "full">>, task[t].text.full)
    /\ Become(t, [task[t] EXCEPT !.pc = "embedding"])
    /\ UNCHANGED <<agents, indexed, held, refusing, anchored, lock, queue, raised>>

FullIndexed(t) ==
    /\ task[t].pc = "full"
    /\ IndexPrompt(<<task[t].agent, "full">>, task[t].text.full)
    /\ Become(t, [task[t] EXCEPT !.pc = "embedding"])
    /\ UNCHANGED <<agents, indexed, held, refusing, anchored, lock, queue, raised>>

\* update_pool: the agent has an offset now, unless pruning took its anchor or
\* any others' (AnchorPool has which)
UpdatePool(a) == anchored' \in SUBSET (anchored \cup {a})

\* The embedding and its hash are there: anchor pool, cache (whose refusal is
\* only logged), then the FAISS lock
Embedded(t, stored) ==
    LET a == task[t].agent
        goesOn(pc) == [pc |-> pc, call |-> "register", agent |-> a,
                       text |-> task[t].text, stored |-> stored]
    IN
    /\ task[t].pc = "embedding"
    /\ UpdatePool(a)
    /\ IF stored THEN Cache!Put(a) ELSE refusing /\ UNCHANGED <<held, refusing>>
    /\ IF LockFree
         THEN /\ Become(t, goesOn("adding"))
              /\ lock' = t
              /\ UNCHANGED queue
         ELSE /\ Become(t, goesOn("waiting"))
              /\ queue' = Append(queue, t)
              /\ UNCHANGED lock
    /\ UNCHANGED <<lshVars, agents, indexed, raised>>

\* FAISS has the vector: its dictionaries and the registry's are updated
\* without a suspension between.  A vector that does not fit raises instead.
Added(t) ==
    LET a == task[t].agent IN
    /\ task[t].pc = "adding"
    /\ IF VectorsFit
         THEN /\ indexed' = indexed \cup {a}
              /\ agents' = [b \in DOMAIN agents \cup {a} |->
                              IF b = a THEN task[t].text ELSE agents[b]]
         ELSE UNCHANGED <<indexed, agents>>
    /\ lock' = NoTask
    /\ Become(t, Idle)
    /\ UNCHANGED <<lshVars, held, refusing, anchored, queue, raised>>

-----------------------------------------------------------------------------
(* clear_agent *)

\* (fault) the cached context is forgotten about
ForgetFault(a) ==
    /\ indexed' = indexed \ {a}
    /\ agents' = [b \in DOMAIN agents \ {a} |-> agents[b]]
    /\ raised' = (raised \/ a \notin DOMAIN agents)
    /\ UNCHANGED <<held, refusing>>

\* from the FAISS lock on: FAISS, cache, _agents.  The entry may be gone by
\* now, and then its deletion raises.
Forget(a) ==
    /\ indexed' = indexed \ {a}
    /\ Cache!Drop({a})
    /\ agents' = [b \in DOMAIN agents \ {a} |-> agents[b]]
    /\ raised' = (raised \/ a \notin DOMAIN agents)

\* (fault) the registry forgets the agent before the FAISS lock is waited for
ClearFault(t, a) ==
    /\ MayCall(t, a)
    /\ a \in DOMAIN agents
    /\ ClearOwners({a} \X Parts)
    /\ IF LockFree
         THEN Forget(a) /\ UNCHANGED <<task, queue>>
         ELSE /\ Become(t, [pc |-> "waiting", call |-> "clear", agent |-> a])
              /\ queue' = Append(queue, t)
              /\ agents' = [b \in DOMAIN agents \ {a} |-> agents[b]]
              /\ UNCHANGED <<indexed, held, refusing, raised>>
    /\ UNCHANGED <<anchored, lock>>

\* clear_agent of an agent that is not registered returns False at once
Clear(t, a) ==
    /\ MayCall(t, a)
    /\ a \in DOMAIN agents
    /\ ClearOwners({a} \X Parts)
    /\ IF LockFree
         THEN Forget(a) /\ UNCHANGED <<task, queue>>
         ELSE /\ Become(t, [pc |-> "waiting", call |-> "clear", agent |-> a])
              /\ queue' = Append(queue, t)
              /\ UNCHANGED <<agents, indexed, held, refusing, raised>>
    /\ UNCHANGED <<anchored, lock>>

\* (fault) a clear keeps the lock
GrantedFault ==
    LET t == Head(queue) IN
    /\ lock = NoTask
    /\ queue # << >>
    /\ queue' = Tail(queue)
    /\ lock' = t
    /\ \/ /\ task[t].call = "register"
          /\ Become(t, [task[t] EXCEPT !.pc = "adding"])
          /\ UNCHANGED <<agents, indexed, held, refusing, raised>>
       \/ /\ task[t].call = "clear"
          /\ Forget(task[t].agent)
          /\ Become(t, Idle)
    /\ UNCHANGED <<lshVars, anchored>>

\* The first waiter gets the FAISS lock; a clear does not keep it
Granted ==
    LET t == Head(queue) IN
    /\ lock = NoTask
    /\ queue # << >>
    /\ queue' = Tail(queue)
    /\ \/ /\ task[t].call = "register"
          /\ lock' = t
          /\ Become(t, [task[t] EXCEPT !.pc = "adding"])
          /\ UNCHANGED <<agents, indexed, held, refusing, raised>>
       \/ /\ task[t].call = "clear"
          /\ Forget(task[t].agent)
          /\ Become(t, Idle)
          /\ UNCHANGED lock
    /\ UNCHANGED <<lshVars, anchored>>

\* The cache's monitor evicts, blocks or unblocks
CacheModeChange ==
    /\ Cache!ModeChange
    /\ UNCHANGED <<lshVars, agents, indexed, anchored, lock, queue, task, raised>>

Next ==
    \/ \E t \in Tasks :
         \/ \E a \in Agents : Clear(t, a) \/ \E x \in Texts : Register(t, a, x)
         \/ SystemIndexed(t) \/ FullIndexed(t)
         \/ \E stored \in BOOLEAN : Embedded(t, stored)
         \/ Added(t)
    \/ Granted
    \/ CacheModeChange

Spec == Init /\ [][Next]_vars

\* Executor jobs end, and the event loop wakes who can go on
Fairness ==
    /\ WF_vars(Granted)
    /\ \A t \in Tasks :
         WF_vars(\/ SystemIndexed(t) \/ FullIndexed(t) \/ Added(t)
                 \/ \E stored \in BOOLEAN : Embedded(t, stored))

FairSpec == Spec /\ Fairness

-----------------------------------------------------------------------------
(* Correctness *)

\* Every variable stays in its domain.
TypeOK ==
    /\ LSHTypes
    /\ DOMAIN agents \subseteq Agents
    /\ \A a \in DOMAIN agents : agents[a] \in Texts
    /\ indexed \subseteq Agents /\ held \subseteq Agents /\ anchored \subseteq Agents
    /\ refusing \in BOOLEAN /\ raised \in BOOLEAN
    /\ lock \in Tasks \cup {NoTask}
    /\ queue \in Seq(Tasks)
    /\ task \in [Tasks -> TaskStates]

\* The registry's dictionary and the FAISS index name the same agents at every
\* suspension, whichever calls overlap and whichever of them fail.
RegisteredIffIndexed == DOMAIN agents = indexed

\* When no call on an agent is under way and it is not registered, nothing of
\* it is left in the LSH lists or the cache, however calls overlapped before.
\* clear_agent empties the LSH index before it waits for the FAISS lock; a
\* registration that slips in between is saved by the order of that lock.
NothingLeftBehind ==
    \A a \in Agents :
        ~Busy(a) /\ a \notin DOMAIN agents =>
            /\ \A p \in Parts : <<a, p>> \notin DOMAIN agentBlocks
            /\ a \notin held

\* A registered agent's own text is what the LSH index lists it with.
RegistrationIsWhole ==
    \A a \in DOMAIN agents :
        ~Busy(a) =>
            /\ BlocksOf(<<a, "full">>) = agents[a].full
            /\ BlocksOf(<<a, "system">>) = agents[a].system

\* Every call returns or raises.
CallsReturn == \A t \in Tasks : task[t] # Idle ~> task[t] = Idle

-----------------------------------------------------------------------------
(* What the code's own text says, which the code does not do *)

\* A test: clearing an agent that is not registered returns False.
ClearNeverRaises == ~raised

\* register_agent's docstring: "Register an agent with tokenization and LSH
\* indexing."
RegisteredIsListed ==
    \A a \in DOMAIN agents : ~Busy(a) => <<a, "full">> \in DOMAIN agentBlocks

\* clear_agent's docstring: "Clear an agent's context from all stores."
ClearedEverywhere ==
    \A a \in Agents : ~Busy(a) /\ a \notin DOMAIN agents => a \notin anchored

\* vram_aware_cache.py on EMERGENCY: "block new registrations".
RefusedIsNotRegistered ==
    [][\A t \in Tasks : task[t].pc = "adding" /\ task'[t] = Idle
          => (task[t].stored \/ agents' = agents)]_vars
=============================================================================
