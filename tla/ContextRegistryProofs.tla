----------------------- MODULE ContextRegistryProofs -----------------------
(***************************************************************************)
(* For any number of agents, tasks and texts: the registry and the FAISS   *)
(* index name the same agents, and an agent that is not registered and has *)
(* no call under way has left nothing in the LSH index or the cache.       *)
(***************************************************************************)
EXTENDS ContextRegistry, TLAPS

\* The registry and the FAISS index change together (context_registry.py, 220-254
\* and 484-506), whichever calls overlap, fail or find the lock held.
THEOREM RegistryMatchesIndex == Spec => []RegisteredIffIndexed
<1>1. Init => RegisteredIffIndexed
  BY DEF Init, RegisteredIffIndexed, NoDict
<1>2. ASSUME RegisteredIffIndexed, [Next]_vars PROVE RegisteredIffIndexed'
  <2> USE <1>2 DEF RegisteredIffIndexed
  <2>1. ASSUME NEW t \in Tasks, NEW a \in Agents, Clear(t, a) PROVE RegisteredIffIndexed'
    BY <2>1 DEF Clear, Forget
  <2>2. ASSUME NEW t \in Tasks, NEW a \in Agents, NEW x \in Texts, Register(t, a, x)
        PROVE  RegisteredIffIndexed'
    BY <2>2 DEF Register
  <2>3. ASSUME NEW t \in Tasks, SystemIndexed(t) PROVE RegisteredIffIndexed'
    BY <2>3 DEF SystemIndexed
  <2>4. ASSUME NEW t \in Tasks, FullIndexed(t) PROVE RegisteredIffIndexed'
    BY <2>4 DEF FullIndexed
  <2>5. ASSUME NEW t \in Tasks, NEW stored \in BOOLEAN, Embedded(t, stored)
        PROVE  RegisteredIffIndexed'
    BY <2>5 DEF Embedded
  <2>6. ASSUME NEW t \in Tasks, Added(t) PROVE RegisteredIffIndexed'
    BY <2>6 DEF Added
  <2>7. CASE Granted
    BY <2>7 DEF Granted, Forget
  <2>8. CASE CacheModeChange
    BY <2>8 DEF CacheModeChange
  <2>9. CASE UNCHANGED vars
    BY <2>9 DEF vars
  <2> QED
    BY <2>1, <2>2, <2>3, <2>4, <2>5, <2>6, <2>7, <2>8, <2>9 DEF Next
<1> QED
  BY <1>1, <1>2, PTL DEF Spec

-----------------------------------------------------------------------------
(* What a clear leaves behind, a registration on its way takes over. *)

Listed(a) == \E p \in Parts : <<a, p>> \in DOMAIN agentBlocks

\* t is registering a
Registering(t, a) ==
    /\ task[t].pc \in {"system", "full", "embedding", "adding", "waiting"}
    /\ task[t].pc = "waiting" => task[t].call = "register"
    /\ task[t].agent = a

\* t is registering a, has indexed some of its text, and comes after the i-th
\* waiter for the FAISS lock
Behind(t, a, i) ==
    /\ task[t].agent = a
    /\ \/ task[t].pc \in {"full", "embedding"}
       \/ /\ task[t].pc = "waiting" /\ task[t].call = "register"
          /\ \E j \in 1..Len(queue) : j > i /\ queue[j] = t

TasksTyped == task \in [Tasks -> TaskStates]

\* Who queues is waiting, once
QueueWaits ==
    /\ queue \in Seq(Tasks)
    /\ \A i \in 1..Len(queue) : task[queue[i]].pc = "waiting"
    /\ \A i, j \in 1..Len(queue) : i # j => queue[i] # queue[j]

\* What is there of an agent that is not registered belongs to a registration
Pending ==
    \A a \in Agents :
        a \notin DOMAIN agents /\ (Listed(a) \/ a \in held)
            => \E t \in Tasks : Registering(t, a)

\* What was listed while a clear waits belongs to a registration behind it
Overtaken ==
    \A i \in 1..Len(queue) :
        task[queue[i]].call = "clear" /\ Listed(task[queue[i]].agent)
            => \E t \in Tasks : Behind(t, task[queue[i]].agent, i)

CleanInv == TasksTyped /\ QueueWaits /\ Pending /\ Overtaken

LEMMA CleanInvInit == Init => CleanInv
<1> SUFFICES ASSUME Init PROVE CleanInv
  OBVIOUS
<1> USE DEF Init, LSHInit, NoDict
<1>1. TasksTyped
  BY DEF TasksTyped, TaskStates
<1>2. QueueWaits
  BY DEF QueueWaits
<1>3. Pending
  BY DEF Pending, Listed, Cache!CacheInit
<1>4. Overtaken
  BY DEF Overtaken
<1> QED
  BY <1>1, <1>2, <1>3, <1>4 DEF CleanInv

LEMMA CleanInvImplies == CleanInv => NothingLeftBehind
<1> SUFFICES ASSUME CleanInv, NEW a \in Agents, ~Busy(a), a \notin DOMAIN agents
             PROVE  ~Listed(a) /\ a \notin held
  BY DEF NothingLeftBehind, Listed
<1>1. ASSUME NEW t \in Tasks, Registering(t, a) PROVE FALSE
  BY <1>1 DEF Registering, Busy, Idle
<1> QED
  BY <1>1 DEF CleanInv, Pending

LEMMA BecomeEffect ==
    ASSUME TasksTyped, NEW t \in Tasks, NEW s \in TaskStates, Become(t, s)
    PROVE  /\ TasksTyped'
           /\ task'[t] = s
           /\ \A u \in Tasks : u # t => task'[u] = task[u]
BY DEF TasksTyped, Become

\* The fields of a task's state
LEMMA StateFields ==
    ASSUME NEW s \in TaskStates
    PROVE  /\ s.pc \in {"idle", "system", "full", "embedding", "waiting", "adding"}
           /\ s.pc # "idle" => s.agent \in Agents
           /\ s.pc = "waiting" => s.call \in {"register", "clear"}
           /\ s.pc \in {"system", "full", "embedding"} => s.text \in Texts
           /\ s.pc = "idle" => s = Idle
BY DEF TaskStates, Idle

LEMMA PreparingStates ==
    ASSUME NEW a \in Agents, NEW x \in Texts, NEW stored \in BOOLEAN
    PROVE  /\ \A pc \in {"system", "full", "embedding"} :
                [pc |-> pc, agent |-> a, text |-> x] \in TaskStates
           /\ \A pc \in {"waiting", "adding"} :
                [pc |-> pc, call |-> "register", agent |-> a, text |-> x,
                 stored |-> stored] \in TaskStates
           /\ [pc |-> "waiting", call |-> "clear", agent |-> a] \in TaskStates
           /\ Idle \in TaskStates
BY DEF TaskStates

\* A preparing task goes on to its next preparing step
LEMMA PreparingGoesOn ==
    ASSUME NEW s \in TaskStates, s.pc \in {"system", "full", "embedding"},
           NEW pc \in {"full", "embedding"}
    PROVE  /\ [s EXCEPT !.pc = pc] \in TaskStates
           /\ [s EXCEPT !.pc = pc].pc = pc
           /\ [s EXCEPT !.pc = pc].agent = s.agent
BY DEF TaskStates, Idle

LEMMA WaitingGoesOn ==
    ASSUME NEW s \in TaskStates, s.pc = "waiting", s.call = "register"
    PROVE  /\ [s EXCEPT !.pc = "adding"] \in TaskStates
           /\ [s EXCEPT !.pc = "adding"].pc = "adding"
           /\ [s EXCEPT !.pc = "adding"].agent = s.agent
BY DEF TaskStates, Idle

-----------------------------------------------------------------------------
LEMMA RegisterStep ==
    ASSUME CleanInv, NEW t \in Tasks, NEW a \in Agents, NEW x \in Texts,
           Register(t, a, x)
    PROVE  CleanInv'
<1> DEFINE s == [pc |-> "system", agent |-> a, text |-> x]
<1>1. s \in TaskStates /\ s.pc = "system" /\ s.agent = a
  BY PreparingStates
<1>2. /\ Become(t, s) /\ task[t].pc = "idle"
      /\ UNCHANGED <<agentBlocks, agents, held, queue>>
  BY DEF Register, MayCall, Idle, lshVars
<1> HIDE DEF s
<1>3. /\ TasksTyped'
      /\ task'[t] = s
      /\ \A u \in Tasks : u # t => task'[u] = task[u]
  BY <1>1, <1>2, BecomeEffect DEF CleanInv
<1>4. QueueWaits' /\ \A i \in 1..Len(queue) : queue[i] \in Tasks /\ queue[i] # t
  BY <1>2, <1>3 DEF CleanInv, QueueWaits
<1>5. Pending'
  BY <1>2, <1>3 DEF CleanInv, Pending, Registering, Listed
<1>6. Overtaken'
  <2> SUFFICES ASSUME NEW i \in 1..Len(queue), task[queue[i]].call = "clear",
                      Listed(task[queue[i]].agent)
               PROVE  \E u \in Tasks : Behind(u, task[queue[i]].agent, i)'
    BY <1>2, <1>3, <1>4 DEF Overtaken, Listed
  <2>1. PICK u \in Tasks : Behind(u, task[queue[i]].agent, i)
    BY DEF CleanInv, Overtaken
  <2>2. u # t
    BY <2>1, <1>2 DEF Behind
  <2> QED
    BY <2>1, <2>2, <1>2, <1>3, <1>4 DEF Behind
<1> QED
  BY <1>3, <1>4, <1>5, <1>6 DEF CleanInv

\* One part of the agent's text is indexed
LEMMA IndexStep ==
    ASSUME CleanInv, NEW t \in Tasks, task[t].pc \in {"system", "full"},
           NEW pc \in {"full", "embedding"}, NEW part \in Parts,
           DOMAIN agentBlocks' = DOMAIN agentBlocks \cup {<<task[t].agent, part>>},
           Become(t, [task[t] EXCEPT !.pc = pc]),
           UNCHANGED <<agents, held, queue>>
    PROVE  CleanInv'
<1> DEFINE s == [task[t] EXCEPT !.pc = pc]
           a == task[t].agent
<1>1. s \in TaskStates /\ s.pc = pc /\ s.agent = a
  <2>1. task[t] \in TaskStates
    BY DEF CleanInv, TasksTyped
  <2> QED
    BY <2>1, PreparingGoesOn
<1>2. Become(t, s) /\ a = task[t].agent
  OBVIOUS
<1>3. \A b : Listed(b)' => b = a \/ Listed(b)
  BY DEF Listed
<1> HIDE DEF s, a
<1>4. /\ TasksTyped'
      /\ task'[t] = s
      /\ \A u \in Tasks : u # t => task'[u] = task[u]
  BY <1>1, <1>2, BecomeEffect DEF CleanInv
<1>5. QueueWaits' /\ \A i \in 1..Len(queue) : queue[i] \in Tasks /\ queue[i] # t
  BY <1>2, <1>4 DEF CleanInv, QueueWaits
<1>6. Pending'
  <2> SUFFICES ASSUME NEW b \in Agents, b \notin DOMAIN agents, Listed(b)' \/ b \in held
               PROVE  \E u \in Tasks : Registering(u, b)'
    BY DEF Pending
  <2>1. CASE b = a
    BY <2>1, <1>1, <1>4 DEF Registering
  <2>2. CASE b # a
    <3>1. PICK u \in Tasks : Registering(u, b)
      BY <2>2, <1>3 DEF CleanInv, Pending
    <3>2. u # t
      BY <3>1, <2>2, <1>2 DEF Registering
    <3> QED
      BY <3>1, <3>2, <1>4 DEF Registering
  <2> QED
    BY <2>1, <2>2
<1>7. Overtaken'
  <2> SUFFICES ASSUME NEW i \in 1..Len(queue), task[queue[i]].call = "clear",
                      Listed(task[queue[i]].agent)'
               PROVE  \E u \in Tasks : Behind(u, task[queue[i]].agent, i)'
    <3>1. \A i \in 1..Len(queue) : task'[queue[i]] = task[queue[i]]
      BY <1>4, <1>5
    <3> QED
      BY <3>1 DEF Overtaken, Listed, Behind
  <2> DEFINE b == task[queue[i]].agent
  <2>0. queue[i] # t /\ queue[i] \in Tasks
    BY <1>5
  <2>1. task'[queue[i]] = task[queue[i]]
    BY <2>0, <1>4
  <2>2. CASE b = a
    <3>1. task'[t].agent = b /\ task'[t].pc \in {"full", "embedding"}
      BY <2>2, <1>1, <1>4
    <3> QED
      BY <3>1, <2>1 DEF Behind
  <2>3. CASE b # a
    <3>1. Listed(b)
      BY <2>3, <2>1, <1>3
    <3>2. PICK u \in Tasks : Behind(u, b, i)
      BY <3>1 DEF CleanInv, Overtaken
    <3>3. u # t
      BY <3>2, <2>3, <1>2 DEF Behind
    <3>4. task'[u] = task[u]
      BY <3>3, <1>4
    <3> QED
      BY <3>2, <3>4, <2>1 DEF Behind
  <2> QED
    BY <2>2, <2>3
<1> QED
  BY <1>4, <1>5, <1>6, <1>7 DEF CleanInv

LEMMA SystemIndexedStep ==
    ASSUME CleanInv, NEW t \in Tasks, SystemIndexed(t) PROVE CleanInv'
<1>1. /\ task[t].pc = "system"
      /\ Become(t, [task[t] EXCEPT !.pc = "full"])
      /\ UNCHANGED <<agents, held, queue>>
      /\ IndexPrompt(<<task[t].agent, "system">>, task[t].text.system)
  BY DEF SystemIndexed
<1>2. DOMAIN agentBlocks' = DOMAIN agentBlocks \cup {<<task[t].agent, "system">>}
  BY <1>1 DEF IndexPrompt
<1> QED
  BY <1>1, <1>2, IndexStep DEF Parts

LEMMA FullIndexedStep ==
    ASSUME CleanInv, NEW t \in Tasks, FullIndexed(t) PROVE CleanInv'
<1>1. /\ task[t].pc = "full"
      /\ Become(t, [task[t] EXCEPT !.pc = "embedding"])
      /\ UNCHANGED <<agents, held, queue>>
      /\ IndexPrompt(<<task[t].agent, "full">>, task[t].text.full)
  BY DEF FullIndexed
<1>2. DOMAIN agentBlocks' = DOMAIN agentBlocks \cup {<<task[t].agent, "full">>}
  BY <1>1 DEF IndexPrompt
<1> QED
  BY <1>1, <1>2, IndexStep DEF Parts

LEMMA EmbeddedStep ==
    ASSUME CleanInv, NEW t \in Tasks, NEW stored \in BOOLEAN, Embedded(t, stored)
    PROVE  CleanInv'
<1> DEFINE a == task[t].agent
           st(pc) == [pc |-> pc, call |-> "register", agent |-> a,
                      text |-> task[t].text, stored |-> stored]
<1>0. task[t] \in TaskStates /\ task[t].pc = "embedding"
  BY DEF CleanInv, TasksTyped, Embedded
<1>1. a \in Agents /\ task[t].text \in Texts
  BY <1>0, StateFields
<1>2. \A pc \in {"waiting", "adding"} :
        /\ st(pc) \in TaskStates
        /\ st(pc).pc = pc /\ st(pc).agent = a /\ st(pc).call = "register"
  BY <1>1, PreparingStates
<1>3. /\ UNCHANGED <<agentBlocks, agents>>
      /\ held' \subseteq held \cup {a}
  BY DEF Embedded, lshVars, Cache!Put
<1>4. \/ queue = << >> /\ queue' = queue /\ Become(t, st("adding"))
      \/ queue' = Append(queue, t) /\ Become(t, st("waiting"))
  BY DEF Embedded, LockFree
<1>5. a = task[t].agent
  OBVIOUS
<1> HIDE DEF st, a
<1>6. PICK pc \in {"waiting", "adding"} :
        /\ Become(t, st(pc))
        /\ \/ pc = "adding" /\ queue = << >> /\ queue' = queue
           \/ pc = "waiting" /\ queue' = Append(queue, t)
  BY <1>4
<1>7. /\ TasksTyped'
      /\ task'[t] = st(pc)
      /\ \A u \in Tasks : u # t => task'[u] = task[u]
  BY <1>2, <1>6, BecomeEffect DEF CleanInv
<1>8. \A i \in 1..Len(queue) : queue[i] \in Tasks /\ queue[i] # t
  BY <1>0 DEF CleanInv, QueueWaits
<1>9. queue \in Seq(Tasks)
  BY DEF CleanInv, QueueWaits
<1>10. QueueWaits'
  <2>1. CASE queue' = queue
    BY <2>1, <1>7, <1>8 DEF CleanInv, QueueWaits
  <2>2. CASE pc = "waiting" /\ queue' = Append(queue, t)
    <3>1. /\ queue' \in Seq(Tasks) /\ Len(queue') = Len(queue) + 1
          /\ queue'[Len(queue) + 1] = t
          /\ \A i \in 1..Len(queue) : queue'[i] = queue[i]
      BY <2>2, <1>9
    <3>2. task'[t].pc = "waiting"
      BY <2>2, <1>2, <1>7
    <3>3. \A i \in 1..Len(queue') : i \in 1..Len(queue) \/ i = Len(queue) + 1
      BY <3>1, <1>9
    <3>4. \A i \in 1..Len(queue) : task'[queue'[i]].pc = "waiting"
      BY <3>1, <1>7, <1>8 DEF CleanInv, QueueWaits
    <3>5. \A i \in 1..Len(queue') : task'[queue'[i]].pc = "waiting"
      BY <3>1, <3>2, <3>3, <3>4
    <3>6. \A i, j \in 1..Len(queue') : i # j => queue'[i] # queue'[j]
      BY <3>1, <3>3, <1>8 DEF CleanInv, QueueWaits
    <3> QED
      BY <3>1, <3>5, <3>6 DEF QueueWaits
  <2> QED
    BY <1>6, <2>1, <2>2
<1>11. Pending'
  <2> SUFFICES ASSUME NEW b \in Agents, b \notin DOMAIN agents, Listed(b) \/ b \in held'
               PROVE  \E u \in Tasks : Registering(u, b)'
    BY <1>3 DEF Pending, Listed
  <2>1. CASE b = a
    BY <2>1, <1>2, <1>7 DEF Registering
  <2>2. CASE b # a
    <3>1. PICK u \in Tasks : Registering(u, b)
      BY <2>2, <1>3 DEF CleanInv, Pending
    <3>2. u # t
      BY <3>1, <2>2, <1>5 DEF Registering
    <3> QED
      BY <3>1, <3>2, <1>7 DEF Registering
  <2> QED
    BY <2>1, <2>2
<1>12. Overtaken'
  <2>1. CASE queue' = queue /\ queue = << >>
    BY <2>1 DEF Overtaken
  <2>2. CASE pc = "waiting" /\ queue' = Append(queue, t)
    <3>1. /\ Len(queue) \in Nat /\ Len(queue') = Len(queue) + 1
          /\ queue'[Len(queue) + 1] = t
          /\ \A i \in 1..Len(queue) : queue'[i] = queue[i]
      BY <2>2, <1>9
    <3>2. /\ task'[t].pc = "waiting" /\ task'[t].call = "register"
          /\ task'[t].agent = a
      BY <2>2, <1>2, <1>7
    <3> SUFFICES ASSUME NEW i \in 1..Len(queue'), task'[queue'[i]].call = "clear",
                        Listed(task'[queue'[i]].agent)
                 PROVE  \E u \in Tasks : Behind(u, task[queue[i]].agent, i)'
      BY <1>3 DEF Overtaken, Listed
    <3>3. i \in 1..Len(queue) /\ queue'[i] = queue[i] /\ queue[i] # t
      BY <3>1, <3>2, <1>8
    <3> DEFINE b == task[queue[i]].agent
    <3>4. task'[queue'[i]] = task[queue[i]]
      BY <3>3, <1>7, <1>8
    <3>5. PICK u \in Tasks : Behind(u, b, i)
      BY <3>3, <3>4 DEF CleanInv, Overtaken
    <3>6. CASE u = t
      <4>1. a = b
        BY <3>5, <3>6, <1>5 DEF Behind
      <4>2. Len(queue) + 1 \in 1..Len(queue') /\ Len(queue) + 1 > i
        BY <3>1, <3>3
      <4> QED
        BY <4>1, <4>2, <3>1, <3>2, <3>4 DEF Behind
    <3>7. CASE u # t
      <4>1. task'[u] = task[u]
        BY <3>7, <1>7
      <4>2. CASE task[u].pc \in {"full", "embedding"}
        BY <4>1, <4>2, <3>4, <3>5 DEF Behind
      <4>3. CASE task[u].pc = "waiting"
        <5>1. PICK j \in 1..Len(queue) : j > i /\ queue[j] = u
          BY <4>3, <3>5 DEF Behind
        <5>2. j \in 1..Len(queue') /\ queue'[j] = u
          BY <5>1, <3>1
        <5> QED
          BY <4>1, <5>1, <5>2, <3>4, <3>5, <4>3 DEF Behind
      <4> QED
        BY <3>5, <4>2, <4>3 DEF Behind
    <3> QED
      BY <3>6, <3>7
  <2> QED
    BY <1>6, <2>1, <2>2
<1> QED
  BY <1>7, <1>10, <1>11, <1>12 DEF CleanInv

\* When vectors fit, a registration that ends has registered its agent
LEMMA AddedStep ==
    ASSUME VectorsFit, CleanInv, NEW t \in Tasks, Added(t) PROVE CleanInv'
<1>0. task[t] \in TaskStates /\ task[t].pc = "adding"
  BY DEF CleanInv, TasksTyped, Added
<1>1. /\ UNCHANGED <<agentBlocks, held, queue>>
      /\ DOMAIN agents' = DOMAIN agents \cup {task[t].agent}
      /\ Become(t, Idle)
  BY DEF Added, lshVars
<1>2. Idle \in TaskStates
  BY DEF TaskStates
<1>3. /\ TasksTyped'
      /\ task'[t] = Idle
      /\ \A u \in Tasks : u # t => task'[u] = task[u]
  BY <1>1, <1>2, BecomeEffect DEF CleanInv
<1>4. QueueWaits' /\ \A i \in 1..Len(queue) : queue[i] \in Tasks /\ queue[i] # t
  BY <1>0, <1>1, <1>3 DEF CleanInv, QueueWaits
<1>5. Pending'
  <2> SUFFICES ASSUME NEW b \in Agents, b \notin DOMAIN agents', Listed(b) \/ b \in held
               PROVE  \E u \in Tasks : Registering(u, b)'
    BY <1>1 DEF Pending, Listed
  <2>1. PICK u \in Tasks : Registering(u, b)
    BY <1>1 DEF CleanInv, Pending
  <2>2. u # t
    BY <2>1, <1>1 DEF Registering
  <2> QED
    BY <2>1, <2>2, <1>3 DEF Registering
<1>6. Overtaken'
  <2> SUFFICES ASSUME NEW i \in 1..Len(queue), task[queue[i]].call = "clear",
                      Listed(task[queue[i]].agent)
               PROVE  \E u \in Tasks : Behind(u, task[queue[i]].agent, i)'
    BY <1>1, <1>3, <1>4 DEF Overtaken, Listed
  <2>1. PICK u \in Tasks : Behind(u, task[queue[i]].agent, i)
    BY DEF CleanInv, Overtaken
  <2>2. u # t
    BY <2>1, <1>0 DEF Behind
  <2> QED
    BY <2>1, <2>2, <1>1, <1>3, <1>4 DEF Behind
<1> QED
  BY <1>3, <1>4, <1>5, <1>6 DEF CleanInv

\* What forgetting the agent b does
LEMMA ForgetEffect ==
    ASSUME NEW b, Forget(b)
    PROVE  /\ DOMAIN agents' = DOMAIN agents \ {b}
           /\ held' = held \ {b}
BY DEF Forget, Cache!Drop

LEMMA ClearStep ==
    ASSUME CleanInv, NEW t \in Tasks, NEW a \in Agents, Clear(t, a) PROVE CleanInv'
<1>0. task[t].pc = "idle" /\ ClearOwners({a} \X Parts)
  BY DEF Clear, MayCall, Idle
<1>1. \A b : Listed(b)' => b # a /\ Listed(b)
  <2>1. DOMAIN agentBlocks' = DOMAIN agentBlocks \ ({a} \X Parts)
    BY <1>0 DEF ClearOwners
  <2> QED
    BY <2>1 DEF Listed
<1>2. CASE Forget(a) /\ UNCHANGED <<task, queue>> /\ LockFree
  <2>1. DOMAIN agents' = DOMAIN agents \ {a} /\ held' = held \ {a}
    BY <1>2, ForgetEffect
  <2>2. TasksTyped' /\ QueueWaits'
    BY <1>2 DEF CleanInv, TasksTyped, QueueWaits
  <2>3. Pending'
    <3> SUFFICES ASSUME NEW b \in Agents, b \notin DOMAIN agents', Listed(b)' \/ b \in held'
                 PROVE  \E u \in Tasks : Registering(u, b)'
      BY DEF Pending
    <3>1. b \notin DOMAIN agents /\ (Listed(b) \/ b \in held)
      BY <1>1, <2>1
    <3>2. PICK u \in Tasks : Registering(u, b)
      BY <3>1 DEF CleanInv, Pending
    <3> QED
      BY <3>2, <1>2 DEF Registering
  <2>4. Overtaken'
    BY <1>2 DEF LockFree, Overtaken
  <2> QED
    BY <2>2, <2>3, <2>4 DEF CleanInv
<1>3. CASE /\ Become(t, [pc |-> "waiting", call |-> "clear", agent |-> a])
           /\ queue' = Append(queue, t)
           /\ UNCHANGED <<agents, held>>
  <2> DEFINE s == [pc |-> "waiting", call |-> "clear", agent |-> a]
  <2>1. s \in TaskStates /\ s.pc = "waiting" /\ s.call = "clear" /\ s.agent = a
    BY DEF TaskStates
  <2>2. /\ TasksTyped'
        /\ task'[t] = s
        /\ \A u \in Tasks : u # t => task'[u] = task[u]
    BY <1>3, <2>1, BecomeEffect DEF CleanInv
  <2> HIDE DEF s
  <2>3. \A i \in 1..Len(queue) : queue[i] \in Tasks /\ queue[i] # t
    BY <1>0 DEF CleanInv, QueueWaits
  <2>4. queue \in Seq(Tasks)
    BY DEF CleanInv, QueueWaits
  <2>5. /\ queue' \in Seq(Tasks) /\ Len(queue) \in Nat /\ Len(queue') = Len(queue) + 1
        /\ queue'[Len(queue) + 1] = t
        /\ \A i \in 1..Len(queue) : queue'[i] = queue[i]
    BY <1>3, <2>4
  <2>6. \A i \in 1..Len(queue') : i \in 1..Len(queue) \/ i = Len(queue) + 1
    BY <2>5
  <2>7. QueueWaits'
    <3>1. task'[t].pc = "waiting"
      BY <2>1, <2>2
    <3>2. \A i \in 1..Len(queue) : task'[queue'[i]].pc = "waiting"
      BY <2>2, <2>3, <2>5 DEF CleanInv, QueueWaits
    <3>3. \A i \in 1..Len(queue') : task'[queue'[i]].pc = "waiting"
      BY <2>5, <2>6, <3>1, <3>2
    <3>4. \A i, j \in 1..Len(queue') : i # j => queue'[i] # queue'[j]
      BY <2>3, <2>5, <2>6 DEF CleanInv, QueueWaits
    <3> QED
      BY <2>5, <3>3, <3>4 DEF QueueWaits
  <2>8. Pending'
    <3> SUFFICES ASSUME NEW b \in Agents, b \notin DOMAIN agents, Listed(b)' \/ b \in held
                 PROVE  \E u \in Tasks : Registering(u, b)'
      BY <1>3 DEF Pending
    <3>1. PICK u \in Tasks : Registering(u, b)
      BY <1>1 DEF CleanInv, Pending
    <3>2. u # t
      BY <1>0, <3>1 DEF Registering
    <3> QED
      BY <2>2, <3>1, <3>2 DEF Registering
  <2>9. Overtaken'
    <3> SUFFICES ASSUME NEW i \in 1..Len(queue'), task'[queue'[i]].call = "clear",
                        Listed(task[queue[i]].agent)'
                 PROVE  \E u \in Tasks : Behind(u, task[queue[i]].agent, i)'
      BY DEF Overtaken
    <3> DEFINE b == task[queue[i]].agent
    <3>1. i \in 1..Len(queue)
      <4>1. task'[t].agent = a
        BY <2>1, <2>2
      <4> QED
        BY <1>1, <2>5, <2>6, <4>1
    <3>2. task'[queue'[i]] = task[queue[i]]
      BY <3>1, <2>2, <2>3, <2>5
    <3>3. Listed(b)
      BY <1>1, <3>2
    <3>4. PICK u \in Tasks : Behind(u, b, i)
      BY <3>1, <3>2, <3>3 DEF CleanInv, Overtaken
    <3>5. task'[u] = task[u]
      BY <1>0, <2>2, <3>4 DEF Behind
    <3>6. CASE task[u].pc \in {"full", "embedding"}
      BY <3>2, <3>4, <3>5, <3>6 DEF Behind
    <3>7. CASE task[u].pc = "waiting"
      <4>1. PICK j \in 1..Len(queue) : j > i /\ queue[j] = u
        BY <3>4, <3>7 DEF Behind
      <4>2. j \in 1..Len(queue') /\ queue'[j] = u
        BY <4>1, <2>5
      <4> QED
        BY <3>2, <3>4, <3>5, <3>7, <4>1, <4>2 DEF Behind
    <3> QED
      BY <3>4, <3>6, <3>7 DEF Behind
  <2> QED
    BY <2>2, <2>7, <2>8, <2>9 DEF CleanInv
<1> QED
  BY <1>2, <1>3 DEF Clear

-----------------------------------------------------------------------------
\* The queue without its first waiter
LEMMA TailEffect ==
    ASSUME NEW q \in Seq(Tasks), q # << >>
    PROVE  /\ Head(q) = q[1] /\ 1 \in 1..Len(q)
           /\ Tail(q) \in Seq(Tasks) /\ Len(q) \in Nat /\ Len(Tail(q)) = Len(q) - 1
           /\ \A i \in 1..Len(Tail(q)) :
                i + 1 \in 1..Len(q) /\ i + 1 # 1 /\ Tail(q)[i] = q[i + 1]
OBVIOUS

\* Whoever waits behind a position of the queue waits behind it when the first
\* waiter has left
LEMMA BehindShifts ==
    ASSUME QueueWaits, queue # << >>, queue' = Tail(queue),
           \A v \in Tasks : v # queue[1] => task'[v] = task[v],
           NEW u \in Tasks, NEW b, NEW i \in 1..Len(queue'),
           Behind(u, b, i + 1)
    PROVE  Behind(u, b, i)'
<1>1. /\ 1 \in 1..Len(queue) /\ Len(queue) \in Nat /\ Len(queue') = Len(queue) - 1
      /\ \A k \in 1..Len(queue') :
           k + 1 \in 1..Len(queue) /\ k + 1 # 1 /\ queue'[k] = queue[k + 1]
  BY TailEffect DEF QueueWaits
<1>2. CASE task[u].pc \in {"full", "embedding"}
  <2>1. u # queue[1]
    BY <1>1, <1>2 DEF QueueWaits
  <2> QED
    BY <1>2, <2>1 DEF Behind
<1>3. CASE task[u].pc = "waiting"
  <2>1. PICK j \in 1..Len(queue) : j > i + 1 /\ queue[j] = u
    BY <1>3 DEF Behind
  <2>2. u # queue[1]
    BY <1>1, <2>1 DEF QueueWaits
  <2>3. j - 1 \in 1..Len(queue') /\ j - 1 > i /\ queue'[j - 1] = u
    BY <1>1, <2>1
  <2> QED
    BY <1>3, <2>2, <2>3 DEF Behind
<1> QED
  BY <1>2, <1>3 DEF Behind

LEMMA GrantedStep == ASSUME CleanInv, Granted PROVE CleanInv'
<1> DEFINE h == queue[1]
<1>0. QueueWaits /\ queue \in Seq(Tasks) /\ queue # << >> /\ queue' = Tail(queue)
  BY DEF CleanInv, QueueWaits, Granted
<1>1. /\ Head(queue) = h /\ 1 \in 1..Len(queue)
      /\ queue' \in Seq(Tasks) /\ Len(queue) \in Nat /\ Len(queue') = Len(queue) - 1
      /\ \A k \in 1..Len(queue') :
           k + 1 \in 1..Len(queue) /\ k + 1 # 1 /\ queue'[k] = queue[k + 1]
  BY <1>0, TailEffect
<1>2. h \in Tasks /\ task[h] \in TaskStates /\ task[h].pc = "waiting"
  BY <1>0, <1>1 DEF CleanInv, TasksTyped, QueueWaits
<1>3. UNCHANGED agentBlocks
  BY DEF Granted, lshVars
<1>4. \/ /\ task[h].call = "register"
         /\ Become(h, [task[h] EXCEPT !.pc = "adding"])
         /\ UNCHANGED <<agents, held>>
      \/ /\ task[h].call = "clear"
         /\ Forget(task[h].agent)
         /\ Become(h, Idle)
  BY <1>1 DEF Granted
<1>5. [task[h] EXCEPT !.pc = "adding"] \in TaskStates \/ task[h].call # "register"
  BY <1>2, WaitingGoesOn
<1>6. Idle \in TaskStates
  BY DEF TaskStates
<1> HIDE DEF h
<1>7. TasksTyped' /\ \A v \in Tasks : v # h => task'[v] = task[v]
  BY <1>2, <1>4, <1>5, <1>6, BecomeEffect DEF CleanInv
<1>8. h = queue[1]
  BY DEF h
<1>9. \A k \in 1..Len(queue') : queue'[k] \in Tasks /\ task'[queue'[k]] = task[queue[k + 1]]
  <2> SUFFICES ASSUME NEW k \in 1..Len(queue')
               PROVE  queue'[k] \in Tasks /\ task'[queue'[k]] = task[queue[k + 1]]
    OBVIOUS
  <2>1. k + 1 \in 1..Len(queue) /\ k + 1 # 1 /\ queue'[k] = queue[k + 1]
    BY <1>1
  <2>2. queue[k + 1] \in Tasks /\ queue[k + 1] # h
    BY <1>0, <1>1, <1>8, <2>1 DEF QueueWaits
  <2> QED
    BY <1>7, <2>1, <2>2
<1>10. QueueWaits'
  <2>1. \A k \in 1..Len(queue') : task'[queue'[k]].pc = "waiting"
    BY <1>0, <1>1, <1>9 DEF QueueWaits
  <2>2. ASSUME NEW i \in 1..Len(queue'), NEW j \in 1..Len(queue'), i # j
        PROVE  queue'[i] # queue'[j]
    <3>1. /\ i + 1 \in 1..Len(queue) /\ queue'[i] = queue[i + 1]
          /\ j + 1 \in 1..Len(queue) /\ queue'[j] = queue[j + 1]
      BY <1>1
    <3>2. i + 1 # j + 1
      BY <2>2
    <3> QED
      BY <1>0, <3>1, <3>2 DEF QueueWaits
  <2> QED
    BY <1>1, <2>1, <2>2 DEF QueueWaits
<1>11. Overtaken'
  <2> SUFFICES ASSUME NEW i \in 1..Len(queue'), task'[queue'[i]].call = "clear",
                      Listed(task[queue[i]].agent)'
               PROVE  \E u \in Tasks : Behind(u, task[queue[i]].agent, i)'
    BY DEF Overtaken
  <2>0. PICK b : b = task[queue[i + 1]].agent
    OBVIOUS
  <2>1. i + 1 \in 1..Len(queue) /\ task'[queue'[i]] = task[queue[i + 1]]
    BY <1>1, <1>9
  <2>2. Listed(b)
    BY <1>3, <2>0, <2>1 DEF Listed
  <2>3. PICK u \in Tasks : Behind(u, b, i + 1)
    BY <2>0, <2>1, <2>2 DEF CleanInv, Overtaken
  <2>4. \A v \in Tasks : v # queue[1] => task'[v] = task[v]
    BY <1>7, <1>8
  <2>5. Behind(u, b, i)'
    BY <1>0, <2>3, <2>4, BehindShifts
  <2> QED
    BY <2>0, <2>1, <2>5 DEF Behind
<1>12. Pending'
  <2>1. CASE /\ task[h].call = "register"
             /\ Become(h, [task[h] EXCEPT !.pc = "adding"])
             /\ UNCHANGED <<agents, held>>
    <3>1. task'[h].pc = "adding" /\ task'[h].agent = task[h].agent
      <4>1. task'[h] = [task[h] EXCEPT !.pc = "adding"]
        BY <1>2, <1>5, <2>1, BecomeEffect DEF CleanInv
      <4> QED
        BY <1>2, <2>1, <4>1, WaitingGoesOn
    <3> SUFFICES ASSUME NEW b \in Agents, b \notin DOMAIN agents, Listed(b) \/ b \in held
                 PROVE  \E u \in Tasks : Registering(u, b)'
      BY <1>3, <2>1 DEF Pending, Listed
    <3>2. PICK u \in Tasks : Registering(u, b)
      BY DEF CleanInv, Pending
    <3> QED
      BY <1>7, <3>1, <3>2 DEF Registering
  <2>2. CASE /\ task[h].call = "clear"
             /\ Forget(task[h].agent)
             /\ Become(h, Idle)
    <3> DEFINE a == task[h].agent
    <3>1. DOMAIN agents' = DOMAIN agents \ {a} /\ held' = held \ {a}
      BY <2>2, ForgetEffect
    <3>2. ASSUME NEW u \in Tasks, NEW b, Registering(u, b) PROVE Registering(u, b)'
      <4>1. u # h
        BY <1>2, <2>2, <3>2 DEF Registering
      <4> QED
        BY <1>7, <3>2, <4>1 DEF Registering
    <3> SUFFICES ASSUME NEW b \in Agents, b \notin DOMAIN agents', Listed(b)' \/ b \in held'
                 PROVE  \E u \in Tasks : Registering(u, b)'
      BY DEF Pending
    <3>3. Listed(b)' = Listed(b)
      BY <1>3 DEF Listed
    <3>4. CASE b = a
      <4>1. Listed(a)
        BY <3>1, <3>3, <3>4
      <4>2. PICK u \in Tasks : Behind(u, a, 1)
        BY <1>1, <1>8, <2>2, <4>1 DEF CleanInv, Overtaken
      <4>3. Registering(u, b)
        BY <3>4, <4>2 DEF Behind, Registering
      <4> QED
        BY <3>2, <4>3
    <3>5. CASE b # a
      <4>1. PICK u \in Tasks : Registering(u, b)
        BY <3>1, <3>3, <3>5 DEF CleanInv, Pending
      <4> QED
        BY <3>2, <4>1
    <3> QED
      BY <3>4, <3>5
  <2> QED
    BY <1>4, <2>1, <2>2
<1> QED
  BY <1>7, <1>10, <1>11, <1>12 DEF CleanInv

LEMMA CleanInvStep == ASSUME VectorsFit, CleanInv, [Next]_vars PROVE CleanInv'
<1>1. CASE CacheModeChange
  <2>1. /\ UNCHANGED <<agentBlocks, agents, task, queue>>
        /\ held' \subseteq held
    BY <1>1 DEF CacheModeChange, lshVars, Cache!ModeChange
  <2>2. TasksTyped' /\ QueueWaits' /\ Overtaken'
    BY <2>1 DEF CleanInv, TasksTyped, QueueWaits, Overtaken, Listed, Behind
  <2>3. Pending'
    BY <2>1 DEF CleanInv, Pending, Listed, Registering
  <2> QED
    BY <2>2, <2>3 DEF CleanInv
<1>2. CASE UNCHANGED vars
  BY <1>2 DEF vars, CleanInv, TasksTyped, QueueWaits, Overtaken, Listed, Behind,
              Pending, Registering
<1> QED
  BY <1>1, <1>2, RegisterStep, ClearStep, SystemIndexedStep, FullIndexedStep,
     EmbeddedStep, AddedStep, GrantedStep DEF Next

\* When vectors fit the index, an agent that is not registered and has no call
\* under way has left nothing in the LSH lists or the cache, for any number of
\* agents and tasks (context_registry.py, 484-506: the LSH lists are emptied
\* before the FAISS lock is waited for, the rest after it).
THEOREM NothingIsLeft == ASSUME VectorsFit PROVE Spec => []NothingLeftBehind
<1>1. CleanInv /\ [Next]_vars => CleanInv'
  BY CleanInvStep
<1> QED
  BY <1>1, CleanInvInit, CleanInvImplies, PTL DEF Spec

-----------------------------------------------------------------------------
(* What an agent is listed with in the LSH index is the text it is          *)
(* registered with, when callers have one call per agent under way.         *)

\* What a dictionary of lists d lists an owner with, and whether that is x
Listing(d, o) == IF o \in DOMAIN d THEN d[o] ELSE {}
Fits(d, a, x) == Listing(d, <<a, "full">>) = x.full /\ Listing(d, <<a, "system">>) = x.system

\* What a registration in state s has indexed so far is its own text.
TaskFits(d, s) ==
    /\ s.pc = "full" => Listing(d, <<s.agent, "system">>) = s.text.system
    /\ s.pc = "embedding" => Fits(d, s.agent, s.text)
    /\ s.pc \in {"waiting", "adding"} /\ s.call = "register" => Fits(d, s.agent, s.text)

\* No two tasks work on one agent.
OneCall ==
    \A t, u \in Tasks :
        task[t] # Idle /\ task[u] # Idle /\ task[t].agent = task[u].agent => t = u

WholeInv ==
    /\ TasksTyped /\ OneCall
    /\ \A t \in Tasks : TaskFits(agentBlocks, task[t])
    /\ \A a \in DOMAIN agents : ~Busy(a) => Fits(agentBlocks, a, agents[a])

LEMMA WholeIsRegistrationIsWhole == WholeInv => RegistrationIsWhole
BY DEF WholeInv, RegistrationIsWhole, Fits, Listing, BlocksOf

\* A step of task t for agent b leaves the other agents, their lists and their
\* tasks alone.  It keeps WholeInv if its own task and agent fit afterwards.
LEMMA OwnStep ==
    ASSUME WholeInv, NEW t \in Tasks, NEW b, NEW s \in TaskStates,
           Become(t, s),
           task[t] # Idle => task[t].agent = b,
           s # Idle => s.agent = b,
           \A u \in Tasks : u # t /\ task[u] # Idle => task[u].agent # b,
           \A a : a # b => \A p \in Parts :
               Listing(agentBlocks', <<a, p>>) = Listing(agentBlocks, <<a, p>>),
           \A a : a # b => /\ a \in DOMAIN agents' <=> a \in DOMAIN agents
                           /\ a \in DOMAIN agents => agents'[a] = agents[a],
           TaskFits(agentBlocks', s),
           s = Idle /\ b \in DOMAIN agents' => Fits(agentBlocks', b, agents'[b])
    PROVE  WholeInv'
<1>1. /\ TasksTyped'
      /\ task'[t] = s
      /\ \A u \in Tasks : u # t => task'[u] = task[u]
  BY BecomeEffect DEF WholeInv
<1>2. OneCall'
  BY <1>1 DEF OneCall, WholeInv
<1>3. \A a, x : a # b => Fits(agentBlocks', a, x) = Fits(agentBlocks, a, x)
  BY DEF Fits, Parts
<1>4. ASSUME NEW u \in Tasks PROVE TaskFits(agentBlocks', task'[u])
  <2>1. CASE u = t
    BY <1>1, <2>1
  <2>2. CASE u # t
    <3>1. task'[u] = task[u] /\ TaskFits(agentBlocks, task[u]) /\ task[u] \in TaskStates
      BY <1>1, <2>2 DEF WholeInv, TasksTyped
    <3>2. task[u] = Idle \/ task[u].agent # b
      BY <2>2
    <3>3. CASE task[u] = Idle
      BY <3>1, <3>3 DEF TaskFits, Idle
    <3>4. CASE task[u].agent # b
      <4>1. \A x : Fits(agentBlocks', task[u].agent, x) = Fits(agentBlocks, task[u].agent, x)
        BY <1>3, <3>4
      <4>2. Listing(agentBlocks', <<task[u].agent, "system">>)
              = Listing(agentBlocks, <<task[u].agent, "system">>)
        BY <3>4 DEF Parts
      <4> QED BY <3>1, <4>1, <4>2 DEF TaskFits
    <3> QED BY <3>2, <3>3, <3>4
  <2> QED BY <2>1, <2>2
<1>5. ASSUME NEW a \in DOMAIN agents', ~(Busy(a)')
      PROVE  Fits(agentBlocks', a, agents'[a])
  <2>1. \A u \in Tasks : task'[u] = Idle \/ task'[u].agent # a
    BY <1>5 DEF Busy
  <2>2. CASE a = b
    <3>1. s = Idle
      BY <1>1, <2>1, <2>2
    <3> QED BY <2>2, <3>1
  <2>3. CASE a # b
    <3>1. a \in DOMAIN agents /\ agents'[a] = agents[a]
      BY <2>3
    <3>2. ~Busy(a)
      BY <1>1, <2>1, <2>3 DEF Busy
    <3>3. Fits(agentBlocks, a, agents[a])
      BY <3>1, <3>2 DEF WholeInv
    <3> QED BY <1>3, <2>3, <3>1, <3>3
  <2> QED BY <2>2, <2>3
<1> QED
  BY <1>1, <1>2, <1>4, <1>5 DEF WholeInv

\* No other task works on the agent of a task, or on one a call may begin for.
LEMMA OthersWorkElsewhere ==
    ASSUME WholeInv, NEW t \in Tasks
    PROVE  /\ task[t] # Idle =>
                \A u \in Tasks : u # t /\ task[u] # Idle => task[u].agent # task[t].agent
           /\ OneCallPerAgent => \A a : MayCall(t, a) =>
                \A u \in Tasks : u # t /\ task[u] # Idle => task[u].agent # a
BY DEF WholeInv, OneCall, MayCall, Busy

\* One part of the agent's text is indexed, the other's list left alone.
LEMMA IndexLists ==
    ASSUME NEW a, NEW part \in Parts, NEW H, IndexPrompt(<<a, part>>, H)
    PROVE  /\ Listing(agentBlocks', <<a, part>>) = H
           /\ \A o : o # <<a, part>> => Listing(agentBlocks', o) = Listing(agentBlocks, o)
BY DEF IndexPrompt, Listing

LEMMA ClearLists ==
    ASSUME NEW a, ClearOwners({a} \X Parts)
    PROVE  \A b : b # a => \A p \in Parts :
               Listing(agentBlocks', <<b, p>>) = Listing(agentBlocks, <<b, p>>)
BY DEF ClearOwners, Listing

LEMMA WholeInvStep ==
    ASSUME OneCallPerAgent, VectorsFit, CleanInv, WholeInv, [Next]_vars
    PROVE  WholeInv'
<1>0. \A t \in Tasks : task[t] \in TaskStates
  BY DEF WholeInv, TasksTyped
<1>1. ASSUME NEW t \in Tasks, NEW a \in Agents, NEW x \in Texts, Register(t, a, x)
      PROVE  WholeInv'
  <2> DEFINE s == [pc |-> "system", agent |-> a, text |-> x]
  <2>1. s \in TaskStates /\ s.pc = "system" /\ s.agent = a
    BY PreparingStates
  <2>2. /\ Become(t, s) /\ MayCall(t, a) /\ task[t] = Idle
        /\ agentBlocks' = agentBlocks /\ agents' = agents
    BY <1>1 DEF Register, MayCall, lshVars
  <2> HIDE DEF s
  <2>3. TaskFits(agentBlocks', s) /\ s # Idle
    BY <2>1 DEF TaskFits, Idle
  <2>4. \A u \in Tasks : u # t /\ task[u] # Idle => task[u].agent # a
    BY <2>2, OthersWorkElsewhere
  <2> QED BY <2>1, <2>2, <2>3, <2>4, OwnStep
<1>2. ASSUME NEW t \in Tasks, SystemIndexed(t) PROVE WholeInv'
  <2> DEFINE s == [task[t] EXCEPT !.pc = "full"]
             a == task[t].agent
  <2>1. /\ task[t].pc = "system" /\ task[t] # Idle
        /\ IndexPrompt(<<a, "system">>, task[t].text.system)
        /\ Become(t, s) /\ agents' = agents
    BY <1>2 DEF SystemIndexed, Idle
  <2>2. s \in TaskStates /\ s.pc = "full" /\ s.agent = a /\ s.text = task[t].text
    <3>1. s.text = task[t].text
      BY <1>0, <2>1 DEF TaskStates, Idle
    <3> QED BY <1>0, <2>1, <3>1, PreparingGoesOn
  <2>3. "system" \in Parts
    BY DEF Parts
  <2>4. /\ Listing(agentBlocks', <<a, "system">>) = task[t].text.system
        /\ \A o : o # <<a, "system">> => Listing(agentBlocks', o) = Listing(agentBlocks, o)
    BY <2>1, <2>3, IndexLists
  <2>5. \A u \in Tasks : u # t /\ task[u] # Idle => task[u].agent # a
    BY <2>1, OthersWorkElsewhere
  <2> HIDE DEF s, a
  <2>6. TaskFits(agentBlocks', s)
    BY <2>2, <2>4 DEF TaskFits
  <2>7. s # Idle /\ task[t].agent = a
    BY <2>2 DEF Idle, a
  <2>8. \A b : b # a => \A p \in Parts :
               Listing(agentBlocks', <<b, p>>) = Listing(agentBlocks, <<b, p>>)
    BY <2>4
  <2> QED BY <2>1, <2>2, <2>5, <2>6, <2>7, <2>8, OwnStep
<1>3. ASSUME NEW t \in Tasks, FullIndexed(t) PROVE WholeInv'
  <2> DEFINE s == [task[t] EXCEPT !.pc = "embedding"]
             a == task[t].agent
  <2>1. /\ task[t].pc = "full" /\ task[t] # Idle
        /\ IndexPrompt(<<a, "full">>, task[t].text.full)
        /\ Become(t, s) /\ agents' = agents
    BY <1>3 DEF FullIndexed, Idle
  <2>2. s \in TaskStates /\ s.pc = "embedding" /\ s.agent = a /\ s.text = task[t].text
    <3>1. s.text = task[t].text
      BY <1>0, <2>1 DEF TaskStates, Idle
    <3> QED BY <1>0, <2>1, <3>1, PreparingGoesOn
  <2>3. "full" \in Parts
    BY DEF Parts
  <2>4. /\ Listing(agentBlocks', <<a, "full">>) = task[t].text.full
        /\ \A o : o # <<a, "full">> => Listing(agentBlocks', o) = Listing(agentBlocks, o)
    BY <2>1, <2>3, IndexLists
  <2>5. Listing(agentBlocks, <<a, "system">>) = task[t].text.system
    BY <2>1 DEF WholeInv, TaskFits
  <2>6. \A u \in Tasks : u # t /\ task[u] # Idle => task[u].agent # a
    BY <2>1, OthersWorkElsewhere
  <2> HIDE DEF s, a
  <2>7. TaskFits(agentBlocks', s)
    BY <2>2, <2>4, <2>5 DEF TaskFits, Fits
  <2>8. s # Idle /\ task[t].agent = a
    BY <2>2 DEF Idle, a
  <2>9. \A b : b # a => \A p \in Parts :
               Listing(agentBlocks', <<b, p>>) = Listing(agentBlocks, <<b, p>>)
    BY <2>4
  <2> QED BY <2>1, <2>2, <2>6, <2>7, <2>8, <2>9, OwnStep
<1>4. ASSUME NEW t \in Tasks, NEW stored \in BOOLEAN, Embedded(t, stored) PROVE WholeInv'
  <2> DEFINE a == task[t].agent
             st(pc) == [pc |-> pc, call |-> "register", agent |-> a,
                        text |-> task[t].text, stored |-> stored]
  <2>1. /\ task[t].pc = "embedding" /\ task[t] # Idle
        /\ agentBlocks' = agentBlocks /\ agents' = agents
    BY <1>4 DEF Embedded, Idle, lshVars
  <2>2. a \in Agents /\ task[t].text \in Texts
    BY <1>0, <2>1, StateFields
  <2>3. PICK pc \in {"waiting", "adding"} : Become(t, st(pc))
    BY <1>4 DEF Embedded
  <2> DEFINE s == st(pc)
  <2>4. /\ s \in TaskStates /\ s.pc = pc /\ s.agent = a /\ s.text = task[t].text
    BY <2>2, PreparingStates
  <2>5. Fits(agentBlocks, a, task[t].text)
    BY <2>1 DEF WholeInv, TaskFits
  <2>6. \A u \in Tasks : u # t /\ task[u] # Idle => task[u].agent # a
    BY <2>1, OthersWorkElsewhere
  <2> HIDE DEF s, a
  <2>7. TaskFits(agentBlocks', s) /\ s # Idle
    BY <2>1, <2>4, <2>5 DEF TaskFits, Idle
  <2>8. task[t].agent = a /\ Become(t, s)
    BY <2>3 DEF a, s
  <2> QED BY <2>1, <2>4, <2>6, <2>7, <2>8, OwnStep
<1>5. ASSUME NEW t \in Tasks, Added(t) PROVE WholeInv'
  <2> DEFINE a == task[t].agent
  <2>1. /\ task[t].pc = "adding" /\ task[t] # Idle
        /\ agentBlocks' = agentBlocks /\ Become(t, Idle)
        /\ agents' = [b \in DOMAIN agents \cup {a} |->
                        IF b = a THEN task[t].text ELSE agents[b]]
    BY <1>5 DEF Added, Idle, lshVars
  <2>2. task[t].call = "register"
    BY <1>0, <2>1 DEF TaskStates, Idle
  <2>3. Fits(agentBlocks, a, task[t].text)
    BY <2>1, <2>2 DEF WholeInv, TaskFits
  <2>4. Idle \in TaskStates /\ TaskFits(agentBlocks', Idle)
    BY DEF TaskStates, TaskFits, Idle
  <2>5. \A u \in Tasks : u # t /\ task[u] # Idle => task[u].agent # a
    BY <2>1, OthersWorkElsewhere
  <2>6. task[t].agent = a
    OBVIOUS
  <2> HIDE DEF a
  <2>7. /\ agents'[a] = task[t].text
        /\ \A b : b # a => /\ b \in DOMAIN agents' <=> b \in DOMAIN agents
                           /\ b \in DOMAIN agents => agents'[b] = agents[b]
    BY <2>1
  <2> QED BY <2>1, <2>3, <2>4, <2>5, <2>6, <2>7, OwnStep
<1>6. ASSUME NEW t \in Tasks, NEW a \in Agents, Clear(t, a) PROVE WholeInv'
  <2>1. MayCall(t, a) /\ task[t] = Idle /\ ClearOwners({a} \X Parts)
    BY <1>6 DEF Clear, MayCall
  <2>2. \A u \in Tasks : u # t /\ task[u] # Idle => task[u].agent # a
    BY <2>1, OthersWorkElsewhere
  <2>3. \A b : b # a => \A p \in Parts :
               Listing(agentBlocks', <<b, p>>) = Listing(agentBlocks, <<b, p>>)
    BY <2>1, ClearLists
  <2>4. CASE Forget(a) /\ UNCHANGED task
    <3>1. Become(t, Idle)
      BY <2>1, <2>4 DEF Become, WholeInv, TasksTyped
    <3>2. Idle \in TaskStates /\ TaskFits(agentBlocks', Idle)
      BY DEF TaskStates, TaskFits, Idle
    <3>3. /\ a \notin DOMAIN agents'
          /\ \A b : b # a => /\ b \in DOMAIN agents' <=> b \in DOMAIN agents
                             /\ b \in DOMAIN agents => agents'[b] = agents[b]
      BY <2>4 DEF Forget
    <3> QED BY <2>1, <2>2, <2>3, <3>1, <3>2, <3>3, OwnStep
  <2>5. CASE /\ Become(t, [pc |-> "waiting", call |-> "clear", agent |-> a])
             /\ UNCHANGED agents
    <3> DEFINE s == [pc |-> "waiting", call |-> "clear", agent |-> a]
    <3>1. s \in TaskStates /\ s.pc = "waiting" /\ s.call = "clear" /\ s.agent = a
      BY PreparingStates DEF TaskStates
    <3> HIDE DEF s
    <3>2. TaskFits(agentBlocks', s) /\ s # Idle
      BY <3>1 DEF TaskFits, Idle
    <3>3. Become(t, s) /\ agents' = agents
      BY <2>5 DEF s
    <3> QED BY <2>1, <2>2, <2>3, <3>1, <3>2, <3>3, OwnStep
  <2> QED BY <1>6, <2>4, <2>5 DEF Clear
<1>7. CASE Granted
  <2> DEFINE h == Head(queue)
  <2>1. h \in Tasks /\ task[h].pc = "waiting" /\ task[h] # Idle
    <3>1. QueueWaits /\ queue \in Seq(Tasks) /\ queue # << >>
      BY <1>7 DEF CleanInv, QueueWaits, Granted
    <3>2. h = queue[1] /\ 1 \in 1..Len(queue)
      BY <3>1, TailEffect
    <3>3. h \in Tasks /\ task[h].pc = "waiting"
      BY <3>1, <3>2 DEF QueueWaits
    <3> QED BY <3>3 DEF Idle
  <2>2. agentBlocks' = agentBlocks
    BY <1>7 DEF Granted, lshVars
  <2>3. \A u \in Tasks : u # h /\ task[u] # Idle => task[u].agent # task[h].agent
    BY <2>1, OthersWorkElsewhere
  <2>4. CASE /\ task[h].call = "register"
             /\ Become(h, [task[h] EXCEPT !.pc = "adding"])
             /\ UNCHANGED agents
    <3> DEFINE s == [task[h] EXCEPT !.pc = "adding"]
    <3>1. /\ s \in TaskStates /\ s.pc = "adding" /\ s.agent = task[h].agent
          /\ s.text = task[h].text
      <4>1. s.text = task[h].text
        BY <1>0, <2>1, <2>4 DEF TaskStates, Idle
      <4> QED BY <1>0, <2>1, <2>4, <4>1, WaitingGoesOn
    <3>2. Fits(agentBlocks, task[h].agent, task[h].text)
      BY <2>1, <2>4 DEF WholeInv, TaskFits
    <3>3. Become(h, s) /\ agents' = agents
      BY <2>4
    <3> HIDE DEF s, h
    <3>4. TaskFits(agentBlocks', s) /\ s # Idle
      BY <2>2, <3>1, <3>2 DEF TaskFits, Idle
    <3> QED BY <2>1, <2>2, <2>3, <3>1, <3>3, <3>4, OwnStep
  <2>5. CASE Forget(task[h].agent) /\ Become(h, Idle)
    <3> DEFINE a == task[h].agent
    <3>1. /\ a \notin DOMAIN agents'
          /\ \A b : b # a => /\ b \in DOMAIN agents' <=> b \in DOMAIN agents
                             /\ b \in DOMAIN agents => agents'[b] = agents[b]
      BY <2>5 DEF Forget
    <3>2. Idle \in TaskStates /\ TaskFits(agentBlocks', Idle)
      BY DEF TaskStates, TaskFits, Idle
    <3>3. task[h].agent = a
      OBVIOUS
    <3> HIDE DEF h, a
    <3> QED BY <2>1, <2>2, <2>3, <2>5, <3>1, <3>2, <3>3, OwnStep
  <2> QED BY <1>7, <2>4, <2>5 DEF Granted
<1>8. CASE UNCHANGED <<agentBlocks, agents, task>>
  BY <1>8 DEF WholeInv, TasksTyped, OneCall, Busy
<1> QED
  BY <1>1, <1>2, <1>3, <1>4, <1>5, <1>6, <1>7, <1>8
     DEF Next, CacheModeChange, vars, lshVars

\* With one call per agent under way, the LSH index lists a registered agent
\* with both parts of the text it is registered with: its last registration
\* indexed them, and no call on another agent touches them.  (When vectors do
\* not fit, no registration ever completes.)
THEOREM RegistrationsAreWhole ==
    ASSUME OneCallPerAgent PROVE Spec => []RegistrationIsWhole
<1>1. CASE VectorsFit
  <2>1. Init => CleanInv /\ WholeInv
    <3> SUFFICES ASSUME Init PROVE CleanInv /\ WholeInv
      OBVIOUS
    <3>1. CleanInv
      BY CleanInvInit
    <3>2. \A t \in Tasks : task[t] = Idle
      BY DEF Init
    <3>3. WholeInv
      BY <3>1, <3>2 DEF CleanInv, WholeInv, OneCall, TaskFits, Idle, Init, NoDict
    <3> QED BY <3>1, <3>3
  <2>2. (CleanInv /\ WholeInv) /\ [Next]_vars => (CleanInv /\ WholeInv)'
    BY <1>1, CleanInvStep, WholeInvStep
  <2>3. CleanInv /\ WholeInv => RegistrationIsWhole
    BY WholeIsRegistrationIsWhole
  <2> QED BY <2>1, <2>2, <2>3, PTL DEF Spec
<1>2. CASE ~VectorsFit
  <2> DEFINE NoAgents == DOMAIN agents = {}
  <2>1. Init => NoAgents
    BY DEF Init, NoDict
  <2>2. NoAgents /\ [Next]_vars => NoAgents'
    BY <1>2 DEF Next, vars, Register, SystemIndexed, FullIndexed, Embedded, Added, Clear,
                Granted, Forget, CacheModeChange
  <2>3. NoAgents => RegistrationIsWhole
    BY DEF RegistrationIsWhole
  <2> QED BY <2>1, <2>2, <2>3, PTL DEF Spec
<1> QED BY <1>1, <1>2
=============================================================================
