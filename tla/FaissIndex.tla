----------------------------- MODULE FaissIndex -----------------------------
(***************************************************************************)
(* dedup/faiss_index.py: vectors live in a FAISS index that only appends;  *)
(* two dictionaries translate FAISS positions to agents and back.  Tasks   *)
(* of one event loop call it.  add and upgrade_to_ivf hold the asyncio     *)
(* lock while an executor thread works on the index; search and            *)
(* get_embedding let a thread read the index without the lock.             *)
(*                                                                         *)
(* An agent's embedding is identified with the agent.  A step of a task    *)
(* runs until its next suspension: a lock that must be waited for, or an   *)
(* executor job.  A thread's job is a step of its own.                     *)
(*                                                                         *)
(* A definition marked (fault) is a plausible bug in the definition after  *)
(* it; nothing uses it, and some property tells the two apart.             *)
(***************************************************************************)
EXTENDS Integers, Sequences, FiniteSets, Functions

CONSTANTS
    Agents,
    Tasks,        \* coroutines that may call the index
    NoTask,       \* the lock is free
    MinTrain,     \* upgrade_to_ivf needs this many vectors (1000 in the code)
    MaxVectors,   \* bound: no add is called once the index holds this many
    WithReset,    \* whether tasks may call reset()
    WithCancel    \* whether a task may be cancelled inside add()

ASSUME NoTaskAssumption == NoTask \notin Tasks
ASSUME BoundsAssumption == MinTrain \in Nat /\ MaxVectors \in Nat
ASSUME SwitchAssumption == WithReset \in BOOLEAN /\ WithCancel \in BOOLEAN

VARIABLES
    vec,          \* the FAISS index: position -> agent whose vector is there
    ntotal,       \* _index.ntotal
    initialized,  \* _initialized, and _index is not None
    ivf,          \* the index is an IndexIVFFlat
    idMap,        \* _id_map: position -> agent
    reverseMap,   \* _reverse_map: agent -> position
    nextId,       \* _next_id
    lock,         \* holder of _lock across a suspension
    queue,        \* tasks waiting for _lock, first come first served
    task,         \* what each task is doing
    orphans,      \* agents whose append outlives the add that asked for it
    answer        \* last answer of search/get_embedding: the agent named and
                  \* the agent whose vector was really read

index == <<vec, ntotal, initialized, ivf>>
maps  == <<idMap, reverseMap, nextId>>
vars  == <<vec, ntotal, initialized, ivf, idMap, reverseMap, nextId,
           lock, queue, task, orphans, answer>>

Idle == [pc |-> "idle"]
NoAnswer == [given |-> FALSE]
NoFun == [x \in {} |-> x]

\* the calls that take the lock
LockingCalls ==
    [call : {"add", "remove", "get"}, agent : Agents]
        \cup [call : {"ensure", "upgrade"}]
        \cup (IF WithReset THEN [call : {"reset"}] ELSE {})

TaskStates ==
    {Idle} \cup [pc : {"waiting"}, call : LockingCalls]
           \cup [pc : {"adding", "added"}, agent : Agents, at : Nat]
           \cup [pc : {"training"}, upto : Nat]
           \cup [pc : {"searching"}]
           \cup [pc : {"scored", "reading"}, agent : Agents, at : Nat]

LockFree == lock = NoTask /\ queue = << >>

Map(f, x, y) == [z \in DOMAIN f \cup {x} |-> IF z = x THEN y ELSE f[z]]
Unmap(f, x)  == Restrict(f, DOMAIN f \ {x})

-----------------------------------------------------------------------------
Init ==
    /\ vec = NoFun
    /\ ntotal = 0
    /\ initialized = FALSE
    /\ ivf = FALSE
    /\ idMap = NoFun
    /\ reverseMap = NoFun
    /\ nextId = 0
    /\ lock = NoTask
    /\ queue = << >>
    /\ task = [t \in Tasks |-> Idle]
    /\ orphans = << >>
    /\ answer = NoAnswer

Become(t, state) == task' = [task EXCEPT ![t] = state]

\* remove(): the latest position of the agent is forgotten, no earlier one
Remove(a) ==
    IF a \in DOMAIN reverseMap
      THEN /\ idMap' = Unmap(idMap, reverseMap[a])
           /\ reverseMap' = Unmap(reverseMap, a)
           /\ UNCHANGED nextId
      ELSE UNCHANGED maps

\* reset(): _init_state; the old FAISS index, and what a job still appends to
\* it, is dropped
Reset ==
    /\ orphans' = << >>
    /\ vec' = NoFun /\ ntotal' = 0
    /\ initialized' = FALSE /\ ivf' = FALSE
    /\ idMap' = NoFun /\ reverseMap' = NoFun /\ nextId' = 0

\* What a task does from taking the lock to its next suspension or return.
\* add and upgrade on a missing index raise and release the lock; a second
\* upgrade raises too (an IVF index cannot be reconstructed from).
HoldFor(t, state) == lock' = t /\ Become(t, state)
Release(t)        == lock' = NoTask /\ Become(t, Idle)

EnterAdd(t, a) ==
    /\ IF initialized THEN HoldFor(t, [pc |-> "adding", agent |-> a, at |-> nextId])
                      ELSE Release(t)
    /\ UNCHANGED <<index, maps, orphans>>

EnterUpgrade(t) ==
    /\ IF initialized /\ ~ivf THEN HoldFor(t, [pc |-> "training", upto |-> ntotal])
                              ELSE Release(t)
    /\ UNCHANGED <<index, maps, orphans>>

EnterGet(t, a) ==
    /\ Become(t, IF a \in DOMAIN reverseMap /\ ntotal > 0
                   THEN [pc |-> "reading", agent |-> a, at |-> reverseMap[a]]
                   ELSE Idle)
    /\ lock' = NoTask
    /\ UNCHANGED <<index, maps, orphans>>

\* _ensure_index re-checks under the lock: a second caller changes nothing
EnsureIndex ==
    /\ initialized' = TRUE
    /\ UNCHANGED <<vec, ntotal, ivf, maps, orphans>>

Enter(t, c) ==
    \/ c.call = "add"     /\ EnterAdd(t, c.agent)
    \/ c.call = "upgrade" /\ EnterUpgrade(t)
    \/ c.call = "get"     /\ EnterGet(t, c.agent)
    \/ c.call = "remove"  /\ Remove(c.agent) /\ Release(t) /\ UNCHANGED <<index, orphans>>
    \/ c.call = "ensure"  /\ EnsureIndex /\ Release(t)
    \/ c.call = "reset"   /\ Reset /\ Release(t)

\* The checks made before the lock is asked for.  add and get_embedding run
\* _ensure_index first, which takes and releases the lock itself.
Callable(c) ==
    /\ c.call = "ensure" => ~initialized
    /\ c.call \in {"add", "get"} => initialized
    /\ c.call = "add" => ntotal + Len(orphans) < MaxVectors
    /\ c.call = "upgrade" => initialized /\ ntotal >= MinTrain

Call(t, c) ==
    /\ task[t] = Idle
    /\ Callable(c)
    /\ IF LockFree
         THEN Enter(t, c) /\ UNCHANGED queue
         ELSE /\ Become(t, [pc |-> "waiting", call |-> c])
              /\ queue' = Append(queue, t)
              /\ UNCHANGED <<index, maps, lock, orphans>>
    /\ UNCHANGED answer

\* The first waiter gets the released lock
Granted ==
    /\ lock = NoTask
    /\ queue # << >>
    /\ Enter(Head(queue), task[Head(queue)].call)
    /\ queue' = Tail(queue)
    /\ UNCHANGED answer

\* An executor thread appends the vector
Append1(a) ==
    /\ vec' = Map(vec, ntotal, a)
    /\ ntotal' = ntotal + 1
    /\ UNCHANGED <<initialized, ivf>>

ThreadAdds(t) ==
    /\ task[t].pc = "adding"
    /\ Append1(task[t].agent)
    /\ Become(t, [task[t] EXCEPT !.pc = "added"])
    /\ UNCHANGED <<maps, lock, queue, orphans, answer>>

\* (fault) the position is used up although nothing was stored there
AddRaisesFault(t) ==
    /\ task[t].pc = "adding"
    /\ Release(t)
    /\ nextId' = nextId + 1
    /\ UNCHANGED <<index, idMap, reverseMap, queue, orphans, answer>>

\* ... or FAISS refuses it (a vector of another dimension), and add raises
AddRaises(t) ==
    /\ task[t].pc = "adding"
    /\ Release(t)
    /\ UNCHANGED <<index, maps, queue, orphans, answer>>

\* (fault) the position is read from the index after the append
AddReturnsFault(t) ==
    /\ task[t].pc = "added"
    /\ idMap' = Map(idMap, ntotal, task[t].agent)
    /\ reverseMap' = Map(reverseMap, task[t].agent, ntotal)
    /\ nextId' = nextId + 1
    /\ Release(t)
    /\ UNCHANGED <<index, queue, orphans, answer>>

AddReturns(t) ==
    /\ task[t].pc = "added"
    /\ idMap' = Map(idMap, task[t].at, task[t].agent)
    /\ reverseMap' = Map(reverseMap, task[t].agent, task[t].at)
    /\ nextId' = nextId + 1
    /\ Release(t)
    /\ UNCHANGED <<index, queue, orphans, answer>>

\* Cancelling the task releases the lock but not the thread's job, unless the
\* job had not started
AddCancelled(t) ==
    /\ WithCancel
    /\ task[t].pc \in {"adding", "added"}
    /\ orphans' \in {orphans} \cup
         (IF task[t].pc = "adding" THEN {Append(orphans, task[t].agent)} ELSE {})
    /\ Release(t)
    /\ UNCHANGED <<index, maps, queue, answer>>

OrphanAdds ==
    /\ orphans # << >>
    /\ initialized
    /\ Append1(Head(orphans))
    /\ orphans' = Tail(orphans)
    /\ UNCHANGED <<maps, lock, queue, task, answer>>

\* upgrade_to_ivf swaps in an index holding the vectors it found at its start;
\* a job still running appends to the index that was swapped out
Upgraded(t) ==
    /\ task[t].pc = "training"
    /\ vec' = Restrict(vec, 0 .. task[t].upto - 1)
    /\ ntotal' = task[t].upto
    /\ ivf' = TRUE
    /\ orphans' = << >>
    /\ Release(t)
    /\ UNCHANGED <<initialized, maps, queue, answer>>

\* search(): the thread scores positions; the loop maps them to agents later
Search(t) ==
    /\ task[t] = Idle
    /\ initialized
    /\ Become(t, [pc |-> "searching"])
    /\ UNCHANGED <<index, maps, lock, queue, orphans, answer>>

ThreadSearches(t) ==
    /\ task[t].pc = "searching"
    /\ \/ \E p \in DOMAIN vec :
            Become(t, [pc |-> "scored", at |-> p, agent |-> vec[p]])
       \/ Become(t, Idle)   \* no hit above the threshold, or no index: raises
    /\ UNCHANGED <<index, maps, lock, queue, orphans, answer>>

\* (fault) a hit at a position of no agent is searched for again
SearchReturnsFault(t) ==
    /\ task[t].pc = "scored"
    /\ IF task[t].at \in DOMAIN idMap
         THEN /\ answer' = [given |-> TRUE, named |-> idMap[task[t].at],
                            read |-> task[t].agent]
              /\ Become(t, Idle)
         ELSE Become(t, [pc |-> "searching"]) /\ UNCHANGED answer
    /\ UNCHANGED <<index, maps, lock, queue, orphans>>

SearchReturns(t) ==
    /\ task[t].pc = "scored"
    /\ answer' = IF task[t].at \in DOMAIN idMap
                   THEN [given |-> TRUE, named |-> idMap[task[t].at],
                         read |-> task[t].agent]
                   ELSE NoAnswer
    /\ Become(t, Idle)
    /\ UNCHANGED <<index, maps, lock, queue, orphans>>

\* get_embedding(): the position was read under the lock, the vector is not.
\* reconstruct() fails, and None is returned, on an IVF or a missing index.
GetReturns(t) ==
    /\ task[t].pc = "reading"
    /\ answer' = IF ~ivf /\ task[t].at \in DOMAIN vec
                   THEN [given |-> TRUE, named |-> task[t].agent,
                         read |-> vec[task[t].at]]
                   ELSE NoAnswer
    /\ Become(t, Idle)
    /\ UNCHANGED <<index, maps, lock, queue, orphans>>

Next ==
    \/ \E t \in Tasks :
         \/ \E c \in LockingCalls : Call(t, c)
         \/ ThreadAdds(t) \/ AddRaises(t) \/ AddReturns(t) \/ AddCancelled(t)
         \/ Upgraded(t)
         \/ Search(t) \/ ThreadSearches(t) \/ SearchReturns(t)
         \/ GetReturns(t)
    \/ Granted
    \/ OrphanAdds

Spec == Init /\ [][Next]_vars

\* The event loop wakes a granted waiter and a task whose job is done, and the
\* thread pool runs every job
Fairness ==
    /\ WF_vars(Granted)
    /\ \A t \in Tasks :
         /\ WF_vars(ThreadAdds(t) \/ AddRaises(t) \/ AddReturns(t))
         /\ WF_vars(Upgraded(t))
         /\ WF_vars(ThreadSearches(t) \/ SearchReturns(t) \/ GetReturns(t))

FairSpec == Spec /\ Fairness

-----------------------------------------------------------------------------
(* Correctness *)

IndexTypes ==
    /\ ntotal \in Nat
    /\ DOMAIN vec = 0 .. ntotal - 1
    /\ \A p \in DOMAIN vec : vec[p] \in Agents
    /\ initialized \in BOOLEAN
    /\ ivf \in BOOLEAN

MapTypes ==
    /\ DOMAIN idMap \subseteq Nat
    /\ \A p \in DOMAIN idMap : idMap[p] \in Agents
    /\ DOMAIN reverseMap \subseteq Agents
    /\ \A a \in DOMAIN reverseMap : reverseMap[a] \in Nat
    /\ nextId \in Nat

TaskTypes ==
    /\ lock \in Tasks \cup {NoTask}
    /\ queue \in Seq(Tasks)
    /\ task \in [Tasks -> TaskStates]

\* Every variable stays in its domain, and the index is filled from 0 on.
TypeOK == IndexTypes /\ MapTypes /\ TaskTypes

\* The dictionaries and the FAISS index agree: the vector at a mapped position
\* is the mapped agent's.  add reads _next_id before its executor job and
\* stores under it afterwards; only the lock held in between makes that sound.
PositionsAgree ==
    /\ \A p \in DOMAIN idMap : p \in DOMAIN vec /\ vec[p] = idMap[p]
    /\ \A a \in DOMAIN reverseMap :
         reverseMap[a] \in DOMAIN vec /\ vec[reverseMap[a]] = a

\* search and get_embedding name the agent whose vector they read, although
\* the thread's read and the dictionary lookup are not under one lock.
AnswersNameTheVectorRead == answer.given => answer.named = answer.read

\* At most one task works on the index under the lock, whoever waits for it.
OneHolder ==
    \A t \in Tasks :
        task[t].pc \in {"adding", "added", "training"} => lock = t

\* Every call returns: the lock is released on every path, raising included.
CallsReturn == \A t \in Tasks : task[t] # Idle ~> task[t] = Idle

\* remove()'s docstring: "the vector stays but won't be returned".
RemovedIsNotReturned ==
    \A p \in DOMAIN idMap : idMap[p] \in DOMAIN reverseMap
=============================================================================
