-------------------------- MODULE FaissIndexProofs --------------------------
(***************************************************************************)
(* For any number of agents and tasks, and for every interleaving of them: *)
(* unless a task is cancelled inside add(), FAISS positions and the two    *)
(* dictionaries never drift apart; and unless reset() is used too, search  *)
(* and get_embedding never name an agent whose vector they did not read.   *)
(***************************************************************************)
EXTENDS FaissIndex, TLAPS

\* Waiting tasks stand in the queue once each.
QueueInv ==
    /\ \A i \in DOMAIN queue : task[queue[i]].pc = "waiting"
    /\ \A i, j \in DOMAIN queue : queue[i] = queue[j] => i = j

\* What the holder of the lock has read is still true when it uses it, and
\* _next_id is FAISS's next position whenever the lock is free.
HolderInv ==
    /\ orphans = << >>
    /\ lock = NoTask => ntotal = nextId
    /\ \A t \in Tasks :
        /\ task[t].pc = "adding" => task[t].at = nextId /\ ntotal = nextId
        /\ task[t].pc = "added"  => /\ task[t].at = nextId /\ ntotal = nextId + 1
                                    /\ vec[nextId] = task[t].agent
        /\ task[t].pc = "training" => task[t].upto = ntotal /\ ntotal = nextId

\* Mapped positions lie below _next_id.
MapsInv ==
    /\ PositionsAgree
    /\ \A p \in DOMAIN idMap : p < nextId
    /\ \A a \in DOMAIN reverseMap : reverseMap[a] < nextId
    /\ nextId <= ntotal

IInv == TypeOK /\ OneHolder /\ QueueInv /\ HolderInv /\ MapsInv

\* Removing one entry of a dictionary.
LEMMA UnmapEffect ==
    ASSUME NEW f, NEW x
    PROVE  /\ DOMAIN Unmap(f, x) = DOMAIN f \ {x}
           /\ \A z \in DOMAIN Unmap(f, x) : Unmap(f, x)[z] = f[z]
BY DEF Unmap, Restrict

\* The empty dictionary.
LEMMA EmptyDict == DOMAIN NoFun = {} /\ 0 .. 0 - 1 = {}
BY DEF NoFun

\* What the pc of a task says about the rest of its state.
LEMMA StateFields ==
    ASSUME NEW s \in TaskStates
    PROVE  /\ s.pc \in {"adding", "added", "scored", "reading"}
                => s.agent \in Agents /\ s.at \in Nat
           /\ s.pc = "waiting" => s.call \in LockingCalls
           /\ s.pc = "training" => s.upto \in Nat
BY DEF TaskStates, Idle

LEMMA InitIInv == Init => IInv
<1> SUFFICES ASSUME Init PROVE IInv
  OBVIOUS
<1>1. IndexTypes /\ MapTypes
  BY EmptyDict DEF Init, IndexTypes, MapTypes
<1>2. TaskTypes
  BY DEF Init, TaskTypes, TaskStates
<1>3. \A t \in Tasks : task[t].pc = "idle"
  BY DEF Init, Idle
<1>4. OneHolder /\ HolderInv
  BY <1>3 DEF Init, OneHolder, HolderInv
<1>5. QueueInv /\ MapsInv
  BY DEF Init, QueueInv, MapsInv, PositionsAgree, NoFun
<1> QED BY <1>1, <1>2, <1>4, <1>5 DEF IInv, TypeOK

\* A task other than t keeps its state.
LEMMA BecomeEffect ==
    ASSUME TaskTypes, NEW t \in Tasks, NEW s \in TaskStates, Become(t, s)
    PROVE  /\ task' \in [Tasks -> TaskStates]
           /\ task'[t] = s
           /\ \A u \in Tasks \ {t} : task'[u] = task[u]
BY DEF TaskTypes, Become

\* A call that gets the lock keeps the index, the maps and the other tasks'
\* knowledge in order.
LEMMA EnterStep ==
    ASSUME IInv, NEW t \in Tasks, NEW c \in LockingCalls, lock = NoTask,
           Enter(t, c)
    PROVE  /\ IndexTypes' /\ MapTypes'
           /\ lock' \in Tasks \cup {NoTask}
           /\ task' \in [Tasks -> TaskStates]
           /\ \A u \in Tasks \ {t} : task'[u] = task[u]
           /\ OneHolder' /\ HolderInv' /\ MapsInv'
<1> USE NoTaskAssumption
<1>0. IndexTypes /\ MapTypes /\ TaskTypes
  BY DEF IInv, TypeOK
<1>1. \A u \in Tasks : task[u].pc \notin {"adding", "added", "training"}
  BY DEF IInv, OneHolder
<1>2. orphans = << >> /\ ntotal = nextId
  BY DEF IInv, HolderInv
<1>3. Idle \in TaskStates /\ Idle.pc = "idle"
  BY DEF TaskStates, Idle
<1> DEFINE Goal ==
      /\ IndexTypes' /\ MapTypes'
      /\ lock' \in Tasks \cup {NoTask}
      /\ task' \in [Tasks -> TaskStates]
      /\ \A u \in Tasks \ {t} : task'[u] = task[u]
      /\ OneHolder' /\ HolderInv' /\ MapsInv'
\* the index and the maps stay: only what t knows has to be looked at
<1>4. ASSUME UNCHANGED <<index, maps, orphans>>, NEW s \in TaskStates, Become(t, s),
             lock' \in {NoTask, t}, s.pc # "added",
             s.pc \in {"adding", "training"} => lock' = t,
             s.pc = "adding" => s.at = nextId,
             s.pc = "training" => s.upto = ntotal
      PROVE  Goal
  <2>1. /\ task' \in [Tasks -> TaskStates]
        /\ task'[t] = s
        /\ \A u \in Tasks \ {t} : task'[u] = task[u]
    BY <1>0, <1>4, BecomeEffect
  <2>2. IndexTypes' /\ MapTypes' /\ MapsInv'
    BY <1>0, <1>4 DEF index, maps, IndexTypes, MapTypes, IInv, MapsInv, PositionsAgree
  <2>3. OneHolder'
    BY <1>1, <1>4, <2>1 DEF OneHolder
  <2>4. HolderInv'
    BY <1>1, <1>2, <1>4, <2>1 DEF HolderInv, index, maps
  <2> QED BY <1>4, <2>1, <2>2, <2>3, <2>4
<1>5. ASSUME c.call = "add", c.agent \in Agents, EnterAdd(t, c.agent) PROVE Goal
  <2>1. nextId \in Nat
    BY <1>0 DEF MapTypes
  <2>2. CASE initialized
    <3> DEFINE s == [pc |-> "adding", agent |-> c.agent, at |-> nextId]
    <3>1. s \in TaskStates
      BY <1>5, <2>1 DEF TaskStates
    <3>2. /\ UNCHANGED <<index, maps, orphans>>
          /\ Become(t, s) /\ lock' = t
      BY <1>5, <2>2 DEF EnterAdd, HoldFor
    <3> QED BY <1>4, <3>1, <3>2
  <2>3. CASE ~initialized
    BY <1>3, <1>4, <1>5, <2>3 DEF EnterAdd, Release
  <2> QED BY <2>2, <2>3
<1>6. ASSUME EnterUpgrade(t) PROVE Goal
  <2>1. CASE initialized /\ ~ivf
    <3> DEFINE s == [pc |-> "training", upto |-> ntotal]
    <3>1. s \in TaskStates
      BY <1>0 DEF TaskStates, IndexTypes
    <3>2. /\ UNCHANGED <<index, maps, orphans>>
          /\ Become(t, s) /\ lock' = t
      BY <1>6, <2>1 DEF EnterUpgrade, HoldFor
    <3> QED BY <1>4, <3>1, <3>2
  <2>2. CASE ~(initialized /\ ~ivf)
    BY <1>3, <1>4, <1>6, <2>2 DEF EnterUpgrade, Release
  <2> QED BY <2>1, <2>2
<1>7. ASSUME c.call = "get", c.agent \in Agents, EnterGet(t, c.agent) PROVE Goal
  <2>1. CASE c.agent \in DOMAIN reverseMap /\ ntotal > 0
    <3> DEFINE s == [pc |-> "reading", agent |-> c.agent, at |-> reverseMap[c.agent]]
    <3>1. s \in TaskStates
      BY <1>0, <1>7, <2>1 DEF TaskStates, MapTypes
    <3>2. /\ UNCHANGED <<index, maps, orphans>>
          /\ Become(t, s) /\ lock' = NoTask
      BY <1>7, <2>1 DEF EnterGet
    <3> QED BY <1>4, <3>1, <3>2
  <2>2. CASE ~(c.agent \in DOMAIN reverseMap /\ ntotal > 0)
    BY <1>3, <1>4, <1>7, <2>2 DEF EnterGet
  <2> QED BY <2>1, <2>2
<1>8. ASSUME Release(t)
      PROVE  /\ lock' = NoTask
             /\ task' \in [Tasks -> TaskStates]
             /\ \A u \in Tasks \ {t} : task'[u] = task[u]
             /\ \A u \in Tasks : task'[u].pc \notin {"adding", "added", "training"}
             /\ OneHolder'
  <2>1. lock' = NoTask /\ Become(t, Idle)
    BY <1>8 DEF Release
  <2>2. /\ task' \in [Tasks -> TaskStates]
        /\ task'[t] = Idle
        /\ \A u \in Tasks \ {t} : task'[u] = task[u]
    BY <1>0, <1>3, <2>1, BecomeEffect
  <2>3. \A u \in Tasks : task'[u].pc \notin {"adding", "added", "training"}
    BY <1>1, <1>3, <2>2
  <2> QED BY <2>1, <2>2, <2>3 DEF OneHolder
<1>9. ASSUME Remove(c.agent), Release(t), UNCHANGED <<index, orphans>> PROVE Goal
  <2>1. IndexTypes' /\ nextId' = nextId /\ ntotal' = ntotal /\ vec' = vec /\ orphans' = orphans
    BY <1>0, <1>9 DEF index, IndexTypes, Remove, maps
  <2>2. /\ DOMAIN idMap' \subseteq DOMAIN idMap
        /\ \A p \in DOMAIN idMap' : idMap'[p] = idMap[p]
        /\ DOMAIN reverseMap' \subseteq DOMAIN reverseMap
        /\ \A a \in DOMAIN reverseMap' : reverseMap'[a] = reverseMap[a]
    <3>1. CASE c.agent \in DOMAIN reverseMap
      <4>1. /\ idMap' = Unmap(idMap, reverseMap[c.agent])
            /\ reverseMap' = Unmap(reverseMap, c.agent)
        BY <1>9, <3>1 DEF Remove
      <4>2. /\ DOMAIN idMap' = DOMAIN idMap \ {reverseMap[c.agent]}
            /\ \A p \in DOMAIN idMap' : idMap'[p] = idMap[p]
        BY <4>1, UnmapEffect
      <4>3. /\ DOMAIN reverseMap' = DOMAIN reverseMap \ {c.agent}
            /\ \A a \in DOMAIN reverseMap' : reverseMap'[a] = reverseMap[a]
        BY <4>1, UnmapEffect
      <4> QED BY <4>2, <4>3
    <3>2. CASE c.agent \notin DOMAIN reverseMap
      BY <1>9, <3>2 DEF Remove, maps
    <3> QED BY <3>1, <3>2
  <2>3. MapTypes'
    BY <1>0, <2>1, <2>2 DEF MapTypes
  <2>4. MapsInv'
    BY <2>1, <2>2 DEF IInv, MapsInv, PositionsAgree
  <2>5. HolderInv'
    BY <1>2, <1>8, <1>9, <2>1 DEF HolderInv
  <2> QED BY <1>8, <1>9, <2>1, <2>3, <2>4, <2>5
<1>10. ASSUME EnsureIndex, Release(t) PROVE Goal
  <2>1. /\ initialized' = TRUE
        /\ UNCHANGED <<vec, ntotal, ivf, idMap, reverseMap, nextId, orphans>>
    BY <1>10 DEF EnsureIndex, maps
  <2>2. IndexTypes' /\ MapTypes' /\ MapsInv'
    BY <1>0, <2>1 DEF IndexTypes, MapTypes, IInv, MapsInv, PositionsAgree
  <2>3. HolderInv'
    BY <1>2, <1>8, <1>10, <2>1 DEF HolderInv
  <2> QED BY <1>8, <1>10, <2>2, <2>3
<1>11. ASSUME Reset, Release(t) PROVE Goal
  <2>1. IndexTypes' /\ MapTypes' /\ MapsInv'
    <3>1. /\ vec' = NoFun /\ ntotal' = 0 /\ initialized' = FALSE /\ ivf' = FALSE
          /\ idMap' = NoFun /\ reverseMap' = NoFun /\ nextId' = 0
      BY <1>11 DEF Reset
    <3>2. /\ DOMAIN vec' = {} /\ DOMAIN idMap' = {} /\ DOMAIN reverseMap' = {}
          /\ DOMAIN vec' = 0 .. ntotal' - 1
      BY <3>1, EmptyDict
    <3>3. IndexTypes'
      BY <3>1, <3>2 DEF IndexTypes
    <3>4. MapTypes'
      BY <3>1, <3>2 DEF MapTypes
    <3>5. MapsInv'
      BY <3>1, <3>2 DEF MapsInv, PositionsAgree
    <3> QED BY <3>3, <3>4, <3>5
  <2>2. HolderInv'
    BY <1>8, <1>11 DEF Reset, HolderInv
  <2> QED BY <1>8, <1>11, <2>1, <2>2
<1>12. c.call \in {"add", "remove", "get"} => c.agent \in Agents
  BY DEF LockingCalls
<1> HIDE DEF Goal
<1>13. Goal
  BY <1>5, <1>6, <1>7, <1>9, <1>10, <1>11, <1>12 DEF Enter
<1> QED BY <1>13 DEF Goal

\* A task that is not waiting moves on: the queue is as good as it was.
LEMMA MoveOn ==
    ASSUME TaskTypes, QueueInv, NEW t \in Tasks, NEW s \in TaskStates,
           task[t].pc # "waiting", Become(t, s), queue' = queue
    PROVE  /\ task' \in [Tasks -> TaskStates]
           /\ task'[t] = s
           /\ \A u \in Tasks \ {t} : task'[u] = task[u]
           /\ queue' \in Seq(Tasks)
           /\ QueueInv'
<1>1. /\ task' \in [Tasks -> TaskStates]
      /\ task'[t] = s
      /\ \A u \in Tasks \ {t} : task'[u] = task[u]
  BY BecomeEffect
<1>2. queue \in Seq(Tasks)
  BY DEF TaskTypes
<1>3. \A i \in DOMAIN queue : queue[i] \in Tasks \ {t}
  BY <1>2 DEF QueueInv
<1>4. QueueInv'
  BY <1>1, <1>3 DEF QueueInv
<1> QED BY <1>1, <1>2, <1>4

\* A call returns at once, starts its executor job, or joins the queue.
LEMMA CallStep ==
    ASSUME IInv, NEW t \in Tasks, NEW c \in LockingCalls, Call(t, c)
    PROVE  IInv'
<1> USE NoTaskAssumption
<1>0. IndexTypes /\ MapTypes /\ TaskTypes /\ OneHolder /\ QueueInv /\ HolderInv /\ MapsInv
  BY DEF IInv, TypeOK
<1>1. task[t].pc = "idle"
  BY DEF Call, Idle
<1>2. CASE LockFree
  <2>1. lock = NoTask /\ queue = << >> /\ queue' = << >> /\ Enter(t, c)
    BY <1>2 DEF Call, LockFree
  <2>2. QueueInv' /\ queue' \in Seq(Tasks)
    BY <2>1 DEF QueueInv
  <2>3. /\ IndexTypes' /\ MapTypes'
        /\ lock' \in Tasks \cup {NoTask}
        /\ task' \in [Tasks -> TaskStates]
        /\ OneHolder' /\ HolderInv' /\ MapsInv'
    BY <2>1, EnterStep
  <2> QED BY <2>2, <2>3 DEF IInv, TypeOK, TaskTypes
<1>3. CASE ~LockFree
  <2> DEFINE s == [pc |-> "waiting", call |-> c]
  <2>1. s \in TaskStates
    BY DEF TaskStates
  <2>2. /\ Become(t, s) /\ queue' = Append(queue, t)
        /\ UNCHANGED <<index, maps, lock, orphans>>
    BY <1>3 DEF Call
  <2>3. /\ task' \in [Tasks -> TaskStates]
        /\ task'[t] = s
        /\ \A u \in Tasks \ {t} : task'[u] = task[u]
    BY <1>0, <2>1, <2>2, BecomeEffect
  <2>4. /\ queue \in Seq(Tasks) /\ queue' \in Seq(Tasks)
        /\ DOMAIN queue' = DOMAIN queue \cup {Len(queue) + 1}
        /\ Len(queue) + 1 \notin DOMAIN queue
        /\ queue'[Len(queue) + 1] = t
        /\ \A i \in DOMAIN queue : queue'[i] = queue[i] /\ queue[i] \in Tasks
    BY <1>0, <2>2 DEF TaskTypes
  <2>5. \A i \in DOMAIN queue : queue[i] # t
    BY <1>0, <1>1 DEF QueueInv
  <2>6. QueueInv'
    BY <1>0, <2>3, <2>4, <2>5 DEF QueueInv
  <2>7. IndexTypes' /\ MapTypes' /\ MapsInv'
    BY <1>0, <2>2 DEF index, maps, IndexTypes, MapTypes, MapsInv, PositionsAgree
  <2>8. OneHolder'
    BY <1>0, <2>2, <2>3 DEF OneHolder
  <2>9. HolderInv'
    BY <1>0, <2>2, <2>3 DEF HolderInv, index, maps
  <2>10. lock' \in Tasks \cup {NoTask}
    BY <1>0, <2>2 DEF TaskTypes
  <2> QED BY <2>3, <2>4, <2>6, <2>7, <2>8, <2>9, <2>10 DEF IInv, TypeOK, TaskTypes
<1> QED BY <1>2, <1>3

\* The first waiter leaves the queue and starts what it waited for.
LEMMA GrantedStep ==
    ASSUME IInv, Granted
    PROVE  IInv'
<1>0. TaskTypes /\ QueueInv
  BY DEF IInv, TypeOK
<1> DEFINE t == Head(queue)
           c == task[t].call
<1>1. /\ queue \in Seq(Tasks) /\ queue # << >> /\ queue' = Tail(queue)
      /\ lock = NoTask /\ Enter(t, c)
  BY <1>0 DEF Granted, TaskTypes
<1>2. t \in Tasks /\ 1 \in DOMAIN queue /\ t = queue[1]
  BY <1>1
<1>3. c \in LockingCalls
  BY <1>0, <1>2, StateFields DEF QueueInv, TaskTypes
<1>4. /\ IndexTypes' /\ MapTypes'
      /\ lock' \in Tasks \cup {NoTask}
      /\ task' \in [Tasks -> TaskStates]
      /\ \A u \in Tasks \ {t} : task'[u] = task[u]
      /\ OneHolder' /\ HolderInv' /\ MapsInv'
  <2> HIDE DEF t, c
  <2> QED BY <1>1, <1>2, <1>3, EnterStep
<1>5. /\ queue' \in Seq(Tasks)
      /\ \A i \in DOMAIN queue' :
            i \in Nat /\ i + 1 \in DOMAIN queue /\ queue'[i] = queue[i + 1]
  BY <1>1
<1>6. \A i \in DOMAIN queue' : queue'[i] \in Tasks \ {t}
  <2> SUFFICES ASSUME NEW i \in DOMAIN queue' PROVE queue'[i] \in Tasks \ {t}
    OBVIOUS
  <2>1. queue[i + 1] \in Tasks
    BY <1>1, <1>5
  <2>2. queue[i + 1] # queue[1]
    BY <1>0, <1>2, <1>5 DEF QueueInv
  <2> QED BY <1>2, <1>5, <2>1, <2>2
<1>7. QueueInv'
  <2>1. \A i \in DOMAIN queue' : task'[queue'[i]].pc = "waiting"
    BY <1>0, <1>4, <1>5, <1>6 DEF QueueInv
  <2>2. \A i, j \in DOMAIN queue' : queue'[i] = queue'[j] => i = j
    BY <1>0, <1>5 DEF QueueInv
  <2> QED BY <2>1, <2>2 DEF QueueInv
<1> QED BY <1>4, <1>5, <1>7 DEF IInv, TypeOK, TaskTypes

\* While a task works under the lock, no other does.
LEMMA SoleWorker ==
    ASSUME OneHolder, NEW t \in Tasks, task[t].pc \in {"adding", "added", "training"}
    PROVE  /\ lock = t
           /\ \A u \in Tasks \ {t} : task[u].pc \notin {"adding", "added", "training"}
BY DEF OneHolder

\* The thread appends at the position the task holds in its hand.
LEMMA ThreadAddsStep ==
    ASSUME IInv, NEW t \in Tasks, ThreadAdds(t)
    PROVE  IInv'
<1> USE NoTaskAssumption
<1>0. IndexTypes /\ MapTypes /\ TaskTypes /\ OneHolder /\ QueueInv /\ HolderInv /\ MapsInv
  BY DEF IInv, TypeOK
<1> DEFINE a == task[t].agent
           s == [task[t] EXCEPT !.pc = "added"]
<1>1. /\ task[t].pc = "adding" /\ Append1(a) /\ Become(t, s)
      /\ UNCHANGED <<idMap, reverseMap, nextId, lock, queue, orphans>>
  BY DEF ThreadAdds, maps
<1>2. /\ task[t] \in TaskStates /\ a \in Agents
      /\ task[t].at = nextId /\ ntotal = nextId /\ nextId \in Nat
  BY <1>0, <1>1, StateFields DEF TaskTypes, HolderInv, MapTypes
<1>3. s \in TaskStates /\ s.pc = "added" /\ s.at = nextId /\ s.agent = a
  <2>1. task[t] \in [pc : {"adding", "added"}, agent : Agents, at : Nat]
    BY <1>1, <1>2 DEF TaskStates, Idle
  <2> QED BY <1>2, <2>1 DEF TaskStates
<1>4. /\ task' \in [Tasks -> TaskStates]
      /\ task'[t] = s
      /\ \A u \in Tasks \ {t} : task'[u] = task[u]
      /\ queue' \in Seq(Tasks)
      /\ QueueInv'
  <2> HIDE DEF s
  <2> QED BY <1>0, <1>1, <1>3, MoveOn
<1>5. /\ DOMAIN vec' = DOMAIN vec \cup {nextId}
      /\ vec'[nextId] = a
      /\ \A p \in DOMAIN vec : p # nextId => vec'[p] = vec[p]
      /\ ntotal' = nextId + 1
      /\ UNCHANGED <<initialized, ivf>>
  <2>1. vec' = Map(vec, nextId, a) /\ ntotal' = nextId + 1 /\ UNCHANGED <<initialized, ivf>>
    BY <1>1, <1>2 DEF Append1
  <2> HIDE DEF a
  <2>2. /\ DOMAIN Map(vec, nextId, a) = DOMAIN vec \cup {nextId}
        /\ Map(vec, nextId, a)[nextId] = a
        /\ \A p \in DOMAIN vec : p # nextId => Map(vec, nextId, a)[p] = vec[p]
    BY DEF Map
  <2> QED BY <2>1, <2>2
<1>6. lock = t /\ \A u \in Tasks \ {t} : task[u].pc \notin {"adding", "added", "training"}
  BY <1>0, <1>1, SoleWorker
<1>7. IndexTypes'
  BY <1>0, <1>2, <1>5 DEF IndexTypes
<1>8. MapTypes' /\ lock' \in Tasks \cup {NoTask}
  BY <1>0, <1>1 DEF MapTypes, TaskTypes
<1>9. MapsInv'
  <2>1. PositionsAgree'
    BY <1>0, <1>1, <1>2, <1>5 DEF MapTypes, MapsInv, PositionsAgree
  <2> QED BY <1>0, <1>1, <1>2, <1>5, <2>1 DEF MapsInv
<1>10. OneHolder'
  BY <1>1, <1>4, <1>6 DEF OneHolder
<1>11. HolderInv'
  <2> HIDE DEF s, a
  <2>1. task'[t].pc = "added" /\ task'[t].at = nextId /\ task'[t].agent = a
    BY <1>3, <1>4
  <2>2. orphans' = << >> /\ lock' # NoTask
    BY <1>0, <1>1, <1>6 DEF HolderInv
  <2> QED BY <1>1, <1>4, <1>5, <1>6, <2>1, <2>2 DEF HolderInv
<1> QED BY <1>4, <1>7, <1>8, <1>9, <1>10, <1>11 DEF IInv, TypeOK, TaskTypes

\* add() returns: the position it read is entered in both dictionaries.
LEMMA AddReturnsStep ==
    ASSUME IInv, NEW t \in Tasks, AddReturns(t)
    PROVE  IInv'
<1> USE NoTaskAssumption
<1>0. IndexTypes /\ MapTypes /\ TaskTypes /\ OneHolder /\ QueueInv /\ HolderInv /\ MapsInv
  BY DEF IInv, TypeOK
<1> DEFINE a == task[t].agent
<1>1. /\ task[t].pc = "added"
      /\ idMap' = Map(idMap, task[t].at, a)
      /\ reverseMap' = Map(reverseMap, a, task[t].at)
      /\ nextId' = nextId + 1
      /\ lock' = NoTask /\ Become(t, Idle)
      /\ UNCHANGED <<vec, ntotal, initialized, ivf, queue, orphans>>
  BY DEF AddReturns, Release, index
<1>2. /\ a \in Agents /\ task[t].at = nextId /\ ntotal = nextId + 1
      /\ vec[nextId] = a /\ nextId \in Nat
  BY <1>0, <1>1, StateFields DEF TaskTypes, HolderInv, MapTypes
<1>3. Idle \in TaskStates /\ Idle.pc = "idle"
  BY DEF TaskStates, Idle
<1>4. /\ task' \in [Tasks -> TaskStates]
      /\ task'[t] = Idle
      /\ \A u \in Tasks \ {t} : task'[u] = task[u]
      /\ queue' \in Seq(Tasks)
      /\ QueueInv'
  BY <1>0, <1>1, <1>3, MoveOn
<1>5. \A u \in Tasks : task'[u].pc \notin {"adding", "added", "training"}
  BY <1>0, <1>1, <1>3, <1>4, SoleWorker
<1>6. /\ DOMAIN idMap' = DOMAIN idMap \cup {nextId}
      /\ idMap'[nextId] = a
      /\ \A p \in DOMAIN idMap : p # nextId => idMap'[p] = idMap[p]
  <2>1. idMap' = Map(idMap, nextId, a)
    BY <1>1, <1>2
  <2> HIDE DEF a
  <2>2. /\ DOMAIN Map(idMap, nextId, a) = DOMAIN idMap \cup {nextId}
        /\ Map(idMap, nextId, a)[nextId] = a
        /\ \A p \in DOMAIN idMap : p # nextId => Map(idMap, nextId, a)[p] = idMap[p]
    BY DEF Map
  <2> QED BY <2>1, <2>2
<1>7. /\ DOMAIN reverseMap' = DOMAIN reverseMap \cup {a}
      /\ reverseMap'[a] = nextId
      /\ \A b \in DOMAIN reverseMap : b # a => reverseMap'[b] = reverseMap[b]
  <2>1. reverseMap' = Map(reverseMap, a, nextId)
    BY <1>1, <1>2
  <2> HIDE DEF a
  <2>2. /\ DOMAIN Map(reverseMap, a, nextId) = DOMAIN reverseMap \cup {a}
        /\ Map(reverseMap, a, nextId)[a] = nextId
        /\ \A b \in DOMAIN reverseMap : b # a => Map(reverseMap, a, nextId)[b] = reverseMap[b]
    BY DEF Map
  <2> QED BY <2>1, <2>2
<1> HIDE DEF a
<1>8. IndexTypes' /\ lock' \in Tasks \cup {NoTask}
  BY <1>0, <1>1 DEF IndexTypes
<1>9. MapTypes'
  BY <1>0, <1>1, <1>2, <1>6, <1>7 DEF MapTypes
<1>10. nextId \in DOMAIN vec
  BY <1>0, <1>2 DEF IndexTypes
<1>11. PositionsAgree'
  <2>1. \A p \in DOMAIN idMap' : p \in DOMAIN vec' /\ vec'[p] = idMap'[p]
    BY <1>0, <1>1, <1>2, <1>6, <1>10 DEF MapsInv, PositionsAgree
  <2>2. \A b \in DOMAIN reverseMap' :
            reverseMap'[b] \in DOMAIN vec' /\ vec'[reverseMap'[b]] = b
    BY <1>0, <1>1, <1>2, <1>7, <1>10 DEF MapsInv, PositionsAgree
  <2> QED BY <2>1, <2>2 DEF PositionsAgree
<1>12. MapsInv'
  <2>1. \A p \in DOMAIN idMap' : p < nextId'
    BY <1>0, <1>1, <1>2, <1>6 DEF MapTypes, MapsInv
  <2>2. \A b \in DOMAIN reverseMap' : reverseMap'[b] < nextId'
    BY <1>0, <1>1, <1>2, <1>7 DEF MapTypes, MapsInv
  <2> QED BY <1>1, <1>2, <1>11, <2>1, <2>2 DEF MapsInv
<1>13. OneHolder' /\ HolderInv'
  BY <1>0, <1>1, <1>2, <1>5 DEF OneHolder, HolderInv
<1> QED BY <1>4, <1>8, <1>9, <1>12, <1>13 DEF IInv, TypeOK, TaskTypes

\* A task that gives the lock back with the index as it was.
LEMMA GiveBackStep ==
    ASSUME IInv, NEW t \in Tasks,
           task[t].pc \in {"adding", "training"},
           Release(t), UNCHANGED <<maps, queue, ntotal, initialized>>,
           orphans' = << >>, ivf' \in BOOLEAN,
           DOMAIN vec' = DOMAIN vec, \A p \in DOMAIN vec : vec'[p] = vec[p]
    PROVE  IInv'
<1> USE NoTaskAssumption
<1>0. IndexTypes /\ MapTypes /\ TaskTypes /\ OneHolder /\ QueueInv /\ HolderInv /\ MapsInv
  BY DEF IInv, TypeOK
<1>1. /\ lock' = NoTask /\ Become(t, Idle)
      /\ UNCHANGED <<idMap, reverseMap, nextId, queue, ntotal>>
  BY DEF Release, maps
<1>2. ntotal = nextId
  BY <1>0 DEF HolderInv
<1>3. Idle \in TaskStates /\ Idle.pc = "idle"
  BY DEF TaskStates, Idle
<1>4. /\ task' \in [Tasks -> TaskStates]
      /\ task'[t] = Idle
      /\ \A u \in Tasks \ {t} : task'[u] = task[u]
      /\ queue' \in Seq(Tasks)
      /\ QueueInv'
  BY <1>0, <1>1, <1>3, MoveOn
<1>5. \A u \in Tasks : task'[u].pc \notin {"adding", "added", "training"}
  BY <1>0, <1>1, <1>3, <1>4, SoleWorker
<1>6. IndexTypes' /\ MapTypes' /\ MapsInv' /\ lock' \in Tasks \cup {NoTask}
  BY <1>0, <1>1 DEF IndexTypes, MapTypes, MapsInv, PositionsAgree
<1>7. OneHolder' /\ HolderInv'
  BY <1>0, <1>1, <1>2, <1>5 DEF OneHolder, HolderInv
<1> QED BY <1>4, <1>6, <1>7 DEF IInv, TypeOK, TaskTypes

\* A searching or reading task moves on; nothing but its state changes.
LEMMA ReaderStep ==
    ASSUME IInv, NEW t \in Tasks, NEW s \in TaskStates, Become(t, s),
           task[t].pc \notin {"waiting", "adding", "added", "training"},
           s.pc \notin {"waiting", "adding", "added", "training"},
           UNCHANGED <<index, maps, lock, queue, orphans>>
    PROVE  IInv'
<1>0. IndexTypes /\ MapTypes /\ TaskTypes /\ OneHolder /\ QueueInv /\ HolderInv /\ MapsInv
  BY DEF IInv, TypeOK
<1>1. UNCHANGED <<idMap, reverseMap, nextId, lock, queue, orphans, vec, ntotal,
                  initialized, ivf>>
  BY DEF index, maps
<1>2. /\ task' \in [Tasks -> TaskStates]
      /\ task'[t] = s
      /\ \A u \in Tasks \ {t} : task'[u] = task[u]
      /\ queue' \in Seq(Tasks)
      /\ QueueInv'
  BY <1>0, <1>1, MoveOn
<1>3. IndexTypes' /\ MapTypes' /\ MapsInv' /\ lock' \in Tasks \cup {NoTask}
  BY <1>0, <1>1 DEF IndexTypes, MapTypes, MapsInv, PositionsAgree, TaskTypes
<1>4. OneHolder'
  BY <1>0, <1>1, <1>2 DEF OneHolder
<1>5. HolderInv'
  BY <1>0, <1>1, <1>2 DEF HolderInv
<1> QED BY <1>2, <1>3, <1>4, <1>5 DEF IInv, TypeOK, TaskTypes

\* The invariant is inductive as long as no task is cancelled inside add().
LEMMA NextIInv ==
    ASSUME WithCancel = FALSE, IInv, [Next]_vars
    PROVE  IInv'
<1>0. IndexTypes /\ MapTypes /\ TaskTypes /\ HolderInv
  BY DEF IInv, TypeOK
<1>1. ASSUME NEW t \in Tasks, NEW c \in LockingCalls, Call(t, c) PROVE IInv'
  BY <1>1, CallStep
<1>2. ASSUME NEW t \in Tasks, ThreadAdds(t) PROVE IInv'
  BY <1>2, ThreadAddsStep
<1>3. ASSUME NEW t \in Tasks, AddRaises(t) PROVE IInv'
  <2>1. /\ task[t].pc = "adding" /\ Release(t)
        /\ UNCHANGED <<maps, queue, ntotal, initialized, vec, ivf, orphans>>
    BY <1>3 DEF AddRaises, index
  <2>2. orphans' = << >> /\ ivf' \in BOOLEAN
    BY <1>0, <2>1 DEF HolderInv, IndexTypes
  <2> QED BY <2>1, <2>2, GiveBackStep
<1>4. ASSUME NEW t \in Tasks, AddReturns(t) PROVE IInv'
  BY <1>4, AddReturnsStep
<1>5. ASSUME NEW t \in Tasks, AddCancelled(t) PROVE IInv'
  BY <1>5 DEF AddCancelled
<1>6. ASSUME NEW t \in Tasks, Upgraded(t) PROVE IInv'
  <2>1. /\ task[t].pc = "training" /\ Release(t)
        /\ UNCHANGED <<maps, queue, initialized>>
        /\ vec' = Restrict(vec, 0 .. task[t].upto - 1)
        /\ ntotal' = task[t].upto /\ ivf' = TRUE /\ orphans' = << >>
    BY <1>6 DEF Upgraded
  <2>2. task[t].upto = ntotal /\ DOMAIN vec = 0 .. ntotal - 1
    BY <1>0, <2>1 DEF HolderInv, IndexTypes
  <2>3. DOMAIN vec' = DOMAIN vec /\ \A p \in DOMAIN vec : vec'[p] = vec[p]
    BY <2>1, <2>2 DEF Restrict
  <2> QED BY <2>1, <2>2, <2>3, GiveBackStep
<1>7. ASSUME NEW t \in Tasks, Search(t) PROVE IInv'
  <2> DEFINE s == [pc |-> "searching"]
  <2>1. s \in TaskStates /\ task[t].pc = "idle"
    BY <1>7 DEF TaskStates, Search, Idle
  <2>2. Become(t, s) /\ UNCHANGED <<index, maps, lock, queue, orphans>>
    BY <1>7 DEF Search
  <2> QED BY <2>1, <2>2, ReaderStep
<1>8. ASSUME NEW t \in Tasks, ThreadSearches(t) PROVE IInv'
  <2>1. PICK s \in TaskStates : s.pc \in {"scored", "idle"} /\ Become(t, s)
    <3>1. CASE Become(t, Idle)
      BY <3>1 DEF TaskStates, Idle
    <3>2. ASSUME NEW p \in DOMAIN vec,
                 Become(t, [pc |-> "scored", at |-> p, agent |-> vec[p]])
          PROVE  \E s \in TaskStates : s.pc \in {"scored", "idle"} /\ Become(t, s)
      <4>1. p \in Nat /\ vec[p] \in Agents
        BY <1>0 DEF IndexTypes
      <4>2. [pc |-> "scored", at |-> p, agent |-> vec[p]] \in TaskStates
        BY <4>1 DEF TaskStates
      <4> QED BY <3>2, <4>2
    <3> QED BY <1>8, <3>1, <3>2 DEF ThreadSearches
  <2>2. task[t].pc = "searching" /\ UNCHANGED <<index, maps, lock, queue, orphans>>
    BY <1>8 DEF ThreadSearches
  <2> QED BY <2>1, <2>2, ReaderStep
<1>9. ASSUME NEW t \in Tasks, SearchReturns(t) \/ GetReturns(t) PROVE IInv'
  <2>1. /\ task[t].pc \in {"scored", "reading"} /\ Become(t, Idle)
        /\ UNCHANGED <<index, maps, lock, queue, orphans>>
    BY <1>9 DEF SearchReturns, GetReturns
  <2>2. Idle \in TaskStates /\ Idle.pc = "idle"
    BY DEF TaskStates, Idle
  <2> QED BY <2>1, <2>2, ReaderStep
<1>10. ASSUME Granted PROVE IInv'
  BY <1>10, GrantedStep
<1>11. ASSUME OrphanAdds PROVE IInv'
  BY <1>0, <1>11 DEF OrphanAdds, HolderInv
<1>12. CASE UNCHANGED vars
  BY <1>12 DEF vars, IInv, TypeOK, IndexTypes, MapTypes, TaskTypes, OneHolder,
               QueueInv, HolderInv, MapsInv, PositionsAgree
<1> QED
  BY <1>1, <1>2, <1>3, <1>4, <1>5, <1>6, <1>7, <1>8, <1>9, <1>10, <1>11, <1>12 DEF Next

\* Unless a task is cancelled inside add(), every variable keeps its type,
\* whatever mixture of calls, resets and upgrades the tasks make.
THEOREM TypeCorrect == 
    ASSUME WithCancel = FALSE
    PROVE  Spec => []TypeOK
<1>1. Init => IInv
  BY InitIInv
<1>2. IInv /\ [Next]_vars => IInv'
  BY NextIInv
<1>3. IInv => TypeOK
  BY DEF IInv
<1> QED BY <1>1, <1>2, <1>3, PTL DEF Spec

\* Unless a task is cancelled inside add(), the lock has one user at a time.
THEOREM MutualExclusion == 
    ASSUME WithCancel = FALSE
    PROVE  Spec => []OneHolder
<1>1. Init => IInv
  BY InitIInv
<1>2. IInv /\ [Next]_vars => IInv'
  BY NextIInv
<1>3. IInv => OneHolder
  BY DEF IInv
<1> QED BY <1>1, <1>2, <1>3, PTL DEF Spec

\* Unless a task is cancelled inside add(), the two dictionaries name, at each
\* position, the agent whose vector FAISS holds there.
THEOREM PositionsCorrect == 
    ASSUME WithCancel = FALSE
    PROVE  Spec => []PositionsAgree
<1>1. Init => IInv
  BY InitIInv
<1>2. IInv /\ [Next]_vars => IInv'
  BY NextIInv
<1>3. IInv => PositionsAgree
  BY DEF IInv, MapsInv
<1> QED BY <1>1, <1>2, <1>3, PTL DEF Spec

-----------------------------------------------------------------------------
\* What a reader carries across its suspension is still in the index.
ReadersInv ==
    \A t \in Tasks : task[t].pc \in {"scored", "reading"} =>
        task[t].at \in DOMAIN vec /\ vec[task[t].at] = task[t].agent

AnswerInv == ReadersInv /\ AnswersNameTheVectorRead

\* Only reset() takes a vector out of the index or moves it.
LEMMA VectorsStay ==
    ASSUME WithCancel = FALSE, WithReset = FALSE, IInv, [Next]_vars
    PROVE  \A p \in DOMAIN vec : p \in DOMAIN vec' /\ vec'[p] = vec[p]
<1>0. IndexTypes /\ HolderInv /\ TaskTypes /\ QueueInv
  BY DEF IInv, TypeOK
<1>1. ASSUME NEW a, Append1(a)
      PROVE  \A p \in DOMAIN vec : p \in DOMAIN vec' /\ vec'[p] = vec[p]
  <2>1. vec' = Map(vec, ntotal, a) /\ ntotal \notin DOMAIN vec
    BY <1>0, <1>1 DEF Append1, IndexTypes
  <2> QED BY <2>1 DEF Map
<1>2. ASSUME NEW t \in Tasks, NEW c \in LockingCalls, Enter(t, c) PROVE vec' = vec
  <2>1. c.call # "reset"
    BY DEF LockingCalls
  <2> QED BY <1>2, <2>1 DEF Enter, EnterAdd, EnterUpgrade, EnterGet, EnsureIndex, index
<1>3. ASSUME NEW t \in Tasks, NEW c \in LockingCalls, Call(t, c) PROVE vec' = vec
  BY <1>2, <1>3 DEF Call, index
<1>4. ASSUME Granted PROVE vec' = vec
  <2>1. /\ Head(queue) \in Tasks /\ 1 \in DOMAIN queue /\ Head(queue) = queue[1]
        /\ Enter(Head(queue), task[Head(queue)].call)
    BY <1>0, <1>4 DEF TaskTypes, Granted
  <2>2. task[Head(queue)].call \in LockingCalls
    BY <1>0, <2>1, StateFields DEF QueueInv, TaskTypes
  <2> QED BY <1>2, <2>1, <2>2
<1>5. ASSUME NEW t \in Tasks, Upgraded(t)
      PROVE  \A p \in DOMAIN vec : p \in DOMAIN vec' /\ vec'[p] = vec[p]
  <2>1. /\ vec' = Restrict(vec, 0 .. task[t].upto - 1)
        /\ task[t].upto = ntotal /\ DOMAIN vec = 0 .. ntotal - 1
    BY <1>0, <1>5 DEF Upgraded, HolderInv, IndexTypes
  <2> QED BY <2>1 DEF Restrict
<1>6. ASSUME NEW t \in Tasks,
             \/ AddRaises(t) \/ AddReturns(t) \/ AddCancelled(t) \/ Search(t)
             \/ ThreadSearches(t) \/ SearchReturns(t) \/ GetReturns(t)
      PROVE  vec' = vec
  BY <1>6 DEF AddRaises, AddReturns, AddCancelled, Search, ThreadSearches,
              SearchReturns, GetReturns, index
<1>7. ASSUME NEW t \in Tasks, ThreadAdds(t)
      PROVE  \A p \in DOMAIN vec : p \in DOMAIN vec' /\ vec'[p] = vec[p]
  BY <1>1, <1>7 DEF ThreadAdds
<1>8. ASSUME OrphanAdds
      PROVE  \A p \in DOMAIN vec : p \in DOMAIN vec' /\ vec'[p] = vec[p]
  BY <1>1, <1>8 DEF OrphanAdds
<1> QED BY <1>3, <1>4, <1>5, <1>6, <1>7, <1>8 DEF Next, vars

LEMMA NextAnswerInv ==
    ASSUME WithCancel = FALSE, WithReset = FALSE, IInv, AnswerInv, [Next]_vars
    PROVE  AnswerInv'
<1>0. IndexTypes /\ MapTypes /\ TaskTypes /\ HolderInv /\ QueueInv /\ MapsInv
  BY DEF IInv, TypeOK
<1>1. \A p \in DOMAIN vec : p \in DOMAIN vec' /\ vec'[p] = vec[p]
  BY VectorsStay
<1>2. Idle \in TaskStates /\ Idle.pc = "idle"
  BY DEF TaskStates, Idle
\* it is enough to look at the one task that moves
<1>3. ASSUME NEW t \in Tasks, NEW s \in TaskStates, Become(t, s),
             s.pc \in {"scored", "reading"} => s.at \in DOMAIN vec /\ vec[s.at] = s.agent
      PROVE  ReadersInv'
  <2>1. /\ task'[t] = s
        /\ \A u \in Tasks \ {t} : task'[u] = task[u]
    BY <1>0, <1>3, BecomeEffect
  <2> QED BY <1>1, <1>3, <2>1 DEF ReadersInv, AnswerInv
<1>4. ASSUME NEW t \in Tasks, NEW s \in TaskStates, Become(t, s),
             s.pc \notin {"scored", "reading"}, UNCHANGED answer
      PROVE  AnswerInv'
  BY <1>3, <1>4 DEF AnswerInv, AnswersNameTheVectorRead
<1>5. ASSUME NEW t \in Tasks, NEW c \in LockingCalls, Enter(t, c), UNCHANGED answer
      PROVE  AnswerInv'
  <2>1. c.call \in {"add", "get", "remove"} => c.agent \in Agents
    BY DEF LockingCalls
  <2>2. ASSUME c.call = "add", EnterAdd(t, c.agent) PROVE AnswerInv'
    <3>1. CASE initialized
      <4> DEFINE s == [pc |-> "adding", agent |-> c.agent, at |-> nextId]
      <4>1. s \in TaskStates /\ Become(t, s) /\ s.pc = "adding"
        BY <1>0, <2>1, <2>2, <3>1 DEF EnterAdd, HoldFor, TaskStates, MapTypes
      <4> QED BY <1>4, <1>5, <4>1
    <3>2. CASE ~initialized
      BY <1>2, <1>4, <1>5, <2>2, <3>2 DEF EnterAdd, Release
    <3> QED BY <3>1, <3>2
  <2>3. ASSUME EnterUpgrade(t) PROVE AnswerInv'
    <3>1. CASE initialized /\ ~ivf
      <4> DEFINE s == [pc |-> "training", upto |-> ntotal]
      <4>1. s \in TaskStates /\ Become(t, s) /\ s.pc = "training"
        BY <1>0, <2>3, <3>1 DEF EnterUpgrade, HoldFor, TaskStates, IndexTypes
      <4> QED BY <1>4, <1>5, <4>1
    <3>2. CASE ~(initialized /\ ~ivf)
      BY <1>2, <1>4, <1>5, <2>3, <3>2 DEF EnterUpgrade, Release
    <3> QED BY <3>1, <3>2
  <2>4. ASSUME c.call = "get", EnterGet(t, c.agent) PROVE AnswerInv'
    <3>1. CASE c.agent \in DOMAIN reverseMap /\ ntotal > 0
      <4> DEFINE s == [pc |-> "reading", agent |-> c.agent, at |-> reverseMap[c.agent]]
      <4>1. s \in TaskStates /\ s.at = reverseMap[c.agent] /\ s.agent = c.agent
        BY <1>0, <2>1, <2>4, <3>1 DEF TaskStates, MapTypes
      <4>2. Become(t, s)
        BY <2>4, <3>1 DEF EnterGet
      <4>3. s.at \in DOMAIN vec /\ vec[s.at] = s.agent
        BY <1>0, <3>1, <4>1 DEF MapsInv, PositionsAgree
      <4> HIDE DEF s
      <4> QED BY <1>3, <1>5, <4>1, <4>2, <4>3 DEF AnswerInv, AnswersNameTheVectorRead
    <3>2. CASE ~(c.agent \in DOMAIN reverseMap /\ ntotal > 0)
      BY <1>2, <1>4, <1>5, <2>4, <3>2 DEF EnterGet
    <3> QED BY <3>1, <3>2
  <2>5. ASSUME Release(t) PROVE AnswerInv'
    BY <1>2, <1>4, <1>5, <2>5 DEF Release
  <2>6. c.call # "reset"
    BY DEF LockingCalls
  <2> QED BY <1>5, <2>2, <2>3, <2>4, <2>5, <2>6 DEF Enter
<1>6. ASSUME NEW t \in Tasks, NEW c \in LockingCalls, Call(t, c) PROVE AnswerInv'
  <2>1. CASE LockFree
    BY <1>5, <1>6, <2>1 DEF Call
  <2>2. CASE ~LockFree
    <3> DEFINE s == [pc |-> "waiting", call |-> c]
    <3>1. s \in TaskStates /\ s.pc = "waiting" /\ Become(t, s) /\ UNCHANGED answer
      BY <1>6, <2>2 DEF Call, TaskStates
    <3> QED BY <1>4, <3>1
  <2> QED BY <2>1, <2>2
<1>7. ASSUME Granted PROVE AnswerInv'
  <2>1. /\ Head(queue) \in Tasks /\ 1 \in DOMAIN queue /\ Head(queue) = queue[1]
        /\ Enter(Head(queue), task[Head(queue)].call) /\ UNCHANGED answer
    BY <1>0, <1>7 DEF TaskTypes, Granted
  <2>2. task[Head(queue)].call \in LockingCalls
    BY <1>0, <2>1, StateFields DEF QueueInv, TaskTypes
  <2> QED BY <1>5, <2>1, <2>2
<1>8. ASSUME NEW t \in Tasks, ThreadAdds(t) PROVE AnswerInv'
  <2> DEFINE s == [task[t] EXCEPT !.pc = "added"]
  <2>1. task[t].pc = "adding" /\ task[t] \in TaskStates /\ Become(t, s) /\ UNCHANGED answer
    BY <1>0, <1>8 DEF ThreadAdds, TaskTypes
  <2>2. task[t] \in [pc : {"adding", "added"}, agent : Agents, at : Nat]
    BY <2>1 DEF TaskStates, Idle
  <2>3. s \in TaskStates /\ s.pc = "added"
    BY <2>2 DEF TaskStates
  <2> HIDE DEF s
  <2> QED BY <1>4, <2>1, <2>3
<1>9. ASSUME NEW t \in Tasks, AddRaises(t) \/ AddReturns(t) \/ AddCancelled(t) \/ Upgraded(t)
      PROVE  AnswerInv'
  BY <1>2, <1>4, <1>9 DEF AddRaises, AddReturns, AddCancelled, Upgraded, Release
<1>10. ASSUME NEW t \in Tasks, Search(t) PROVE AnswerInv'
  <2>1. [pc |-> "searching"] \in TaskStates
    BY DEF TaskStates
  <2> QED BY <1>4, <1>10, <2>1 DEF Search
<1>11. ASSUME NEW t \in Tasks, ThreadSearches(t) PROVE AnswerInv'
  <2>1. CASE Become(t, Idle)
    BY <1>2, <1>4, <1>11, <2>1 DEF ThreadSearches
  <2>2. ASSUME NEW p \in DOMAIN vec,
               Become(t, [pc |-> "scored", at |-> p, agent |-> vec[p]])
        PROVE  AnswerInv'
    <3> DEFINE s == [pc |-> "scored", at |-> p, agent |-> vec[p]]
    <3>1. s \in TaskStates /\ s.at = p /\ s.agent = vec[p]
      BY <1>0 DEF TaskStates, IndexTypes
    <3>2. Become(t, s) /\ UNCHANGED answer
      BY <1>11, <2>2 DEF ThreadSearches
    <3> HIDE DEF s
    <3> QED BY <1>3, <3>1, <3>2 DEF AnswerInv, AnswersNameTheVectorRead
  <2> QED BY <1>11, <2>1, <2>2 DEF ThreadSearches
<1>12. ASSUME NEW t \in Tasks, SearchReturns(t) PROVE AnswerInv'
  <2>1. task[t].pc = "scored" /\ Become(t, Idle)
    BY <1>12 DEF SearchReturns
  <2>2. ReadersInv'
    BY <1>2, <1>3, <2>1
  <2>3. vec[task[t].at] = task[t].agent
    BY <2>1 DEF AnswerInv, ReadersInv
  <2>4. task[t].at \in DOMAIN idMap => idMap[task[t].at] = task[t].agent
    BY <1>0, <2>3 DEF MapsInv, PositionsAgree
  <2>5. AnswersNameTheVectorRead'
    BY <1>12, <2>4 DEF SearchReturns, AnswersNameTheVectorRead, NoAnswer
  <2> QED BY <2>2, <2>5 DEF AnswerInv
<1>13. ASSUME NEW t \in Tasks, GetReturns(t) PROVE AnswerInv'
  <2>1. task[t].pc = "reading" /\ Become(t, Idle)
    BY <1>13 DEF GetReturns
  <2>2. ReadersInv'
    BY <1>2, <1>3, <2>1
  <2>3. vec[task[t].at] = task[t].agent
    BY <2>1 DEF AnswerInv, ReadersInv
  <2>4. AnswersNameTheVectorRead'
    BY <1>13, <2>3 DEF GetReturns, AnswersNameTheVectorRead, NoAnswer
  <2> QED BY <2>2, <2>4 DEF AnswerInv
<1>14. ASSUME OrphanAdds PROVE AnswerInv'
  BY <1>0, <1>14 DEF OrphanAdds, HolderInv
<1>15. CASE UNCHANGED vars
  BY <1>15 DEF vars, AnswerInv, ReadersInv, AnswersNameTheVectorRead
<1> QED
  BY <1>6, <1>7, <1>8, <1>9, <1>10, <1>11, <1>12, <1>13, <1>14, <1>15 DEF Next

\* With neither cancelled adds nor resets, search and get_embedding always name
\* the agent whose vector they read, although their thread reads the index
\* without the lock and the dictionaries are consulted at another time.
THEOREM AnswersCorrect ==
    ASSUME WithCancel = FALSE, WithReset = FALSE
    PROVE  Spec => []AnswersNameTheVectorRead
<1>1. Init => IInv /\ AnswerInv
  <2>1. Init => AnswerInv
    BY DEF Init, AnswerInv, ReadersInv, AnswersNameTheVectorRead, NoAnswer, Idle
  <2> QED BY <2>1, InitIInv
<1>2. IInv /\ AnswerInv /\ [Next]_vars => IInv' /\ AnswerInv'
  BY NextIInv, NextAnswerInv
<1>3. AnswerInv => AnswersNameTheVectorRead
  BY DEF AnswerInv
<1> QED BY <1>1, <1>2, <1>3, PTL DEF Spec
=============================================================================
