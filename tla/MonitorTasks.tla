---------------------------- MODULE MonitorTasks ----------------------------
(***************************************************************************)
(* The monitor task of a registry: start() and stop() of                   *)
(* registry/vram_aware_cache.py under those of                             *)
(* registry/context_registry.py, the loop they create and cancel, and the  *)
(* lifespan of mcp/server.py that calls them.  What the loop does to the   *)
(* cache is in VRAMCache; here it is where a cancellation can find it.     *)
(*                                                                         *)
(* stop() is the one call that suspends: between its cancel() and the end  *)
(* of the task anything else may run.                                      *)
(*                                                                         *)
(* A definition marked (fault) is a plausible bug in the definition after  *)
(* it; nothing uses it, and some property tells the two apart.             *)
(***************************************************************************)
EXTENDS FiniteSets

CONSTANTS
    Loops,        \* the tasks that may be created (a bound)
    NoLoop,
    Stoppers,     \* who calls registry.stop(): "lifespan", and others
    StopsOverlap  \* whether one stop() may begin before another has ended

ASSUME NoLoopAssumption  == NoLoop \notin Loops
ASSUME StoppersAssumption == "lifespan" \in Stoppers /\ StopsOverlap \in BOOLEAN

VARIABLES
    loop,         \* task -> where it is
    handle,       \* _monitor_task
    started,      \* the registry's _started
    stopping,     \* stopper -> the task its stop() waits for
    lifespan

monitorVars == <<loop, handle, started, stopping, lifespan>>

LoopStates == {"none", "new", "asleep", "backoff", "cancelled", "ended"}

Alive == {l \in Loops : loop[l] \notin {"none", "ended"}}
Quiet == \A c \in Stoppers : stopping[c] = NoLoop

MonitorInit ==
    /\ loop = [l \in Loops |-> "none"] /\ handle = NoLoop /\ started = FALSE
    /\ stopping = [c \in Stoppers |-> NoLoop]
    /\ lifespan = "down"

-----------------------------------------------------------------------------
CreateLoop ==
    \E l \in Loops :
        /\ loop[l] = "none"
        /\ loop' = [loop EXCEPT ![l] = "new"] /\ handle' = l

\* start() of the cache: a task that is there is left alone
CacheStart == IF handle = NoLoop THEN CreateLoop ELSE UNCHANGED <<loop, handle>>

RegistryStart ==
    /\ lifespan \in {"up", "closing"} /\ ~ started
    /\ CacheStart
    /\ started' = TRUE
    /\ UNCHANGED <<stopping, lifespan>>

\* stop() of the cache, as far as its await
CacheStop(c) ==
    /\ loop' = [loop EXCEPT ![handle] = IF @ = "ended" THEN @ ELSE "cancelled"]
    /\ stopping' = [stopping EXCEPT ![c] = handle]

RegistryStop(c) ==
    /\ stopping[c] = NoLoop /\ (StopsOverlap \/ Quiet)
    /\ IF started /\ handle # NoLoop
       THEN CacheStop(c) /\ UNCHANGED started
       ELSE started' = FALSE /\ UNCHANGED <<loop, stopping>>
    /\ UNCHANGED handle

\* (fault) stop() cancels the task without waiting for it
AwaitedFault(l) == loop[l] \in {"cancelled", "ended"}

Awaited(l) == loop[l] = "ended"

\* The rest of both stop()s: whatever the handle is by now, it is dropped
StopResumes(c) ==
    /\ stopping[c] # NoLoop /\ Awaited(stopping[c])
    /\ handle' = NoLoop /\ started' = FALSE
    /\ stopping' = [stopping EXCEPT ![c] = NoLoop]
    /\ UNCHANGED <<loop, lifespan>>

-----------------------------------------------------------------------------
\* One turn of the loop, up to its next sleep: the interval's, or after an
\* exception the backoff's
LoopTurn(l, raises) ==
    /\ loop[l] \in {"new", "asleep", "backoff"}
    /\ loop' = [loop EXCEPT ![l] = IF raises THEN "backoff" ELSE "asleep"]
    /\ UNCHANGED <<handle, started, stopping, lifespan>>

\* The CancelledError arrives at the sleep the task is in.  In the interval's it
\* is caught and the loop breaks, in the backoff's it leaves the coroutine.
LoopEnds(l) ==
    /\ loop[l] = "cancelled"
    /\ loop' = [loop EXCEPT ![l] = "ended"]
    /\ UNCHANGED <<handle, started, stopping, lifespan>>

-----------------------------------------------------------------------------
\* lifespan up to its yield, with a registry of its own (made here once nothing
\* runs for the last one).  A constructor after registry.start() may raise, and
\* no teardown is reached then.
Boot(raises) ==
    /\ lifespan = "down" /\ Quiet /\ ~ started
    /\ CreateLoop /\ started' = TRUE
    /\ lifespan' = IF raises THEN "failed" ELSE "up"
    /\ UNCHANGED stopping

\* lifespan after its yield: stop(), then clear() and aclose(), whose exceptions
\* are logged
Shutdown ==
    /\ lifespan = "up" /\ lifespan' = "closing"
    /\ RegistryStop("lifespan")

LifespanEnds ==
    /\ lifespan = "closing" /\ stopping["lifespan"] = NoLoop
    /\ lifespan' = "down"
    /\ UNCHANGED <<loop, handle, started, stopping>>

OtherStop(c) ==
    /\ lifespan \in {"up", "closing"}
    /\ started /\ RegistryStop(c) /\ UNCHANGED lifespan

MonitorNext ==
    \/ RegistryStart \/ Shutdown \/ LifespanEnds
    \/ \E c \in Stoppers : StopResumes(c)
    \/ \E c \in Stoppers \ {"lifespan"} : OtherStop(c)
    \/ \E l \in Loops : LoopEnds(l)
    \/ \E raises \in BOOLEAN : Boot(raises) \/ \E l \in Loops : LoopTurn(l, raises)

MonitorSpec == MonitorInit /\ [][MonitorNext]_monitorVars

-----------------------------------------------------------------------------
MonitorTypeOK ==
    /\ loop \in [Loops -> LoopStates]
    /\ handle \in Loops \cup {NoLoop} /\ started \in BOOLEAN
    /\ stopping \in [Stoppers -> Loops \cup {NoLoop}]
    /\ lifespan \in {"down", "up", "closing", "failed"}

\* While no stop() is under way a started registry has one live monitor loop, the
\* one it can cancel, and a stopped registry has none: whatever the loop was in
\* when it was cancelled, and whoever called start() before stop() had ended
\* (start, stop).  Violated if StopsOverlap: the stop() that ends last drops the
\* handle of a task that was started after the other one ended.
OneLoopWhileStarted ==
    Quiet => Alive = IF started THEN {handle} ELSE {}

\* Violated: a server that did not come up leaves nothing running.
FailedBootLeavesNothing == lifespan = "failed" /\ Quiet => Alive = {}
=============================================================================
