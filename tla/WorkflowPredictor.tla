------------------------- MODULE WorkflowPredictor -------------------------
(***************************************************************************)
(* scheduling/pbkv_predictor.py over StepGraph: the steps logged to memory *)
(* and to a JSONL file, the transition tables trained from the file, and   *)
(* the eviction order blended with the step graph's.  A crash in the       *)
(* middle of a write leaves a torn line, which swallows the record that is *)
(* appended next.  Agents equally likely are ranked in any order: the code *)
(* iterates a set.                                                         *)
(*                                                                         *)
(* A definition marked (fault) is a plausible bug in the definition after  *)
(* it; nothing uses it, and some property tells the two apart.             *)
(***************************************************************************)
EXTENDS StepGraph

CONSTANTS
    MaxHistory,    \* max_history_steps
    MaxLogged,     \* bound on the file's lines
    GraphWeight,   \* blend_alpha, in tenths
    EvictionQueries,  \* the agents asked about, in the caller's order
    Unreadable     \* a line that is no record

ASSUME PredictorAssumption ==
    MaxHistory \in Nat \ {0} /\ GraphWeight \in 0 .. 10 /\ Unreadable \notin StepAgents

VARIABLES
    history,      \* _history: agents of the last steps
    logFile,      \* workflow_steps.jsonl, a line a record
    torn,         \* the file does not end in a newline
    unlogged,     \* a step of this process did not reach the file
    trained,      \* _trained
    second,       \* _transition_table: <<prev, curr, next>> -> count
    first,        \* _first_order_table: <<curr, next>> -> count
    known,        \* _all_agents
    evictOrder    \* the last answer of get_eviction_priority

tableVars     == <<trained, second, first, known>>
predictorVars == <<graphVars, history, logFile, torn, unlogged, tableVars, evictOrder>>

NoTable == [x \in {} |-> 0]

PredictorInit ==
    /\ GraphInit
    /\ history = << >> /\ logFile = << >> /\ torn = FALSE /\ unlogged = FALSE
    /\ trained = FALSE /\ second = NoTable /\ first = NoTable /\ known = {}
    /\ evictOrder = << >>

-----------------------------------------------------------------------------
\* (fault) the newest step is dropped from a full history
RememberedFault(a) == IF Len(history) = MaxHistory THEN history ELSE Append(history, a)

Remembered(a) ==
    LET all == Append(history, a)
    IN IF Len(all) > MaxHistory THEN Tail(all) ELSE all

\* A write that fails is logged and forgotten
LogWorkflowStep(a, written) ==
    /\ Len(logFile) < MaxLogged
    /\ history' = Remembered(a)
    /\ logFile' = IF ~ written \/ torn THEN logFile ELSE Append(logFile, a)
    /\ torn' = (torn /\ ~ written)
    /\ unlogged' = (unlogged \/ torn \/ ~ written)
    /\ UNCHANGED <<graphVars, tableVars, evictOrder>>

\* The process ends, perhaps while it appends a record, and starts anew
Restart(tearing) ==
    /\ tearing => Len(logFile) < MaxLogged /\ ~ torn
    /\ torn' = (torn \/ tearing)
    /\ logFile' = IF tearing THEN Append(logFile, Unreadable) ELSE logFile
    /\ history' = << >> /\ unlogged' = FALSE
    /\ trained' = FALSE /\ second' = NoTable /\ first' = NoTable /\ known' = {}
    /\ steps' = NoSteps /\ stepList' = << >> /\ evictOrder' = << >>

\* The places of the file that hold a record preceded by n others without an
\* unreadable line between them
After(n) == {i \in n + 1 .. Len(logFile) : \A k \in i - n .. i : logFile[k] # Unreadable}

Counted(places, key(_)) ==
    [x \in {key(i) : i \in places} |-> Cardinality({i \in places : key(i) = x})]

\* Where the 2nd-order table counts
Pairs == After(1)

\* As the code has it: the 2nd-order entry (prev, curr) counts curr itself, and
\* the 1st-order table begins with a sequence's third record.
TrainFromJsonl ==
    /\ logFile # << >>
    /\ trained' = TRUE
    /\ known' = {logFile[i] : i \in After(0)}
    /\ second' = Counted(Pairs, LAMBDA i : <<logFile[i - 1], logFile[i], logFile[i]>>)
    /\ first' = Counted(After(2), LAMBDA i : <<logFile[i - 1], logFile[i]>>)
    /\ UNCHANGED <<graphVars, history, logFile, torn, unlogged, evictOrder>>

\* Laplace counts of the 1st-order state; without an entry all agents are
\* equally likely.  A trained predictor never passes a previous agent.
Likeliness(curr, a) == IF <<curr, a>> \in DOMAIN first THEN first[<<curr, a>>] + 1 ELSE 1

\* predict_next_agents: where the agent itself may come in the ranking of what
\* follows it, 0 if it is not ranked
Places(a) ==
    IF ~ trained \/ a \notin known THEN {0}
    ELSE 1 + Cardinality({b \in known : Likeliness(a, b) > Likeliness(a, a)})
           .. Cardinality({b \in known : Likeliness(a, b) >= Likeliness(a, a)})

\* The reciprocal of a place, in sixtieths; a place beyond the top k counts nothing
Share(place, k) == IF place \in 1 .. k THEN 60 \div place ELSE 0

\* 1 / (rank + 1), of the last rank of an agent listed twice
GraphScore(order, a) ==
    Share(SelectLastInSeq(order, LAMBDA b : b = a), Len(order))

\* get_eviction_priority: ascending by score.  A cyclic graph raises and the
\* predictor's own scores are used.
GetEvictionPriority(agents, withGraph) ==
    \E place \in [ToSet(agents) -> 0 .. Cardinality(known)] :
        /\ \A a \in ToSet(agents) : place[a] \in Places(a)
        /\ LET pbkv(a)  == IF ~ trained /\ history = << >> THEN Share(Len(agents), Len(agents))
                           ELSE Share(place[a], Len(agents))
               blend(a) == GraphWeight * GraphScore(EvictionPriorityOrder, a)
                             + (10 - GraphWeight) * pbkv(a)
           IN evictOrder' = IF withGraph /\ Acyclic THEN Sorted(agents, blend)
                            ELSE Sorted(agents, pbkv)
        /\ UNCHANGED <<graphVars, history, logFile, torn, unlogged, tableVars>>

PredictorNext ==
    \/ GraphNext /\ UNCHANGED <<history, logFile, torn, unlogged, tableVars, evictOrder>>
    \/ \E a \in StepAgents, written \in BOOLEAN : LogWorkflowStep(a, written)
    \/ \E tearing \in BOOLEAN : Restart(tearing)
    \/ TrainFromJsonl
    \/ \E agents \in EvictionQueries, withGraph \in BOOLEAN :
          GetEvictionPriority(agents, withGraph)

PredictorSpec == PredictorInit /\ [][PredictorNext]_predictorVars

-----------------------------------------------------------------------------
PredictorTypeOK ==
    /\ Len(history) <= MaxHistory
    /\ torn => logFile # << >>
    /\ known \subseteq StepAgents

\* The records of the file after its line p
RecordsAfter(p) == Cardinality({q \in p + 1 .. Len(logFile) : logFile[q] # Unreadable})

\* What the process remembers is the end of what the file records, unless a
\* write of it failed or was swallowed by a torn line: training from the file
\* after a restart loses nothing that was remembered.
HistoryIsLogged ==
    unlogged \/ \A i \in DOMAIN history : \E p \in DOMAIN logFile :
        logFile[p] = history[i] /\ RecordsAfter(p) = Len(history) - i

\* With nothing learnt the blend is the graph's own order, "evict first" first
\* (get_eviction_priority_order: "first in list = evict first").
GraphOrderKept ==
    [][evictOrder' # evictOrder /\ ~ trained /\ history = << >> /\ Acyclic
         /\ DOMAIN steps = StepAgents /\ Len(stepList) = Cardinality(StepAgents)
       => \/ evictOrder' = EvictionPriorityOrder
          \/ \E i, j \in DOMAIN evictOrder' : i # j /\ StepsToExecution(evictOrder'[i], 0)
                                                  = StepsToExecution(evictOrder'[j], 0)]_predictorVars
=============================================================================
