--------------------------- MODULE SafetyPipeline ---------------------------
(***************************************************************************)
(* Pipelines (agents/pipeline.py), each a process, take their agents in    *)
(* order.  For every agent the salt planner asks the gate for a decision;  *)
(* with APOHARA_FORGE_LEDGER set, the recorders certify the decision,      *)
(* append it to the ledger file all the processes share, then write the    *)
(* audit log; at last the agent's request is processed under the salt      *)
(* planned for vLLM.                                                       *)
(* Whatever fails in the recorders, the gate swallows it.                  *)
(*                                                                         *)
(* Between reading the head of the chain and writing the line, another     *)
(* process may append: nothing locks the file.                             *)
(*                                                                         *)
(* A definition marked (fault) is a plausible bug in the definition after  *)
(* it; nothing uses it, and some property tells the two apart.             *)
(***************************************************************************)
EXTENDS LedgerFile, JCRGate

CONSTANTS
    Pipelines,    \* processes that share the ledger file and the vLLM server
    Settings,     \* the agents of a pipeline (a sequence of agent ids) and which
                  \* of the faults below go together
    MaxRuns       \* bound: calls of run() per pipeline, interrupted ones included

Faults == {"overlap",  \* two pipelines are in a decision at once
           "fail",     \* certifying, opening a file or the agent raises
           "torn",     \* a line is cut within
           "cut",      \* a line is cut just before its newline
           "altered"}  \* somebody edits the file

ASSUME SettingsAssumption ==
    \A s \in Settings :
        s \in [team : Seq(STRING), faults : SUBSET Faults] /\ s.team # << >>
ASSUME RunsAssumption == MaxRuns \in Nat

VARIABLES
    team,         \* the agents, the same in every pipeline
    faults,       \* the faults of this behaviour
    pipe,         \* pipeline -> where its run() stands
    gateLog,      \* pipeline -> gate_log of its gate
    audit,        \* the decisions in the audit log
    sent,         \* the requests made, with the salts planned for them
    acked,        \* history: the decisions whose append() returned
    written       \* history: the file as the pipelines alone would have left it

pipeVars == <<team, faults, pipe, gateLog, audit, sent, acked, written>>
vars     == <<pipeVars, ledgerVars>>

Question(agent) == [role |-> agent, candidates |-> Len(team), reuse |-> 0,
                    shuffled |-> FALSE]

Idle(run) == [at |-> "idle", run |-> run, step |-> 1, prev |-> GENESIS]

Init ==
    /\ LedgerInit
    /\ \E s \in Settings : team = s.team /\ faults = s.faults
    /\ pipe = [p \in Pipelines |-> Idle(0)]
    /\ gateLog = [p \in Pipelines |-> << >>]
    /\ audit = {} /\ sent = {} /\ acked = {}
    /\ written = << >>

-----------------------------------------------------------------------------
Agent(p) == team[pipe[p].step]

\* what a decision is known by here (the code's payload has the agent's name)
Decision(p) ==
    [pipeline |-> p, run |-> pipe[p].run, step |-> pipe[p].step]

\* what append() is given: the decision, and what certify_decision found of it
Payload(p) ==
    LET q == Question(Agent(p))
    IN  [pipeline |-> p, run |-> pipe[p].run, step |-> pipe[p].step,
         dense |-> UseDense(q), satisfies |-> Certified(q, UseDense(q))]

\* run() is called
Start(p) ==
    /\ pipe[p].at = "idle" /\ pipe[p].run < MaxRuns
    /\ pipe' = [pipe EXCEPT ![p] = [Idle(@.run + 1) EXCEPT !.at = "next"]]
    /\ UNCHANGED <<team, faults, gateLog, audit, sent, acked, written, ledgerVars>>

MayDecide(p) ==
    /\ pipe[p].at = "next"
    /\ \/ "overlap" \in faults
       \/ \A r \in Pipelines : pipe[r].at \in {"idle", "next"}

\* plan -> gate_decision -> record_certified..., up to _last_hash's answer
Decide(p) ==
    /\ MayDecide(p)
    /\ gateLog' = [gateLog EXCEPT ![p] =
                     Append(@, [role |-> Agent(p), dense |-> UseDense(Question(Agent(p)))])]
    /\ \/ pipe' = [pipe EXCEPT ![p].at = "read", ![p].prev = LastHash]
       \/ /\ "fail" \in faults
          /\ pipe' = [pipe EXCEPT ![p].at = "failed"]
    /\ UNCHANGED <<team, faults, audit, sent, acked, written, ledgerVars>>

\* append writes its line, and returns
Write(p) ==
    /\ pipe[p].at = "read"
    /\ WriteEntry(Entry(pipe[p].prev, Payload(p)))
    /\ written' = IF "altered" \in faults
                  THEN Append(written, Entry(pipe[p].prev, Payload(p)))
                  ELSE written
    /\ acked' = acked \cup {Decision(p)}
    /\ pipe' = [pipe EXCEPT ![p].at = "appended"]
    /\ UNCHANGED <<team, faults, gateLog, audit, sent>>

\* the write raises, or the process dies in it, with part of the line on disk
WriteCut(p) ==
    /\ pipe[p].at = "read"
    /\ \/ "torn" \in faults /\ CutWithin
       \/ "cut" \in faults /\ CutBeforeNewline(Entry(pipe[p].prev, Payload(p)))
    /\ pipe' = [pipe EXCEPT ![p].at = "failed"]
    /\ UNCHANGED <<team, faults, gateLog, audit, sent, acked, written>>

NextStep(p) ==
    IF pipe[p].step = Len(team)
    THEN [pipe[p] EXCEPT !.at = "idle", !.prev = GENESIS]
    ELSE [pipe[p] EXCEPT !.at = "next", !.prev = GENESIS, !.step = @ + 1]

\* (fault) the decision fans out before its certificate is on the ledger
AuditedFault(p) == {Decision(p)}

\* record_inv15_decision, reached only when append returned
Audited(p) == IF pipe[p].at = "appended" THEN {Decision(p)} ELSE {}

\* (fault) what the recorders raise leaves the gate
ReturnsFault(p) == pipe[p].at = "appended"

Returns(p) == pipe[p].at \in {"appended", "failed"}

\* the decision fans out (the audit log swallows its own write errors), plan()
\* returns the salt, the request is made; when the agent raises, so does run()
Finish(p) ==
    /\ Returns(p)
    /\ \/ audit' = audit \cup Audited(p)
       \/ "fail" \in faults /\ audit' = audit
    /\ LET dense == UseDense(Question(Agent(p)))
           salt  == Salt(dense, "system", "pipeline", <<Agent(p), pipe[p].step>>)
       IN  sent' = sent \cup
               {[pipeline |-> p, run |-> pipe[p].run, step |-> pipe[p].step,
                 agent |-> Agent(p), dense |-> dense, salt |-> salt]}
    /\ \/ pipe' = [pipe EXCEPT ![p] = NextStep(p)]
       \/ "fail" \in faults /\ pipe' = [pipe EXCEPT ![p] = Idle(@.run)]
    /\ UNCHANGED <<team, faults, gateLog, acked, written, ledgerVars>>

\* The process dies and is started again
Crash(p) ==
    /\ pipe[p].at # "idle"
    /\ pipe' = [pipe EXCEPT ![p] = Idle(@.run)]
    /\ gateLog' = [gateLog EXCEPT ![p] = << >>]
    /\ UNCHANGED <<team, faults, audit, sent, acked, written, ledgerVars>>

-----------------------------------------------------------------------------
(* One edit of the file by somebody else.  A last line that is dropped     *)
(* leaves a shorter chain, which verify() cannot tell from an honest one.  *)

Edited(i) ==
    {[file EXCEPT ![i].payload.dense = ~ @],
     [file EXCEPT ![i].prev = Append(@, file[i].payload)],
     [file EXCEPT ![i] = Garbage]}
    \cup (IF i = Len(file) THEN {}
          ELSE {RemoveAt(file, i),
                [file EXCEPT ![i] = file[i + 1], ![i + 1] = file[i]]})

Alter ==
    /\ "altered" \in faults
    /\ file = written
    /\ \E i \in 1..Len(file) : \E f \in Edited(i) : file' = f
    /\ UNCHANGED <<pipeVars, lineEnd>>

Next ==
    \/ \E p \in Pipelines : \/ Start(p) \/ Decide(p) \/ Write(p) \/ WriteCut(p)
                            \/ Finish(p) \/ Crash(p)
    \/ Alter

Spec == Init /\ [][Next]_vars

\* A call of run() that is not interrupted goes on to its next step
Fairness == \A p \in Pipelines : WF_vars(Decide(p) \/ Write(p) \/ WriteCut(p) \/ Finish(p))

FairSpec == Spec /\ Fairness

-----------------------------------------------------------------------------
(* Type invariant *)
TypeOK ==
    /\ [team |-> team, faults |-> faults] \in Settings
    /\ lineEnd \in {"ended", "within", "before"}
    /\ DOMAIN pipe = Pipelines
    /\ \A p \in Pipelines :
        /\ pipe[p].at \in {"idle", "next", "read", "appended", "failed"}
        /\ pipe[p].run \in 0..MaxRuns
        /\ pipe[p].step \in 1..Len(team)
    /\ \A d \in audit \cup acked : d.pipeline \in Pipelines /\ d.run \in 1..MaxRuns

\* When verify() finds the ledger valid, it holds the certificate of every
\* decision whose append returned, however the pipelines' appends interleaved
\* and whatever writes were cut: a lost line always leaves a break.
ValidMeansComplete ==
    "altered" \notin faults /\ Valid =>
        acked \subseteq {[pipeline |-> c.pipeline, run |-> c.run, step |-> c.step] :
                            c \in Payloads}

\* One edit of the file (but the loss of its last lines) is found by verify()
\* for good, also after the pipelines chained further entries to it.
ValidMeansUntouched == faults = {"altered"} /\ Valid => file = written

\* What verify() accepted once it accepts for ever: the verified prefix never
\* shrinks while appends overlap, fail, or are cut within the line.
VerifiedOnlyGrows ==
    [][faults \subseteq {"overlap", "fail", "torn"} => Verified' >= Verified]_vars

\* The audit log names no decision whose certificate was not appended first.
AuditedAreCertified == audit \subseteq acked

\* Every certificate on the ledger says that the gate decided as INV-15
\* mandates: the gate and the certifier, written twice, agree.
CertificatesHold == "altered" \notin faults => \A c \in Payloads : c.satisfies

\* A judge that INV-15 sends to dense prefill shares a salt with no other
\* agent in any pipeline; all other requests share one.
JudgesIsolated ==
    \A a, b \in sent :
        /\ a.dense /\ a.salt = b.salt => a.agent = b.agent
        /\ ~ a.dense /\ ~ b.dense => a.salt = b.salt

\* Whatever the recorders meet, a pipeline that is deciding for an agent goes
\* on to send the request or dies: the gate swallows the recorders' errors.
RequestsAreSent ==
    \A p \in Pipelines :
        pipe[p].at \in {"read", "appended", "failed"} ~> pipe[p].at \in {"idle", "next"}

\* isolated_salt's promise: no two requests of dense judges share a salt.
JudgeRequestsApart ==
    \A a, b \in sent : a.dense /\ a # b => a.salt # b.salt
=============================================================================
