------------------------ MODULE SafetyPipelineProofs ------------------------
(***************************************************************************)
(* What holds of SafetyPipeline for any pipelines, agents and faults: the  *)
(* gate and its certifier agree, the audit log never runs ahead of the     *)
(* ledger, a dense judge's salt belongs to one agent, and a ledger that    *)
(* verify() accepts has lost no acknowledged line and was not edited.      *)
(***************************************************************************)
EXTENDS SafetyPipeline, SequenceTheorems, WellFoundedInduction, TLAPS

\* At the default threshold the gate (jcr_gate.py) decides as the constraints
\* of the certifier (z3_inv15_proof.py) mandate, whatever it is asked.
THEOREM GateAgrees ==
    ASSUME Threshold = 70, NEW q, q.candidates \in Nat
    PROVE  Certified(q, UseDense(q))
BY DEF Certified, UseDense, Mandated, Risk, Extra, AtMost100

\* What prove_inv15() states: a judge with nine candidates or more in a new
\* order gets dense prefill -- here for every threshold below 1.
THEOREM DensePrefillMandated ==
    ASSUME Threshold < 100, NEW q, q.role \in JudgeRoles,
           q.candidates \in Nat, q.candidates >= 9, q.shuffled
    PROVE  UseDense(q)
<1>1. Extra(q) >= 70
  BY DEF Extra
<1>2. Extra(q) \in Nat
  BY DEF Extra
<1>3. Risk(q) = 100
  BY <1>1, <1>2 DEF Risk, AtMost100
<1> QED
  BY <1>3, ThresholdAssumption DEF UseDense

-----------------------------------------------------------------------------
(* The audit log *)

\* A decision is on its way to the audit log only when its append returned
AuditInv ==
    /\ audit \subseteq acked
    /\ \A p \in Pipelines : pipe[p].at = "appended" => Decision(p) \in acked
    /\ DOMAIN pipe = Pipelines

LEMMA AuditInvStep == AuditInv /\ [Next]_vars => AuditInv'
<1> SUFFICES ASSUME AuditInv, [Next]_vars PROVE AuditInv'
  OBVIOUS
<1> USE DEF AuditInv, Decision
<1>1. ASSUME NEW p \in Pipelines, Start(p) PROVE AuditInv'
  BY <1>1 DEF Start, Idle
<1>2. ASSUME NEW p \in Pipelines, Decide(p) PROVE AuditInv'
  <2>1. UNCHANGED <<audit, acked>>
    BY <1>2 DEF Decide
  <2>2. /\ DOMAIN pipe' = Pipelines
        /\ pipe'[p].at # "appended"
        /\ \A r \in Pipelines \ {p} : pipe'[r] = pipe[r]
    <3>1. CASE pipe' = [pipe EXCEPT ![p].at = "read", ![p].prev = LastHash]
      BY <3>1
    <3>2. CASE pipe' = [pipe EXCEPT ![p].at = "failed"]
      BY <3>2
    <3> QED
      BY <1>2, <3>1, <3>2 DEF Decide
  <2> QED
    BY <2>1, <2>2
<1>3. ASSUME NEW p \in Pipelines, Write(p) PROVE AuditInv'
  BY <1>3 DEF Write
<1>4. ASSUME NEW p \in Pipelines, WriteCut(p) PROVE AuditInv'
  BY <1>4 DEF WriteCut
<1>5. ASSUME NEW p \in Pipelines, Finish(p) PROVE AuditInv'
  <2>1. /\ UNCHANGED acked
        /\ audit' \subseteq audit \cup Audited(p)
    BY <1>5 DEF Finish
  <2>2. /\ DOMAIN pipe' = Pipelines
        /\ pipe'[p].at # "appended"
        /\ \A r \in Pipelines \ {p} : pipe'[r] = pipe[r]
    <3>1. CASE pipe' = [pipe EXCEPT ![p] = NextStep(p)]
      BY <3>1 DEF NextStep
    <3>2. CASE pipe' = [pipe EXCEPT ![p] = Idle(@.run)]
      BY <3>2 DEF Idle
    <3> QED
      BY <1>5, <3>1, <3>2 DEF Finish
  <2> QED
    BY <2>1, <2>2 DEF Audited
<1>6. ASSUME NEW p \in Pipelines, Crash(p) PROVE AuditInv'
  BY <1>6 DEF Crash, Idle
<1>7. CASE Alter
  BY <1>7 DEF Alter, pipeVars
<1>8. CASE UNCHANGED vars
  BY <1>8 DEF vars, pipeVars
<1> QED
  BY <1>1, <1>2, <1>3, <1>4, <1>5, <1>6, <1>7, <1>8 DEF Next

\* The audit log names no decision whose certificate was not appended first,
\* whatever the recorders and the processes do (recorders.py, 137-154).
THEOREM AuditFollowsLedger == Spec => []AuditedAreCertified
<1>1. Init => AuditInv
  BY DEF Init, AuditInv, Idle
<1>2. AuditInv => AuditedAreCertified
  BY DEF AuditInv, AuditedAreCertified
<1> QED
  BY <1>1, <1>2, AuditInvStep, PTL DEF Spec

-----------------------------------------------------------------------------
(* The salts *)

\* Every request carries the salt its agent and its decision lead to
SentInv ==
    /\ DOMAIN pipe = Pipelines
    /\ \A r \in sent : \E n :
         r.salt = Salt(r.dense, "system", "pipeline", <<r.agent, n>>)

LEMMA SentInvStep == SentInv /\ [Next]_vars => SentInv'
<1> SUFFICES ASSUME SentInv, [Next]_vars PROVE SentInv'
  OBVIOUS
<1> USE DEF SentInv
<1>1. ASSUME NEW p \in Pipelines, Start(p) PROVE SentInv'
  BY <1>1 DEF Start
<1>2. ASSUME NEW p \in Pipelines, Decide(p) PROVE SentInv'
  BY <1>2 DEF Decide
<1>3. ASSUME NEW p \in Pipelines, Write(p) PROVE SentInv'
  BY <1>3 DEF Write
<1>4. ASSUME NEW p \in Pipelines, WriteCut(p) PROVE SentInv'
  BY <1>4 DEF WriteCut
<1>5. ASSUME NEW p \in Pipelines, Finish(p) PROVE SentInv'
  <2> DEFINE dense == UseDense(Question(Agent(p)))
             salt  == Salt(dense, "system", "pipeline", <<Agent(p), pipe[p].step>>)
             req   == [pipeline |-> p, run |-> pipe[p].run, step |-> pipe[p].step,
                       agent |-> Agent(p), dense |-> dense, salt |-> salt]
  <2>1. sent' = sent \cup {req} /\ DOMAIN pipe' = Pipelines
    BY <1>5 DEF Finish
  <2>2. req.salt = Salt(req.dense, "system", "pipeline", <<req.agent, pipe[p].step>>)
    OBVIOUS
  <2> HIDE DEF req
  <2> QED
    BY <2>1, <2>2
<1>6. ASSUME NEW p \in Pipelines, Crash(p) PROVE SentInv'
  BY <1>6 DEF Crash
<1>7. CASE Alter
  BY <1>7 DEF Alter, pipeVars
<1>8. CASE UNCHANGED vars
  BY <1>8 DEF vars, pipeVars
<1> QED
  BY <1>1, <1>2, <1>3, <1>4, <1>5, <1>6, <1>7, <1>8 DEF Next

\* A dense judge's salt is used by no other agent; the other requests share
\* one salt: in every pipeline, under every fault (prefix_salt_planner.py).
THEOREM JudgesKeepApart == Spec => []JudgesIsolated
<1>1. Init => SentInv
  BY DEF Init, SentInv
<1>2. SentInv => JudgesIsolated
  <2> SUFFICES ASSUME SentInv, NEW a \in sent, NEW b \in sent
               PROVE  /\ a.dense /\ a.salt = b.salt => a.agent = b.agent
                      /\ ~ a.dense /\ ~ b.dense => a.salt = b.salt
    BY DEF JudgesIsolated
  <2>1. PICK m : a.salt = Salt(a.dense, "system", "pipeline", <<a.agent, m>>)
    BY DEF SentInv
  <2>2. PICK n : b.salt = Salt(b.dense, "system", "pipeline", <<b.agent, n>>)
    BY DEF SentInv
  <2>3. ASSUME a.dense, a.salt = b.salt PROVE a.agent = b.agent
    <3>1. a.salt = <<"iso", "system", <<a.agent, m>>>>
      BY <2>1, <2>3 DEF Salt, IsolatedSalt
    <3>2. CASE b.dense
      <4>1. b.salt = <<"iso", "system", <<b.agent, n>>>>
        BY <2>2, <3>2 DEF Salt, IsolatedSalt
      <4>2. <<a.agent, m>> = <<b.agent, n>>
        <5>1. <<"iso", "system", <<a.agent, m>>>> = <<"iso", "system", <<b.agent, n>>>>
          BY <2>3, <3>1, <4>1, Zenon
        <5> QED
          BY <5>1
      <4> QED
        BY <4>2
    <3>3. CASE ~ b.dense
      <4>1. b.salt = <<"shared", "system", "pipeline">>
        BY <2>2, <3>3 DEF Salt, SharedSalt
      <4>2. "iso" = "shared"
        <5>1. <<"iso", "system", <<a.agent, m>>>> = <<"shared", "system", "pipeline">>
          BY <2>3, <3>1, <4>1, Zenon
        <5> QED
          BY <5>1
      <4> QED
        BY <4>2
    <3> QED
      BY <3>2, <3>3
  <2>4. ASSUME ~ a.dense, ~ b.dense PROVE a.salt = b.salt
    BY <2>1, <2>2, <2>4 DEF Salt, SharedSalt
  <2> QED
    BY <2>3, <2>4
<1> QED
  BY <1>1, <1>2, SentInvStep, PTL DEF Spec

-----------------------------------------------------------------------------
(* The certificates *)

\* f is a sequence, of whatever values
IsSequence(f) == Len(f) \in Nat /\ f = [i \in 1..Len(f) |-> f[i]]

LEMMA SeqIsSequence ==
    ASSUME NEW S, NEW f \in Seq(S) PROVE IsSequence(f)
BY DEF IsSequence

LEMMA AppendToSequence ==
    ASSUME NEW f, IsSequence(f), NEW e
    PROVE  /\ IsSequence(Append(f, e))
           /\ Len(Append(f, e)) = Len(f) + 1
           /\ \A i \in 1..Len(f) : Append(f, e)[i] = f[i]
           /\ Append(f, e)[Len(f) + 1] = e
<1> DEFINE S == {f[i] : i \in 1..Len(f)} \cup {e}
<1>1. f \in [1..Len(f) -> S]
  BY DEF IsSequence
<1>2. f \in Seq(S)
  BY <1>1 DEF IsSequence
<1>3. e \in S
  OBVIOUS
<1> HIDE DEF S
<1>4. Append(f, e) \in Seq(S)
  BY <1>2, <1>3
<1>5. IsSequence(Append(f, e))
  BY <1>4, SeqIsSequence
<1>6. Len(Append(f, e)) = Len(f) + 1
  BY <1>2, <1>3
<1>7. \A i \in 1..Len(f) : Append(f, e)[i] = f[i]
  BY <1>2, <1>3
<1>8. Append(f, e)[Len(f) + 1] = e
  BY <1>2, <1>3
<1> QED
  BY <1>5, <1>6, <1>7, <1>8

LEMMA ReplaceInSequence ==
    ASSUME NEW f, IsSequence(f), NEW k \in 1..Len(f), NEW e
    PROVE  /\ IsSequence([f EXCEPT ![k] = e])
           /\ Len([f EXCEPT ![k] = e]) = Len(f)
<1> DEFINE S == {f[i] : i \in 1..Len(f)} \cup {e}
           g == [f EXCEPT ![k] = e]
<1>1. f \in [1..Len(f) -> S] /\ e \in S
  BY DEF IsSequence
<1>2. g \in [1..Len(f) -> S]
  BY <1>1
<1>3. g \in Seq(S) /\ Len(g) = Len(f)
  BY <1>2 DEF IsSequence
<1> HIDE DEF S, g
<1>4. IsSequence(g)
  BY <1>3, SeqIsSequence
<1> USE DEF g
<1> QED
  BY <1>3, <1>4

Attested(f) == \A i \in 1..Len(f) : f[i].parses => f[i].payload.satisfies

\* Every line that parses carries a certificate that holds
CertInv ==
    /\ Len(team) \in Nat
    /\ "altered" \notin faults =>
         /\ IsSequence(file)
         /\ lineEnd = "ended" \/ Len(file) > 0
         /\ Attested(file)

LEMMA LinesAttested ==
    ASSUME IsSequence(file), lineEnd = "ended" \/ Len(file) > 0, Attested(file),
           NEW line, line.parses => line.payload.satisfies
    PROVE  IsSequence(Lines(line)) /\ Len(Lines(line)) > 0 /\ Attested(Lines(line))
<1>1. CASE lineEnd = "ended"
  <2>1. Lines(line) = Append(file, line)
    BY <1>1 DEF Lines
  <2>2. /\ IsSequence(Append(file, line))
        /\ Len(Append(file, line)) = Len(file) + 1
        /\ \A i \in 1..Len(file) : Append(file, line)[i] = file[i]
        /\ Append(file, line)[Len(file) + 1] = line
    BY AppendToSequence
  <2> DEFINE g == Append(file, line)
  <2>3. Len(file) \in Nat
    BY DEF IsSequence
  <2>4. Attested(g)
    <3> SUFFICES ASSUME NEW i \in 1..Len(g), g[i].parses PROVE g[i].payload.satisfies
      BY DEF Attested
    <3>1. CASE i \in 1..Len(file)
      <4>1. g[i] = file[i]
        BY <2>2, <3>1
      <4> HIDE DEF g
      <4> QED
        BY <4>1, <3>1 DEF Attested
    <3>2. CASE i = Len(file) + 1
      <4>1. g[i] = line
        BY <2>2, <3>2
      <4> HIDE DEF g
      <4> QED
        BY <4>1
    <3> QED
      BY <2>2, <2>3, <3>1, <3>2
  <2> QED
    BY <2>1, <2>2, <2>3, <2>4
<1>2. CASE lineEnd # "ended"
  <2> DEFINE g == [file EXCEPT ![Len(file)] = Garbage]
  <2>1. Lines(line) = g
    BY <1>2 DEF Lines
  <2>2. Len(file) \in Nat /\ Len(file) \in 1..Len(file)
    BY <1>2 DEF IsSequence
  <2>3. IsSequence(g) /\ Len(g) = Len(file)
    BY <2>2, ReplaceInSequence
  <2>4. \A i \in 1..Len(file) : g[i] = IF i = Len(file) THEN Garbage ELSE file[i]
    BY <2>2 DEF IsSequence
  <2> HIDE DEF g
  <2>5. Attested(g)
    BY <2>3, <2>4 DEF Attested, Garbage
  <2> QED
    BY <2>1, <2>2, <2>3, <2>5
<1> QED
  BY <1>1, <1>2

LEMMA CertInvStep == Threshold = 70 /\ CertInv /\ [Next]_vars => CertInv'
<1> SUFFICES ASSUME Threshold = 70, CertInv, [Next]_vars PROVE CertInv'
  OBVIOUS
<1>0. ASSUME NEW p \in Pipelines
      PROVE  LET e == Entry(pipe[p].prev, Payload(p))
             IN  e.parses => e.payload.satisfies
  <2> DEFINE q == Question(Agent(p))
  <2>1. q.candidates \in Nat
    BY DEF CertInv, Question
  <2>2. Certified(q, UseDense(q))
    BY <2>1, GateAgrees
  <2>3. Payload(p).satisfies = Certified(q, UseDense(q))
    BY DEF Payload
  <2> QED
    BY <2>2, <2>3 DEF Entry
<1>1. ASSUME NEW p \in Pipelines, Start(p) PROVE CertInv'
  BY <1>1 DEF Start, CertInv, ledgerVars, Attested, IsSequence
<1>2. ASSUME NEW p \in Pipelines, Decide(p) PROVE CertInv'
  BY <1>2 DEF Decide, CertInv, ledgerVars, Attested, IsSequence
<1>3. ASSUME NEW p \in Pipelines, Write(p) PROVE CertInv'
  <2> DEFINE e == Entry(pipe[p].prev, Payload(p))
  <2>1. file' = Lines(e) /\ lineEnd' = "ended" /\ UNCHANGED <<team, faults>>
    BY <1>3 DEF Write, WriteEntry
  <2>2. e.parses => e.payload.satisfies
    BY <1>0
  <2> HIDE DEF e
  <2> QED
    BY <2>1, <2>2, LinesAttested DEF CertInv, Attested, IsSequence
<1>4. ASSUME NEW p \in Pipelines, WriteCut(p) PROVE CertInv'
  <2> DEFINE e == Entry(pipe[p].prev, Payload(p))
  <2>1. UNCHANGED <<team, faults>>
    BY <1>4 DEF WriteCut
  <2>2. file' = Lines(Garbage) \/ file' = Lines(e)
    BY <1>4 DEF WriteCut, CutWithin, CutBeforeNewline
  <2>3. e.parses => e.payload.satisfies
    BY <1>0
  <2>4. Garbage.parses => Garbage.payload.satisfies
    BY DEF Garbage
  <2> HIDE DEF e
  <2>5. CASE file' = Lines(Garbage)
    BY <2>1, <2>4, <2>5, LinesAttested DEF CertInv, Attested, IsSequence
  <2>6. CASE file' = Lines(e)
    BY <2>1, <2>3, <2>6, LinesAttested DEF CertInv, Attested, IsSequence
  <2> QED
    BY <2>2, <2>5, <2>6
<1>5. ASSUME NEW p \in Pipelines, Finish(p) PROVE CertInv'
  BY <1>5 DEF Finish, CertInv, ledgerVars, Attested, IsSequence
<1>6. ASSUME NEW p \in Pipelines, Crash(p) PROVE CertInv'
  BY <1>6 DEF Crash, CertInv, ledgerVars, Attested, IsSequence
<1>7. CASE Alter
  BY <1>7 DEF Alter, pipeVars, CertInv
<1>8. CASE UNCHANGED vars
  BY <1>8 DEF vars, pipeVars, CertInv, ledgerVars, Attested, IsSequence
<1> QED
  BY <1>1, <1>2, <1>3, <1>4, <1>5, <1>6, <1>7, <1>8 DEF Next

\* With the gate at the default threshold, every certificate that reaches the
\* ledger says the decision is what INV-15 mandates, for any agents, whatever
\* lines are lost.
THEOREM CertificatesAttest == ASSUME Threshold = 70 PROVE Spec => []CertificatesHold
<1>1. Init => CertInv
  <2> SUFFICES ASSUME Init PROVE CertInv
    OBVIOUS
  <2>1. file = << >> /\ lineEnd = "ended"
    BY DEF Init, LedgerInit
  <2>2. IsSequence(<< >>) /\ Attested(<< >>)
    BY DEF IsSequence, Attested
  <2>3. team \in Seq(STRING)
    BY SettingsAssumption DEF Init
  <2> QED
    BY <2>1, <2>2, <2>3 DEF CertInv
<1>2. CertInv => CertificatesHold
  BY DEF CertInv, CertificatesHold, Attested, Payloads
<1>3. CertInv /\ [Next]_vars => CertInv'
  BY CertInvStep
<1> QED
  BY <1>1, <1>2, <1>3, PTL DEF Spec

-----------------------------------------------------------------------------
(* Types: what the lines, the hashes and the pipelines are *)

Stages    == {"idle", "next", "read", "appended", "failed"}
Payloaded == [pipeline : Pipelines, run : Nat, step : Nat,
              dense : BOOLEAN, satisfies : BOOLEAN]
Hashes    == Seq(Payloaded)
Entries   == [parses : {TRUE}, prev : Hashes, hash : Hashes, payload : Payloaded]
LineSet   == Entries \cup {Garbage}
Named     == [pipeline : Pipelines, run : Nat, step : Nat]

Typed ==
    /\ team \in Seq(STRING) /\ team # << >>
    /\ [team |-> team, faults |-> faults] \in Settings
    /\ pipe \in [Pipelines -> [at : Stages, run : 0..MaxRuns, step : 1..Len(team),
                               prev : Hashes]]
    /\ \A p \in Pipelines : pipe[p].at # "idle" => pipe[p].run # 0
    /\ file \in Seq(LineSet) /\ written \in Seq(Entries)
    /\ lineEnd \in {"ended", "within", "before"}
    /\ lineEnd = "ended" \/ file # << >>
    /\ \A d \in audit \cup acked :
          d \in Named /\ d.pipeline \in Pipelines /\ d.run \in 1..MaxRuns

\* Every set of natural numbers has a least one, and a bounded one a greatest.
LEMMA LeastExists ==
    ASSUME NEW S \in SUBSET Nat, S # {}
    PROVE  \E x \in S : \A y \in S : x <= y
<1>1. PICK x \in S : \A y \in S : ~ (<<y, x>> \in OpToRel(<, Nat))
  BY NatLessThanWellFounded, WFMin
<1>2. ASSUME NEW y \in S, ~ (x <= y) PROVE FALSE
  <2>1. y < x /\ x \in Nat /\ y \in Nat
    BY <1>2
  <2>2. <<y, x>> \in OpToRel(<, Nat)
    BY <2>1 DEF OpToRel
  <2> QED
    BY <1>1, <2>2
<1> QED
  BY <1>2

LEMMA GreatestExists ==
    ASSUME NEW n \in Nat, NEW S \in SUBSET (1..n), S # {}
    PROVE  Max(S) \in S /\ \A y \in S : Max(S) >= y
<1>0. \A y \in S : y \in 1..n
  OBVIOUS
<1> DEFINE D == {d \in Nat : n - d \in S}
<1>1. D \in SUBSET Nat /\ D # {}
  <2>1. PICK y \in S : TRUE
    OBVIOUS
  <2>2. n - y \in Nat /\ n - (n - y) = y
    BY <1>0, <2>1
  <2> QED
    BY <2>1, <2>2
<1> HIDE DEF D
<1>2. PICK d \in D : \A e \in D : d <= e
  BY <1>1, LeastExists
<1>3. n - d \in S /\ d \in Nat
  BY DEF D
<1>4. ASSUME NEW y \in S PROVE n - d >= y
  <2>1. y \in 1..n
    BY <1>0
  <2>2. n - y \in Nat /\ n - (n - y) = y
    BY <2>1
  <2>3. n - y \in D
    BY <2>2 DEF D
  <2>4. d <= n - y
    BY <1>2, <2>3
  <2> QED
    BY <1>3, <2>1, <2>4
<1> HIDE DEF D
<1> QED
  BY <1>3, <1>4 DEF Max

\* _last_hash answers with the hash of some line, or with GENESIS; when every
\* line parses, with the hash of the last one.
LEMMA LastHashIsLastLine ==
    ASSUME NEW S, NEW f \in Seq(S)
    PROVE  /\ \/ LastHashOf(f) = GENESIS
              \/ \E i \in 1..Len(f) : f[i].parses /\ LastHashOf(f) = f[i].hash
           /\ (\A i \in 1..Len(f) : f[i].parses) =>
                LastHashOf(f) = IF Len(f) = 0 THEN GENESIS ELSE f[Len(f)].hash
<1> DEFINE E == {i \in DOMAIN f : f[i].parses}
<1>1. E \in SUBSET (1..Len(f)) /\ Len(f) \in Nat
  OBVIOUS
<1>2. LastHashOf(f) = IF E = {} THEN GENESIS ELSE f[Max(E)].hash
  BY DEF LastHashOf
<1>3. CASE E = {}
  <2>1. \A i \in 1..Len(f) : ~ f[i].parses
    BY <1>3
  <2> QED
    BY <1>1, <1>2, <1>3, <2>1
<1>4. CASE E # {}
  <2>1. Max(E) \in E /\ \A y \in E : Max(E) >= y
    <3> HIDE DEF E
    <3> QED
      BY <1>1, <1>4, GreatestExists
  <2>2. Max(E) \in 1..Len(f) /\ f[Max(E)].parses
    BY <2>1
  <2>3. ASSUME \A i \in 1..Len(f) : f[i].parses PROVE Max(E) = Len(f) /\ Len(f) # 0
    <3>1. Len(f) \in E
      BY <1>1, <2>2, <2>3
    <3>2. Max(E) >= Len(f)
      BY <2>1, <3>1
    <3> HIDE DEF E
    <3> QED
      BY <1>1, <2>2, <3>2
  <2> QED
    BY <1>2, <1>4, <2>2, <2>3
<1> QED
  BY <1>3, <1>4

LEMMA LastHashType == ASSUME file \in Seq(LineSet) PROVE LastHash \in Hashes
<1>1. GENESIS \in Hashes
  BY DEF GENESIS, Hashes
<1>2. ASSUME NEW i \in 1..Len(file), file[i].parses PROVE file[i].hash \in Hashes
  <2>1. file[i] \in LineSet
    BY Zenon, ElementOfSeq
  <2>2. file[i] # Garbage
    BY <1>2 DEF Garbage
  <2> QED
    BY <2>1, <2>2 DEF LineSet, Entries
<1> QED
  BY <1>1, <1>2, LastHashIsLastLine DEF LastHash

LEMMA PayloadType ==
    ASSUME Typed, NEW p \in Pipelines
    PROVE  /\ Payload(p) \in Payloaded
           /\ Entry(pipe[p].prev, Payload(p)) \in Entries
           /\ Decision(p) \in Named
<1>1. pipe[p].run \in Nat /\ pipe[p].step \in Nat /\ pipe[p].prev \in Hashes
  <2>1. pipe[p] \in [at : Stages, run : 0..MaxRuns, step : 1..Len(team), prev : Hashes]
    BY DEF Typed
  <2> QED
    BY <2>1
<1>2. UseDense(Question(Agent(p))) \in BOOLEAN
  BY DEF UseDense
<1>3. Certified(Question(Agent(p)), UseDense(Question(Agent(p)))) \in BOOLEAN
  BY DEF Certified
<1>4. Payload(p) \in Payloaded
  BY <1>1, <1>2, <1>3 DEF Payload, Payloaded
<1>5. EntryHash(pipe[p].prev, Payload(p)) \in Hashes
  BY <1>1, <1>4 DEF EntryHash, Hashes
<1>6. Entry(pipe[p].prev, Payload(p)) \in Entries
  BY <1>1, <1>4, <1>5 DEF Entry, Entries
<1> QED
  BY <1>1, <1>4, <1>6 DEF Decision, Named

LEMMA LinesType ==
    ASSUME Typed, NEW line \in LineSet
    PROVE  Lines(line) \in Seq(LineSet) /\ Lines(line) # << >>
<1>1. CASE lineEnd = "ended"
  BY <1>1, AppendProperties DEF Typed, Lines
<1>2. CASE lineEnd # "ended"
  <2>1. file \in Seq(LineSet) /\ Len(file) \in 1..Len(file)
    BY <1>2 DEF Typed
  <2>2. Garbage \in LineSet
    BY DEF LineSet
  <2>3. /\ [file EXCEPT ![Len(file)] = Garbage] \in Seq(LineSet)
        /\ Len([file EXCEPT ![Len(file)] = Garbage]) = Len(file)
    BY <2>1, <2>2, ExceptSeq
  <2> QED
    BY <1>2, <2>1, <2>3 DEF Lines
<1> QED
  BY <1>1, <1>2

LEMMA RemoveAtSequence ==
    ASSUME NEW S, NEW s \in Seq(S), NEW i \in 1..Len(s)
    PROVE  /\ RemoveAt(s, i) \in Seq(S)
           /\ Len(RemoveAt(s, i)) = Len(s) - 1
           /\ \A k \in 1..(Len(s) - 1) :
                RemoveAt(s, i)[k] = IF k < i THEN s[k] ELSE s[k + 1]
<1> DEFINE n == Len(s)
           j == i - 1
           l == i + 1
           a == SubSeq(s, 1, j)
           b == SubSeq(s, l, n)
<1>1. /\ n \in Nat /\ i \in 1..n /\ j \in Int /\ l \in Int
      /\ \A k \in 1..n : s[k] \in S
  OBVIOUS
<1>0. j = i - 1 /\ l = i + 1
  OBVIOUS
<1>4. RemoveAt(s, i) = a \o b
  BY DEF RemoveAt
<1> HIDE DEF n, j, l
<1>2. /\ a \in Seq(S)
      /\ Len(a) = IF 1 <= j THEN j - 1 + 1 ELSE 0
      /\ \A k \in 1..(j - 1 + 1) : a[k] = s[1 + k - 1]
  <2>1. 1 \in Int /\ \A k \in 1..j : s[k] \in S
    BY <1>0, <1>1
  <2> QED
    BY <1>1, <2>1, SubSeqProperties
<1>3. /\ b \in Seq(S)
      /\ Len(b) = IF l <= n THEN n - l + 1 ELSE 0
      /\ \A k \in 1..(n - l + 1) : b[k] = s[l + k - 1]
  <2>1. n \in Int /\ \A k \in l..n : s[k] \in S
    BY <1>0, <1>1
  <2> QED
    BY <1>1, <2>1, SubSeqProperties
<1> HIDE DEF a, b
<1>5. Len(a) = i - 1 /\ \A k \in 1..(i - 1) : a[k] = s[k]
  <2>1. Len(a) = i - 1
    BY <1>0, <1>1, <1>2
  <2>2. ASSUME NEW k \in 1..(i - 1) PROVE a[k] = s[k]
    <3>1. k \in 1..(j - 1 + 1) /\ 1 + k - 1 = k
      BY <1>0, <1>1
    <3> QED
      BY <1>2, <3>1
  <2> QED
    BY <2>1, <2>2
<1>6. Len(b) = n - i /\ \A k \in 1..(n - i) : b[k] = s[k + i]
  <2>1. Len(b) = n - i
    BY <1>0, <1>1, <1>3
  <2>2. ASSUME NEW k \in 1..(n - i) PROVE b[k] = s[k + i]
    <3>1. k \in 1..(n - l + 1) /\ l + k - 1 = k + i
      BY <1>0, <1>1
    <3> QED
      BY <1>3, <3>1
  <2> QED
    BY <2>1, <2>2
<1>7. /\ a \o b \in Seq(S)
      /\ Len(a \o b) = Len(a) + Len(b)
      /\ \A k \in 1..(Len(a) + Len(b)) :
            (a \o b)[k] = IF k <= Len(a) THEN a[k] ELSE b[k - Len(a)]
  BY <1>2, <1>3, ConcatProperties
<1> DEFINE c == a \o b
<1> HIDE DEF c
<1>8. Len(c) = n - 1
  BY <1>1, <1>5, <1>6, <1>7 DEF c
<1>9. ASSUME NEW k \in 1..(n - 1) PROVE c[k] = IF k < i THEN s[k] ELSE s[k + 1]
  <2>1. c[k] = IF k <= i - 1 THEN a[k] ELSE b[k - (i - 1)]
    <3>1. k \in 1..(Len(a) + Len(b))
      BY <1>1, <1>5, <1>6
    <3> QED
      BY <1>5, <1>7, <3>1, Zenon DEF c
  <2>2. CASE k < i
    BY <1>1, <1>5, <2>1, <2>2
  <2>3. CASE ~ (k < i)
    <3>1. k - (i - 1) \in 1..(n - i) /\ (k - (i - 1)) + i = k + 1 /\ ~ (k <= i - 1)
      BY <1>1, <2>3
    <3> QED
      BY <1>6, <2>1, <2>3, <3>1
  <2> QED
    BY <2>2, <2>3
<1> QED
  BY <1>4, <1>7, <1>8, <1>9 DEF n, c

\* One edit of a ledger of entries leaves a ledger of as many lines or one less.
LEMMA EditedType ==
    ASSUME file \in Seq(Entries), NEW i \in 1..Len(file), NEW f \in Edited(i)
    PROVE  f \in Seq(LineSet) /\ f # << >>
<1>0. Len(file) \in Nat /\ i \in Nat /\ file \in [1..Len(file) -> Entries]
  OBVIOUS
<1>1. \A k \in 1..Len(file) : file[k] \in Entries
  BY <1>0
<1>2. file[i] \in Entries
  BY <1>1
<1>3. file \in Seq(LineSet)
  BY SeqMonotonic DEF LineSet
<1>4. CASE f = [file EXCEPT ![i].payload.dense = ~ @]
  <2> DEFINE e == [file[i] EXCEPT !.payload.dense = ~ @]
  <2>1. e \in Entries
    BY <1>2 DEF Entries, Payloaded
  <2>2. f = [file EXCEPT ![i] = e]
    BY <1>4
  <2> HIDE DEF e
  <2> QED
    BY <1>3, <2>1, <2>2, ExceptSeq DEF LineSet
<1>5. CASE f = [file EXCEPT ![i].prev = Append(@, file[i].payload)]
  <2> DEFINE e == [file[i] EXCEPT !.prev = Append(@, file[i].payload)]
  <2>1. e \in Entries
    <3>0. file[i].prev \in Seq(Payloaded) /\ file[i].payload \in Payloaded
      BY <1>2 DEF Entries, Hashes
    <3>1. Append(file[i].prev, file[i].payload) \in Hashes
      BY <3>0, AppendProperties DEF Hashes
    <3> QED
      BY <1>2, <3>1 DEF Entries
  <2>2. f = [file EXCEPT ![i] = e]
    BY <1>5
  <2> HIDE DEF e
  <2> QED
    BY <1>3, <2>1, <2>2, ExceptSeq DEF LineSet
<1>6. CASE f = [file EXCEPT ![i] = Garbage]
  BY <1>3, <1>6, ExceptSeq DEF LineSet
<1>7. CASE i # Len(file) /\ f = RemoveAt(file, i)
  <2>1. f \in Seq(LineSet) /\ Len(f) = Len(file) - 1
    BY <1>3, <1>7, RemoveAtSequence
  <2>2. i < Len(file)
    <3> DEFINE n == Len(file)
    <3>1. n \in Nat /\ i \in 1..n /\ i # n
      BY <1>0, <1>7, Zenon
    <3> HIDE DEF n
    <3>2. i < n
      BY <3>1
    <3> QED
      BY <3>2 DEF n
  <2>3. Len(f) # 0
    BY <1>0, <2>1, <2>2
  <2>4. Len(<< >>) = 0
    BY EmptySeq
  <2> QED
    BY <2>1, <2>3, <2>4
<1>8. CASE i # Len(file) /\ f = [file EXCEPT ![i] = file[i + 1], ![i + 1] = file[i]]
  <2>1. i + 1 \in 1..Len(file) /\ file[i + 1] \in LineSet /\ file[i] \in LineSet
    BY <1>0, <1>1, <1>8 DEF LineSet
  <2> QED
    BY <1>3, <1>8, <2>1
<1> QED
  BY <1>4, <1>5, <1>6, <1>7, <1>8 DEF Edited

\* What an action does to one pipeline's place is all that Typed asks of it.
LEMMA TypedPlace ==
    ASSUME Typed, NEW p \in Pipelines, NEW r,
           r \in [at : Stages, run : 0..MaxRuns, step : 1..Len(team), prev : Hashes],
           r.at # "idle" => r.run # 0,
           pipe' = [pipe EXCEPT ![p] = r], UNCHANGED <<team, faults>>,
           file' \in Seq(LineSet), written' \in Seq(Entries),
           lineEnd' \in {"ended", "within", "before"},
           lineEnd' = "ended" \/ file' # << >>,
           \A d \in audit' \cup acked' :
              d \in Named /\ d.pipeline \in Pipelines /\ d.run \in 1..MaxRuns
    PROVE  Typed'
<1>1. pipe' \in [Pipelines -> [at : Stages, run : 0..MaxRuns, step : 1..Len(team),
                               prev : Hashes]]
  BY DEF Typed
<1>2. \A q \in Pipelines : pipe'[q].at # "idle" => pipe'[q].run # 0
  BY DEF Typed
<1> QED
  BY <1>1, <1>2 DEF Typed

LEMMA TypedInit == Init => Typed
<1> SUFFICES ASSUME Init PROVE Typed
  OBVIOUS
<1>1. PICK s \in Settings : team = s.team /\ faults = s.faults
  BY DEF Init
<1>2. [team |-> team, faults |-> faults] \in Settings
  BY <1>1, SettingsAssumption
<1>3. team \in Seq(STRING) /\ team # << >> /\ Len(team) \in Nat \ {0}
  BY <1>1, SettingsAssumption
<1>4. pipe = [p \in Pipelines |-> Idle(0)]
  BY DEF Init
<1>5. Idle(0) \in [at : Stages, run : 0..MaxRuns, step : 1..Len(team), prev : Hashes]
  BY <1>3, RunsAssumption DEF Idle, Stages, GENESIS, Hashes
<1>6. \A p \in Pipelines : pipe[p].at = "idle"
  BY <1>4 DEF Idle
<1>7. file = << >> /\ written = << >> /\ lineEnd = "ended" /\ audit = {} /\ acked = {}
  BY DEF Init, LedgerInit
<1> QED
  BY <1>2, <1>3, <1>4, <1>5, <1>6, <1>7 DEF Typed

LEMMA TypedStep == Typed /\ [Next]_vars => Typed'
<1> SUFFICES ASSUME Typed, [Next]_vars PROVE Typed'
  OBVIOUS
<1> DEFINE Place == [at : Stages, run : 0..MaxRuns, step : 1..Len(team), prev : Hashes]
<1>0. /\ Len(team) \in Nat \ {0} /\ GENESIS \in Hashes
      /\ \A p \in Pipelines : pipe[p] \in Place
  BY DEF Typed, GENESIS, Hashes
<1>9. ASSUME NEW p \in Pipelines PROVE Idle(pipe[p].run) \in Place
  BY <1>0, RunsAssumption DEF Idle, Stages
<1>1. ASSUME NEW p \in Pipelines, Start(p) PROVE Typed'
  <2> DEFINE r == [Idle(pipe[p].run + 1) EXCEPT !.at = "next"]
  <2>1. r \in Place /\ r.run # 0
    <3>1. pipe[p].run + 1 \in 0..MaxRuns /\ pipe[p].run + 1 # 0
      BY <1>0, <1>1, RunsAssumption DEF Start
    <3> QED
      BY <1>0, <3>1 DEF Idle, Stages
  <2>2. pipe' = [pipe EXCEPT ![p] = r]
    BY <1>1 DEF Start
  <2> HIDE DEF r
  <2> QED
    BY <1>1, <2>1, <2>2, TypedPlace DEF Start, Typed, ledgerVars
<1>2. ASSUME NEW p \in Pipelines, Decide(p) PROVE Typed'
  <2>0. pipe[p] \in Place /\ pipe[p].at = "next" /\ pipe[p].run # 0
    BY <1>0, <1>2 DEF Decide, MayDecide, Typed
  <2>1. UNCHANGED <<team, faults, audit, acked, written, file, lineEnd>>
    BY <1>2 DEF Decide, ledgerVars
  <2>2. CASE pipe' = [pipe EXCEPT ![p].at = "read", ![p].prev = LastHash]
    <3> DEFINE r == [pipe[p] EXCEPT !.at = "read", !.prev = LastHash]
    <3>1. r \in Place /\ r.run # 0
      BY <2>0, LastHashType DEF Typed, Stages
    <3>2. pipe' = [pipe EXCEPT ![p] = r]
      BY <2>2
    <3> HIDE DEF r
    <3> QED
      BY <2>1, <3>1, <3>2, TypedPlace DEF Typed
  <2>3. CASE pipe' = [pipe EXCEPT ![p].at = "failed"]
    <3> DEFINE r == [pipe[p] EXCEPT !.at = "failed"]
    <3>1. r \in Place /\ r.run # 0
      BY <2>0 DEF Stages
    <3>2. pipe' = [pipe EXCEPT ![p] = r]
      BY <2>3
    <3> HIDE DEF r
    <3> QED
      BY <2>1, <3>1, <3>2, TypedPlace DEF Typed
  <2> QED
    BY <1>2, <2>2, <2>3 DEF Decide
<1>3. ASSUME NEW p \in Pipelines, Write(p) PROVE Typed'
  <2> DEFINE r == [pipe[p] EXCEPT !.at = "appended"]
             e == Entry(pipe[p].prev, Payload(p))
  <2>1. r \in Place /\ r.run # 0
    BY <1>0, <1>3 DEF Write, Typed, Stages
  <2>2. pipe' = [pipe EXCEPT ![p] = r]
    BY <1>3 DEF Write
  <2>3. e \in Entries /\ Decision(p) \in Named
    BY PayloadType
  <2>4. /\ UNCHANGED <<team, faults, audit>> /\ acked' = acked \cup {Decision(p)}
        /\ file' = Lines(e) /\ lineEnd' = "ended"
        /\ written' = Append(written, e) \/ written' = written
    BY <1>3 DEF Write, WriteEntry
  <2>5. Decision(p).pipeline \in Pipelines /\ Decision(p).run \in 1..MaxRuns
    BY <1>0, <1>3 DEF Decision, Write, Typed
  <2>6. file' \in Seq(LineSet)
    <3> HIDE DEF e
    <3> QED
      BY <2>3, <2>4, LinesType DEF LineSet
  <2>7. written' \in Seq(Entries)
    <3> HIDE DEF e
    <3>1. written \in Seq(Entries)
      BY DEF Typed
    <3>2. Append(written, e) \in Seq(Entries)
      BY <2>3, <3>1, AppendProperties
    <3> QED
      BY <2>4, <3>1, <3>2
  <2> HIDE DEF r, e
  <2>8. \A d \in audit' \cup acked' :
          d \in Named /\ d.pipeline \in Pipelines /\ d.run \in 1..MaxRuns
    BY <2>3, <2>4, <2>5 DEF Typed
  <2> QED
    BY <2>1, <2>2, <2>4, <2>6, <2>7, <2>8, TypedPlace
<1>4. ASSUME NEW p \in Pipelines, WriteCut(p) PROVE Typed'
  <2> DEFINE r == [pipe[p] EXCEPT !.at = "failed"]
             e == Entry(pipe[p].prev, Payload(p))
  <2>1. r \in Place /\ r.run # 0
    BY <1>0, <1>4 DEF WriteCut, Typed, Stages
  <2>2. pipe' = [pipe EXCEPT ![p] = r]
    BY <1>4 DEF WriteCut
  <2>3. e \in LineSet /\ Garbage \in LineSet
    BY PayloadType DEF LineSet
  <2>4. /\ UNCHANGED <<team, faults, audit, acked, written>>
        /\ file' = Lines(e) \/ file' = Lines(Garbage)
        /\ lineEnd' \in {"ended", "within", "before"}
    BY <1>4 DEF WriteCut, CutWithin, CutBeforeNewline
  <2> HIDE DEF r, e
  <2>5. file' \in Seq(LineSet) /\ file' # << >>
    BY <2>3, <2>4, LinesType
  <2> QED
    BY <2>1, <2>2, <2>4, <2>5, TypedPlace DEF Typed
<1>5. ASSUME NEW p \in Pipelines, Finish(p) PROVE Typed'
  <2>1. /\ UNCHANGED <<team, faults, acked, written, file, lineEnd>>
        /\ audit' \subseteq audit \cup Audited(p)
        /\ pipe[p].at \in {"appended", "failed"}
    BY <1>5 DEF Finish, ledgerVars, Returns
  <2>2. \A d \in Audited(p) : d \in Named /\ d.pipeline \in Pipelines /\ d.run \in 1..MaxRuns
    <3>1. Decision(p) \in Named /\ Decision(p).pipeline \in Pipelines
      BY PayloadType DEF Decision
    <3>2. Decision(p).run \in 1..MaxRuns
      BY <1>0, <2>1 DEF Decision, Typed
    <3> QED
      BY <3>1, <3>2 DEF Audited
  <2>3. \A d \in audit' \cup acked' :
          d \in Named /\ d.pipeline \in Pipelines /\ d.run \in 1..MaxRuns
    BY <2>1, <2>2 DEF Typed
  <2>4. NextStep(p) \in Place /\ (NextStep(p).at # "idle" => NextStep(p).run # 0)
    <3>1. pipe[p] \in Place /\ pipe[p].run # 0
      BY <1>0, <2>1 DEF Typed
    <3>2. pipe[p].step # Len(team) => pipe[p].step + 1 \in 1..Len(team)
      BY <1>0, <3>1
    <3>3. CASE pipe[p].step = Len(team)
      BY <1>0, <3>1, <3>3 DEF NextStep, Stages
    <3>4. CASE pipe[p].step # Len(team)
      BY <1>0, <3>1, <3>2, <3>4 DEF NextStep, Stages
    <3> QED
      BY <3>3, <3>4
  <2>5. CASE pipe' = [pipe EXCEPT ![p] = NextStep(p)]
    BY <2>1, <2>3, <2>4, <2>5, TypedPlace DEF Typed
  <2>6. CASE pipe' = [pipe EXCEPT ![p] = Idle(@.run)]
    <3> DEFINE r == Idle(pipe[p].run)
    <3>1. r \in Place /\ r.at = "idle"
      BY <1>9 DEF Idle
    <3>2. pipe' = [pipe EXCEPT ![p] = r]
      BY <2>6
    <3> HIDE DEF r
    <3> QED
      BY <2>1, <2>3, <3>1, <3>2, TypedPlace DEF Typed
  <2> QED
    BY <1>5, <2>5, <2>6 DEF Finish
<1>6. ASSUME NEW p \in Pipelines, Crash(p) PROVE Typed'
  <2> DEFINE r == Idle(pipe[p].run)
  <2>1. r \in Place /\ r.at = "idle"
    BY <1>9 DEF Idle
  <2>2. pipe' = [pipe EXCEPT ![p] = r]
    BY <1>6 DEF Crash
  <2> HIDE DEF r
  <2> QED
    BY <1>6, <2>1, <2>2, TypedPlace DEF Crash, Typed, ledgerVars
<1>7. CASE Alter
  <2>1. PICK i \in 1..Len(file) : file' \in Edited(i)
    BY <1>7 DEF Alter
  <2>2. file \in Seq(Entries)
    BY <1>7 DEF Alter, Typed
  <2>3. file' \in Seq(LineSet) /\ file' # << >>
    BY <2>1, <2>2, EditedType
  <2> QED
    BY <1>7, <2>3 DEF Alter, pipeVars, Typed
<1>8. CASE UNCHANGED vars
  BY <1>8 DEF vars, pipeVars, ledgerVars, Typed
<1> QED
  BY <1>1, <1>2, <1>3, <1>4, <1>5, <1>6, <1>7, <1>8 DEF Next

\* Runs, steps, agents, the file's lines and the chain's hashes keep their
\* types under every fault.
THEOREM TypeCorrect == Spec => []TypeOK
<1>1. Typed => TypeOK
  <2> SUFFICES ASSUME Typed PROVE TypeOK
    OBVIOUS
  <2>1. ASSUME NEW p \in Pipelines
        PROVE  /\ pipe[p].at \in {"idle", "next", "read", "appended", "failed"}
               /\ pipe[p].run \in 0..MaxRuns
               /\ pipe[p].step \in 1..Len(team)
    BY DEF Typed, Stages
  <2> QED
    BY <2>1 DEF Typed, TypeOK
<1> QED
  BY <1>1, TypedInit, TypedStep, PTL DEF Spec

-----------------------------------------------------------------------------
(* No acknowledged line is lost unseen *)

NoGaps == \A i \in 1..Len(file) : file[i].parses

KnownBy(c) == [pipeline |-> c.pipeline, run |-> c.run, step |-> c.step]

\* While every line parses, each decision acknowledged is on some line
Recorded ==
    "altered" \notin faults /\ NoGaps =>
        \A d \in acked : \E i \in 1..Len(file) : d = KnownBy(file[i].payload)

\* What one more line does to the file: it is added whole, or joins a cut one.
LEMMA LinesEffect ==
    ASSUME Typed, NEW line \in LineSet
    PROVE  /\ lineEnd = "ended" =>
                /\ Len(Lines(line)) = Len(file) + 1
                /\ \A i \in 1..Len(file) : Lines(line)[i] = file[i]
                /\ Lines(line)[Len(file) + 1] = line
           /\ lineEnd # "ended" =>
                /\ Len(file) \in 1..Len(file)
                /\ Len(Lines(line)) = Len(file)
                /\ \A i \in 1..Len(file) :
                      Lines(line)[i] = IF i = Len(file) THEN Garbage ELSE file[i]
<1>0. file \in Seq(LineSet)
  BY DEF Typed
<1>1. CASE lineEnd = "ended"
  <2>1. Lines(line) = Append(file, line)
    BY <1>1 DEF Lines
  <2> QED
    BY <1>0, <1>1, <2>1, AppendProperties
<1>2. CASE lineEnd # "ended"
  <2>1. Lines(line) = [file EXCEPT ![Len(file)] = Garbage]
    BY <1>2 DEF Lines
  <2>2. Len(file) \in 1..Len(file) /\ Garbage \in LineSet
    BY <1>2 DEF Typed, LineSet
  <2> QED
    BY <1>0, <1>2, <2>1, <2>2, ExceptSeq
<1> QED
  BY <1>1, <1>2

\* A line that is written keeps what was recorded, and adds itself.
LEMMA LinesRecord ==
    ASSUME Typed, Recorded, "altered" \notin faults, NEW line \in LineSet,
           file' = Lines(line), NoGaps'
    PROVE  /\ \A d \in acked : \E i \in 1..Len(file') : d = KnownBy(file'[i].payload)
           /\ \E i \in 1..Len(file') : file'[i] = line
<1>0. Len(file) \in Nat
  BY DEF Typed
<1>1. lineEnd = "ended"
  <2> SUFFICES ASSUME lineEnd # "ended" PROVE FALSE
    OBVIOUS
  <2>1. Len(file) \in 1..Len(file') /\ file'[Len(file)] = Garbage
    BY LinesEffect
  <2> QED
    BY <2>1 DEF NoGaps, Garbage
<1>2. /\ Len(file') = Len(file) + 1
      /\ \A i \in 1..Len(file) : file'[i] = file[i]
      /\ file'[Len(file) + 1] = line
  BY <1>1, LinesEffect
<1>3. NoGaps
  <2> SUFFICES ASSUME NEW i \in 1..Len(file) PROVE file[i].parses
    BY DEF NoGaps
  <2>1. i \in 1..Len(file') /\ file'[i] = file[i]
    BY <1>0, <1>2
  <2> QED
    BY <2>1 DEF NoGaps
<1>4. ASSUME NEW d \in acked
      PROVE  \E i \in 1..Len(file') : d = KnownBy(file'[i].payload)
  <2>1. PICK i \in 1..Len(file) : d = KnownBy(file[i].payload)
    BY <1>3 DEF Recorded
  <2>2. i \in 1..Len(file') /\ file'[i] = file[i]
    BY <1>0, <1>2
  <2> QED
    BY <2>1, <2>2
<1>5. Len(file) + 1 \in 1..Len(file')
  BY <1>0, <1>2
<1> QED
  BY <1>2, <1>4, <1>5

LEMMA FaultsStay == [Next]_vars => faults' = faults
BY DEF Next, vars, pipeVars, Start, Decide, Write, WriteCut, Finish, Crash, Alter

LEMMA RecordedStep == Typed /\ Recorded /\ [Next]_vars => Recorded'
<1> SUFFICES ASSUME Typed, Recorded, [Next]_vars, "altered" \notin faults', NoGaps',
                    NEW d \in acked'
             PROVE  \E i \in 1..Len(file') : d = KnownBy(file'[i].payload)
  BY DEF Recorded
<1>0. faults' = faults
  BY FaultsStay
<1>1. ASSUME file' = file, acked' = acked
      PROVE  \E i \in 1..Len(file') : d = KnownBy(file'[i].payload)
  BY <1>0, <1>1 DEF Recorded, NoGaps
<1>2. ASSUME NEW p \in Pipelines, Start(p) \/ Decide(p) \/ Finish(p) \/ Crash(p)
      PROVE  file' = file /\ acked' = acked
  BY <1>2 DEF Start, Decide, Finish, Crash, ledgerVars
<1>3. ASSUME NEW p \in Pipelines, Write(p)
      PROVE  \E i \in 1..Len(file') : d = KnownBy(file'[i].payload)
  <2> DEFINE e == Entry(pipe[p].prev, Payload(p))
  <2>1. file' = Lines(e) /\ acked' = acked \cup {Decision(p)}
    BY <1>3 DEF Write, WriteEntry
  <2>2. e \in LineSet
    BY PayloadType DEF LineSet
  <2>3. Decision(p) = KnownBy(e.payload)
    BY DEF Decision, KnownBy, Entry, Payload
  <2> HIDE DEF e
  <2> QED
    BY <1>0, <2>1, <2>2, <2>3, LinesRecord
<1>4. ASSUME NEW p \in Pipelines, WriteCut(p)
      PROVE  \E i \in 1..Len(file') : d = KnownBy(file'[i].payload)
  <2> DEFINE e == Entry(pipe[p].prev, Payload(p))
  <2>1. /\ file' = Lines(e) \/ file' = Lines(Garbage)
        /\ acked' = acked
    BY <1>4 DEF WriteCut, CutWithin, CutBeforeNewline
  <2>2. e \in LineSet /\ Garbage \in LineSet
    BY PayloadType DEF LineSet
  <2> HIDE DEF e
  <2> QED
    BY <1>0, <2>1, <2>2, LinesRecord
<1>5. ~ Alter
  BY <1>0 DEF Alter
<1>6. UNCHANGED vars => file' = file /\ acked' = acked
  BY DEF vars, pipeVars, ledgerVars
<1> QED
  BY <1>1, <1>2, <1>3, <1>4, <1>5, <1>6 DEF Next

\* A ledger that verify() accepts has the certificate of every decision whose
\* append() returned: whatever pipelines append at once, whatever is cut.
THEOREM ValidIsComplete == Spec => []ValidMeansComplete
<1>1. Init => Recorded
  BY DEF Init, Recorded
<1>2. Recorded => ValidMeansComplete
  BY DEF Recorded, NoGaps, KnownBy, ValidMeansComplete, Valid, Good, Payloads
<1> QED
  BY <1>1, <1>2, TypedInit, TypedStep, RecordedStep, PTL DEF Spec

-----------------------------------------------------------------------------
(* No edit goes unseen *)

\* Good(i), of any lines
GoodIn(f, i) ==
    /\ f[i].parses
    /\ f[i].prev = (IF i = 1 THEN GENESIS ELSE f[i - 1].hash)
    /\ f[i].hash = EntryHash(f[i].prev, f[i].payload)

\* The lines are one chain: the i-th hash stands for i payloads
Chained(f) == \A i \in 1..Len(f) : GoodIn(f, i) /\ Len(f[i].hash) = i

Deciding(p) == pipe[p].at \notin {"idle", "next"}

\* The file as the pipelines wrote it, and the one that will write knows its tip
Pristine ==
    /\ file = written
    /\ Chained(file)
    /\ \A p \in Pipelines : pipe[p].at = "read" => pipe[p].prev = LastHash

\* An edited file: it has a line verify() stops at
Broken ==
    /\ file # written
    /\ \E i \in 1..Len(file) : ~ GoodIn(file, i)

Untouched ==
    faults = {"altered"} =>
        /\ lineEnd = "ended"
        /\ \A p, q \in Pipelines : Deciding(p) /\ Deciding(q) => p = q
        /\ Pristine \/ Broken

\* Whatever line of a chain is changed, dropped or swapped with the next one,
\* some line no longer follows from the line before it.
LEMMA EditBreaks ==
    ASSUME file \in Seq(Entries), Chained(file),
           NEW i \in 1..Len(file), NEW f \in Edited(i)
    PROVE  f # file /\ \E k \in 1..Len(f) : ~ GoodIn(f, k)
<1> DEFINE n == Len(file)
<1>0. n \in Nat /\ i \in 1..n /\ file \in [1..n -> Entries]
  OBVIOUS
<1>1. \A k \in 1..n : file[k] \in Entries
  BY <1>0
<1>2. \A k \in 1..n :
        /\ file[k].prev \in Seq(Payloaded) /\ file[k].payload \in Payloaded
        /\ file[k].hash \in Seq(Payloaded)
  BY <1>1 DEF Entries, Hashes
<1>3. \A k \in 1..n : /\ Len(file[k].hash) = k
                      /\ file[k].hash = Append(file[k].prev, file[k].payload)
                      /\ file[k].prev = IF k = 1 THEN << >> ELSE file[k - 1].hash
  BY DEF Chained, GoodIn, EntryHash, GENESIS
<1>4. \A k \in 1..n : Len(file[k].prev) = k - 1
  <2> SUFFICES ASSUME NEW k \in 1..n PROVE Len(file[k].prev) = k - 1
    OBVIOUS
  <2>1. Len(file[k].hash) = Len(file[k].prev) + 1
    BY <1>2, <1>3, AppendProperties
  <2>2. Len(file[k].prev) \in Nat
    BY <1>2, LenProperties
  <2> QED
    BY <1>3, <2>1, <2>2
<1>5. CASE f = [file EXCEPT ![i].payload.dense = ~ @]
  <2> DEFINE c == [file[i].payload EXCEPT !.dense = ~ @]
             e == [file[i] EXCEPT !.payload = c]
  <2>1. f = [file EXCEPT ![i] = e]
    BY <1>5
  <2>2. /\ c \in Payloaded /\ c # file[i].payload
        /\ e.hash = file[i].hash /\ e.prev = file[i].prev /\ e.payload = c
    <3>1. file[i] \in Entries /\ file[i].payload \in Payloaded
      BY <1>1, <1>2
    <3>2. c \in Payloaded /\ c.dense # file[i].payload.dense
      BY <3>1 DEF Payloaded
    <3> QED
      BY <3>1, <3>2 DEF Entries
  <2> HIDE DEF c, e
  <2>3. f[i] = e /\ Len(f) = n
    BY <1>0, <2>1
  <2>4. Append(file[i].prev, c) # Append(file[i].prev, file[i].payload)
    BY <1>2, <2>2, AppendInjective
  <2>5. ~ GoodIn(f, i)
    BY <1>3, <2>2, <2>3, <2>4 DEF GoodIn, EntryHash
  <2> QED
    BY <2>2, <2>3, <2>5
<1>6. CASE f = [file EXCEPT ![i].prev = Append(@, file[i].payload)]
  <2> DEFINE c == Append(file[i].prev, file[i].payload)
             e == [file[i] EXCEPT !.prev = c]
  <2>1. f = [file EXCEPT ![i] = e]
    BY <1>6
  <2>2. c # file[i].prev
    <3>1. Len(c) = Len(file[i].prev) + 1 /\ Len(file[i].prev) \in Nat
      BY <1>2, AppendProperties, LenProperties
    <3> HIDE DEF c
    <3> QED
      BY <3>1
  <2>3. e.prev = c
    BY <1>1 DEF Entries
  <2> HIDE DEF c, e
  <2>4. /\ f[i] = e /\ Len(f) = n
        /\ i # 1 => f[i - 1] = file[i - 1]
    BY <1>0, <2>1
  <2>5. ~ GoodIn(f, i)
    BY <1>3, <2>2, <2>3, <2>4 DEF GoodIn, GENESIS
  <2> QED
    BY <2>2, <2>3, <2>4, <2>5
<1>7. CASE f = [file EXCEPT ![i] = Garbage]
  <2>1. f[i] = Garbage /\ Len(f) = n
    BY <1>0, <1>7
  <2>2. ~ GoodIn(f, i)
    BY <2>1 DEF GoodIn, Garbage
  <2>3. GoodIn(file, i)
    BY DEF Chained
  <2> QED
    BY <2>1, <2>2, <2>3
<1>8. ASSUME i # n, Len(f) \in i..n, f[i] = file[i + 1],
             i # 1 => f[i - 1] = file[i - 1]
      PROVE  f # file /\ \E k \in 1..Len(f) : ~ GoodIn(f, k)
  <2>1. i + 1 \in 1..n
    <3>1. n \in Nat /\ i \in 1..n /\ i # n
      BY <1>0, <1>8, Zenon
    <3> HIDE DEF n
    <3> QED
      BY <3>1
  <2>2. Len(f[i].prev) = i
    BY <1>4, <1>8, <2>1
  <2>3. f # file
    BY <1>0, <1>4, <2>2
  <2>4. GoodIn(f, i) => f[i].prev = file[i].prev
    BY <1>3, <1>8 DEF GoodIn, GENESIS
  <2>5. ~ GoodIn(f, i)
    BY <1>0, <1>4, <2>2, <2>4
  <2> QED
    BY <1>8, <2>3, <2>5
<1>9. CASE i # n /\ f = RemoveAt(file, i)
  <2>1. /\ Len(f) = n - 1
        /\ \A k \in 1..(n - 1) : f[k] = IF k < i THEN file[k] ELSE file[k + 1]
    BY <1>9, RemoveAtSequence
  <2> HIDE DEF n
  <2>2. Len(f) \in i..n /\ f[i] = file[i + 1]
    BY <1>0, <1>9, <2>1
  <2>3. i # 1 => f[i - 1] = file[i - 1]
    BY <1>0, <2>1
  <2> QED
    BY <1>8, <1>9, <2>2, <2>3
<1>10. CASE i # n /\ f = [file EXCEPT ![i] = file[i + 1], ![i + 1] = file[i]]
  <2>1. Len(f) = n /\ f[i] = file[i + 1] /\ (i # 1 => f[i - 1] = file[i - 1])
    BY <1>0, <1>10
  <2>2. Len(f) \in i..n
    BY <1>0, <2>1
  <2> QED
    BY <1>8, <1>10, <2>1, <2>2
<1> QED
  BY <1>5, <1>6, <1>7, <1>9, <1>10 DEF Edited

\* A line added to a broken file leaves it broken, and different from the other.
LEMMA BrokenStays ==
    ASSUME Typed, Broken, NEW e \in Entries,
           file' = Append(file, e), written' = Append(written, e)
    PROVE  Broken'
<1>1. file \in Seq(LineSet) /\ written \in Seq(LineSet) /\ e \in LineSet
  BY SeqMonotonic DEF Typed, LineSet
<1>2. file' # written'
  BY <1>1, AppendInjective DEF Broken
<1>3. PICK i \in 1..Len(file) : ~ GoodIn(file, i)
  BY DEF Broken
<1>4. /\ Len(file) \in Nat /\ Len(file') = Len(file) + 1
      /\ \A k \in 1..Len(file) : file'[k] = file[k]
  BY <1>1, AppendProperties
<1>5. i \in 1..Len(file') /\ file'[i] = file[i] /\ (i # 1 => file'[i - 1] = file[i - 1])
  BY <1>3, <1>4
<1>6. ~ GoodIn(file', i)
  BY <1>3, <1>5 DEF GoodIn
<1> QED
  BY <1>2, <1>5, <1>6 DEF Broken

\* A line written behind the tip of a chain continues the chain.
LEMMA ChainGrows ==
    ASSUME Typed, Chained(file), NEW e \in Entries, e.prev = LastHash,
           e.hash = EntryHash(e.prev, e.payload), file' = Append(file, e)
    PROVE  Chained(file')
<1> DEFINE n == Len(file)
<1>1. file \in Seq(LineSet) /\ e \in LineSet
  BY DEF Typed, LineSet
<1>2. /\ n \in Nat /\ Len(file') = n + 1 /\ file'[n + 1] = e
      /\ \A k \in 1..n : file'[k] = file[k]
  BY <1>1, AppendProperties
<1>3. \A k \in 1..n : file[k].parses
  BY DEF Chained, GoodIn
<1>4. e.prev = IF n = 0 THEN GENESIS ELSE file[n].hash
  BY <1>1, <1>3, LastHashIsLastLine DEF LastHash
<1>5. Len(e.prev) = n
  BY <1>2, <1>4 DEF Chained, GENESIS
<1> HIDE DEF n
<1>6. Len(e.hash) = n + 1
  <2>1. e.prev \in Seq(Payloaded) /\ e.payload \in Payloaded
    BY DEF Entries, Hashes
  <2> QED
    BY <1>5, <2>1, AppendProperties DEF EntryHash
<1>7. GoodIn(file', n + 1)
  <2>1. e.parses /\ e.prev = (IF n + 1 = 1 THEN GENESIS ELSE file'[n + 1 - 1].hash)
    <3>0. e.parses
      BY DEF Entries
    <3>1. CASE n = 0
      <4>1. n + 1 = 1
        BY <3>1
      <4> QED
        BY <1>4, <3>0, <3>1, <4>1
    <3>2. CASE n # 0
      <4>1. n + 1 # 1 /\ n + 1 - 1 = n /\ n \in 1..n
        BY <1>2, <3>2
      <4> QED
        BY <1>2, <1>4, <3>0, <3>2, <4>1
    <3> QED
      BY <3>1, <3>2
  <2> QED
    BY <1>2, <2>1 DEF GoodIn
<1>8. ASSUME NEW k \in 1..n PROVE GoodIn(file', k) /\ Len(file'[k].hash) = k
  <2>1. file'[k] = file[k] /\ (k # 1 => file'[k - 1] = file[k - 1])
    BY <1>2
  <2> QED
    BY <2>1 DEF n, Chained, GoodIn
<1> QED
  BY <1>2, <1>6, <1>7, <1>8 DEF Chained

\* A step that leaves the ledger alone keeps Untouched if at most one pipeline
\* is deciding after it, and one that has read knows the tip.
LEMMA UntouchedIdle ==
    ASSUME Untouched, UNCHANGED <<faults, file, lineEnd, written>>,
           \A p, q \in Pipelines : Deciding(p)' /\ Deciding(q)' => p = q,
           \A p \in Pipelines : pipe'[p].at = "read" =>
              \/ pipe[p].at = "read" /\ pipe'[p].prev = pipe[p].prev
              \/ pipe'[p].prev = LastHash
    PROVE  Untouched'
<1> SUFFICES ASSUME faults' = {"altered"} PROVE lineEnd' = "ended" /\ (Pristine' \/ Broken')
  BY DEF Untouched
<1>1. lineEnd = "ended" /\ (Pristine \/ Broken) /\ LastHash' = LastHash
  BY DEF Untouched, LastHash
<1>2. Broken => Broken'
  BY DEF Broken, GoodIn
<1>3. Pristine => Pristine'
  BY <1>1 DEF Pristine, Chained, GoodIn
<1> QED
  BY <1>1, <1>2, <1>3

LEMMA UntouchedStep == Typed /\ Untouched /\ [Next]_vars => Untouched'
<1> SUFFICES ASSUME Typed, Untouched, [Next]_vars, faults = {"altered"}
             PROVE  Untouched'
  BY FaultsStay DEF Untouched
<1>0. /\ lineEnd = "ended"
      /\ Pristine \/ Broken
      /\ \A p, q \in Pipelines : Deciding(p) /\ Deciding(q) => p = q
      /\ DOMAIN pipe = Pipelines
  BY DEF Untouched, Typed
<1>9. ASSUME NEW p \in Pipelines, NEW r, pipe' = [pipe EXCEPT ![p] = r],
             UNCHANGED <<faults, file, lineEnd, written>>,
             r.at \in {"idle", "next"} \/ (r.at = "failed" /\ Deciding(p))
      PROVE  Untouched'
  <2>1. \A q \in Pipelines : pipe'[q] = IF q = p THEN r ELSE pipe[q]
    BY <1>0, <1>9
  <2>2. \A q, t \in Pipelines : Deciding(q)' /\ Deciding(t)' => q = t
    BY <1>0, <1>9, <2>1 DEF Deciding
  <2>3. \A q \in Pipelines : pipe'[q].at = "read" =>
              \/ pipe[q].at = "read" /\ pipe'[q].prev = pipe[q].prev
              \/ pipe'[q].prev = LastHash
    BY <1>9, <2>1
  <2> QED
    BY <1>9, <2>2, <2>3, UntouchedIdle
<1>1. ASSUME NEW p \in Pipelines, Start(p) PROVE Untouched'
  <2> DEFINE r == [Idle(pipe[p].run + 1) EXCEPT !.at = "next"]
  <2>1. pipe' = [pipe EXCEPT ![p] = r] /\ r.at = "next"
    BY <1>1 DEF Start, Idle
  <2> HIDE DEF r
  <2> QED
    BY <1>1, <1>9, <2>1 DEF Start, ledgerVars
<1>2. ASSUME NEW p \in Pipelines, Decide(p) PROVE Untouched'
  <2>1. /\ \A q \in Pipelines : ~ Deciding(q)
        /\ pipe' = [pipe EXCEPT ![p].at = "read", ![p].prev = LastHash]
        /\ UNCHANGED <<faults, file, lineEnd, written>>
    BY <1>2 DEF Decide, MayDecide, Deciding, ledgerVars
  <2>2. /\ pipe'[p].prev = LastHash
        /\ \A q \in Pipelines \ {p} : pipe'[q] = pipe[q]
    <3>1. pipe[p] \in [at : Stages, run : 0..MaxRuns, step : 1..Len(team), prev : Hashes]
      BY DEF Typed
    <3> QED
      BY <1>0, <2>1, <3>1
  <2>3. \A q \in Pipelines \ {p} : ~ Deciding(q)'
    BY <2>1, <2>2 DEF Deciding
  <2>4. \A q \in Pipelines : pipe'[q].at = "read" => pipe'[q].prev = LastHash
    BY <2>2, <2>3 DEF Deciding
  <2> QED
    BY <2>1, <2>3, <2>4, UntouchedIdle
<1>3. ASSUME NEW p \in Pipelines, Write(p) PROVE Untouched'
  <2> DEFINE e == Entry(pipe[p].prev, Payload(p))
  <2>1. /\ file' = Append(file, e) /\ lineEnd' = "ended"
        /\ written' = Append(written, e) /\ faults' = faults
        /\ pipe[p].at = "read"
        /\ pipe' = [pipe EXCEPT ![p].at = "appended"]
    <3>1. file' = Append(file, e) /\ lineEnd' = "ended" /\ pipe[p].at = "read"
      <4>1. file' = Lines(e) /\ lineEnd' = "ended" /\ pipe[p].at = "read"
        BY <1>3 DEF Write, WriteEntry
      <4> HIDE DEF e
      <4>2. Lines(e) = Append(file, e)
        BY <1>0 DEF Lines
      <4> QED
        BY <4>1, <4>2
    <3>2. "altered" \in faults
      OBVIOUS
    <3> QED
      BY <1>3, <3>1, <3>2 DEF Write
  <2>2. e \in Entries /\ e.prev = pipe[p].prev /\ e.hash = EntryHash(e.prev, e.payload)
    BY PayloadType DEF Entry
  <2> HIDE DEF e
  <2>3. pipe'[p].at = "appended" /\ \A q \in Pipelines \ {p} : pipe'[q] = pipe[q]
    BY <1>0, <2>1
  <2>4. \A q \in Pipelines \ {p} : ~ Deciding(q)'
    BY <1>0, <2>1, <2>3 DEF Deciding
  <2>5. Broken => Broken'
    BY <2>1, <2>2, BrokenStays
  <2>6. ASSUME Pristine PROVE Pristine'
    <3>1. Chained(file')
      BY <2>1, <2>2, <2>6, ChainGrows DEF Pristine
    <3>2. file' = written'
      BY <2>1, <2>6 DEF Pristine
    <3>3. \A q \in Pipelines : pipe'[q].at # "read"
      BY <2>3, <2>4 DEF Deciding
    <3> QED
      BY <3>1, <3>2, <3>3 DEF Pristine
  <2>7. \A q, t \in Pipelines : Deciding(q)' /\ Deciding(t)' => q = t
    BY <2>4
  <2> QED
    BY <1>0, <2>1, <2>5, <2>6, <2>7 DEF Untouched
<1>4. ASSUME NEW p \in Pipelines, WriteCut(p) PROVE Untouched'
  BY <1>4 DEF WriteCut
<1>5. ASSUME NEW p \in Pipelines, Finish(p) PROVE Untouched'
  <2>1. NextStep(p).at \in {"idle", "next"} /\ Idle(pipe[p].run).at = "idle"
    <3>1. pipe[p] \in [at : Stages, run : 0..MaxRuns, step : 1..Len(team), prev : Hashes]
      BY DEF Typed
    <3> QED
      BY <3>1 DEF NextStep, Idle
  <2>2. UNCHANGED <<faults, file, lineEnd, written>>
    BY <1>5 DEF Finish, ledgerVars
  <2>3. \E r : r.at \in {"idle", "next"} /\ pipe' = [pipe EXCEPT ![p] = r]
    BY <1>5, <2>1 DEF Finish
  <2> QED
    BY <1>9, <2>2, <2>3
<1>6. ASSUME NEW p \in Pipelines, Crash(p) PROVE Untouched'
  <2> DEFINE r == Idle(pipe[p].run)
  <2>1. pipe' = [pipe EXCEPT ![p] = r] /\ r.at = "idle"
    BY <1>6 DEF Crash, Idle
  <2> HIDE DEF r
  <2> QED
    BY <1>6, <1>9, <2>1 DEF Crash, ledgerVars
<1>7. CASE Alter
  <2>1. /\ file = written /\ written' = written /\ pipe' = pipe
        /\ lineEnd' = lineEnd /\ faults' = faults
        /\ \E i \in 1..Len(file) : file' \in Edited(i)
    BY <1>7 DEF Alter, pipeVars
  <2>2. Chained(file) /\ file \in Seq(Entries)
    BY <1>0, <2>1 DEF Broken, Pristine, Typed
  <2>3. file' # file /\ \E k \in 1..Len(file') : ~ GoodIn(file', k)
    BY <2>1, <2>2, EditBreaks
  <2>4. Broken'
    BY <2>1, <2>3 DEF Broken
  <2> QED
    BY <1>0, <2>1, <2>4 DEF Untouched, Deciding
<1>8. CASE UNCHANGED vars
  <2>1. UNCHANGED <<faults, file, lineEnd, written, pipe>>
    BY <1>8 DEF vars, pipeVars, ledgerVars
  <2> QED
    BY <1>0, <2>1, UntouchedIdle DEF Deciding
<1> QED
  BY <1>1, <1>2, <1>3, <1>4, <1>5, <1>6, <1>7, <1>8 DEF Next

\* One edit of the ledger, but the loss of its last lines, is found by
\* verify() for good: after it, only the untouched file would be valid.
THEOREM ValidIsUntouched == Spec => []ValidMeansUntouched
<1>1. Init => Untouched
  <2> SUFFICES ASSUME Init PROVE Untouched
    OBVIOUS
  <2>1. /\ file = << >> /\ written = << >> /\ lineEnd = "ended"
        /\ pipe = [p \in Pipelines |-> Idle(0)]
    BY DEF Init, LedgerInit
  <2>2. \A p \in Pipelines : pipe[p].at = "idle"
    BY <2>1 DEF Idle
  <2>3. Chained(<< >>)
    BY DEF Chained
  <2> QED
    BY <2>1, <2>2, <2>3 DEF Untouched, Pristine, Deciding
<1>2. Untouched => ValidMeansUntouched
  BY DEF Untouched, Pristine, Broken, ValidMeansUntouched, Valid, Good, GoodIn
<1> QED
  BY <1>1, <1>2, TypedInit, TypedStep, UntouchedStep, PTL DEF Spec

-----------------------------------------------------------------------------
(* What verify() accepted it accepts for ever *)

\* The line that a write may still change is one that does not parse
CutIsGarbage ==
    faults \subseteq {"overlap", "fail", "torn"} =>
        /\ lineEnd \in {"ended", "within"}
        /\ lineEnd = "within" => file[Len(file)] = Garbage

\* Every line stays as it is, unless it is Garbage and stays Garbage.
LinesStay ==
    /\ Len(file) <= Len(file')
    /\ \A i \in 1..Len(file) : file'[i] = file[i]

LEMMA LineAdded ==
    ASSUME Typed, CutIsGarbage, faults \subseteq {"overlap", "fail", "torn"},
           NEW line \in LineSet, file' = Lines(line)
    PROVE  /\ LinesStay
           /\ line = Garbage \/ lineEnd = "within" => file'[Len(file')] = Garbage
<1>1. Len(file) \in Nat
  BY DEF Typed
<1>2. CASE lineEnd = "ended"
  BY <1>1, <1>2, LinesEffect DEF LinesStay
<1>3. CASE lineEnd = "within"
  <2>1. file[Len(file)] = Garbage
    BY <1>3 DEF CutIsGarbage
  <2> QED
    BY <1>1, <1>3, <2>1, LinesEffect DEF LinesStay
<1> QED
  BY <1>2, <1>3 DEF CutIsGarbage

LEMMA LinesStayStep ==
    ASSUME Typed, CutIsGarbage, [Next]_vars,
           faults \subseteq {"overlap", "fail", "torn"}
    PROVE  LinesStay /\ CutIsGarbage'
<1>0. faults' = faults /\ Len(file) \in Nat
  BY FaultsStay DEF Typed
<1>1. ASSUME UNCHANGED <<file, lineEnd>> PROVE LinesStay /\ CutIsGarbage'
  BY <1>0, <1>1 DEF LinesStay, CutIsGarbage
<1>2. ASSUME NEW p \in Pipelines, Start(p) \/ Decide(p) \/ Finish(p) \/ Crash(p)
      PROVE  UNCHANGED <<file, lineEnd>>
  BY <1>2 DEF Start, Decide, Finish, Crash, ledgerVars
<1>3. ASSUME NEW p \in Pipelines, Write(p) PROVE LinesStay /\ CutIsGarbage'
  <2> DEFINE e == Entry(pipe[p].prev, Payload(p))
  <2>1. file' = Lines(e) /\ lineEnd' = "ended"
    BY <1>3 DEF Write, WriteEntry
  <2>2. e \in LineSet
    BY PayloadType DEF LineSet
  <2> HIDE DEF e
  <2> QED
    BY <2>1, <2>2, LineAdded DEF CutIsGarbage
<1>4. ASSUME NEW p \in Pipelines, WriteCut(p) PROVE LinesStay /\ CutIsGarbage'
  <2>1. file' = Lines(Garbage) /\ lineEnd' = "within"
    BY <1>4 DEF WriteCut, CutWithin
  <2>2. Garbage \in LineSet
    BY DEF LineSet
  <2>3. LinesStay /\ file'[Len(file')] = Garbage
    BY <2>1, <2>2, LineAdded
  <2> QED
    BY <2>1, <2>3 DEF CutIsGarbage
<1>5. ~ Alter
  BY DEF Alter
<1>6. UNCHANGED vars => UNCHANGED <<file, lineEnd>>
  BY DEF vars, ledgerVars
<1> QED
  BY <1>1, <1>2, <1>3, <1>4, <1>5, <1>6 DEF Next

\* Verified, of any lines
VerifiedOf(f) ==
    CHOOSE n \in 0..Len(f) :
        /\ \A i \in 1..n : GoodIn(f, i)
        /\ n = Len(f) \/ ~ GoodIn(f, n + 1)

\* It is what its definition says: the number of lines before the first bad one.
LEMMA VerifiedExists ==
    ASSUME NEW f, Len(f) \in Nat
    PROVE  /\ VerifiedOf(f) \in 0..Len(f)
           /\ \A i \in 1..VerifiedOf(f) : GoodIn(f, i)
           /\ VerifiedOf(f) = Len(f) \/ ~ GoodIn(f, VerifiedOf(f) + 1)
<1> DEFINE n == Len(f)
           Bad == {k \in Nat : k < n /\ ~ GoodIn(f, k + 1)}
           P(k) == /\ \A i \in 1..k : GoodIn(f, i)
                   /\ k = n \/ ~ GoodIn(f, k + 1)
<1>1. \E k \in 0..n : P(k)
  <2>1. CASE Bad = {}
    <3>1. ASSUME NEW i \in 1..n PROVE GoodIn(f, i)
      <4>1. i - 1 \in Nat /\ i - 1 < n /\ (i - 1) + 1 = i
        OBVIOUS
      <4> HIDE DEF n
      <4> QED
        BY <2>1, <4>1
    <3> QED
      BY <3>1
  <2>2. CASE Bad # {}
    <3>1. Bad \in SUBSET Nat
      OBVIOUS
    <3> HIDE DEF Bad
    <3>2. PICK k \in Bad : \A j \in Bad : k <= j
      BY <2>2, <3>1, LeastExists
    <3>3. k \in 0..n /\ ~ GoodIn(f, k + 1)
      BY <3>2 DEF Bad
    <3>4. ASSUME NEW i \in 1..k, ~ GoodIn(f, i) PROVE FALSE
      <4>1. i - 1 \in Nat /\ i - 1 < n /\ (i - 1) + 1 = i /\ ~ (k <= i - 1)
        BY <3>3
      <4>2. i - 1 \in Bad
        BY <3>4, <4>1 DEF Bad
      <4> QED
        BY <3>2, <4>1, <4>2
    <3> QED
      BY <3>3, <3>4
  <2> QED
    BY <2>1, <2>2
<1>2. VerifiedOf(f) = CHOOSE k \in 0..n : P(k)
  BY DEF VerifiedOf
<1> HIDE DEF P
<1>3. VerifiedOf(f) \in 0..n /\ P(VerifiedOf(f))
  BY <1>1, <1>2
<1> QED
  BY <1>3 DEF P

LEMMA VerifiedKeeps ==
    ASSUME Len(file) \in Nat, Len(file') \in Nat, LinesStay
    PROVE  VerifiedOf(file') >= VerifiedOf(file)
<1> DEFINE n == VerifiedOf(file)
           m == VerifiedOf(file')
<1>1. /\ n \in 0..Len(file)
      /\ \A i \in 1..n : GoodIn(file, i)
  BY VerifiedExists
<1>2. /\ m \in 0..Len(file')
      /\ m = Len(file') \/ ~ GoodIn(file', m + 1)
  BY VerifiedExists
<1>3. \A i \in 1..n : GoodIn(file', i)
  <2> SUFFICES ASSUME NEW i \in 1..n PROVE GoodIn(file', i)
    OBVIOUS
  <2>1. i \in 1..Len(file) /\ (i # 1 => i - 1 \in 1..Len(file)) /\ GoodIn(file, i)
    BY <1>1
  <2>2. file'[i] = file[i] /\ (i # 1 => file'[i - 1] = file[i - 1])
    BY <2>1 DEF LinesStay
  <2> QED
    BY <2>1, <2>2 DEF GoodIn
<1>4. Len(file) <= Len(file')
  BY DEF LinesStay
<1> HIDE DEF n, m
<1>5. ASSUME ~ (m >= n) PROVE FALSE
  <2>1. m + 1 \in 1..n /\ m # Len(file')
    BY <1>1, <1>2, <1>4, <1>5
  <2> QED
    BY <1>2, <1>3, <2>1
<1> QED
  BY <1>5 DEF n, m

\* The verified part of the ledger never shrinks while appends overlap, fail,
\* or are cut within the line; only a line cut just before its newline can.
THEOREM VerifiedStays == Spec => VerifiedOnlyGrows
<1>1. Init => CutIsGarbage
  BY DEF Init, LedgerInit, CutIsGarbage
<1>2. Typed /\ CutIsGarbage /\ [Next]_vars => CutIsGarbage'
  BY LinesStayStep, FaultsStay DEF CutIsGarbage
<1>3. Typed /\ Typed' /\ CutIsGarbage /\ [Next]_vars =>
        [faults \subseteq {"overlap", "fail", "torn"} => Verified' >= Verified]_vars
  <2> SUFFICES ASSUME Typed, Typed', CutIsGarbage, [Next]_vars,
                      faults \subseteq {"overlap", "fail", "torn"}
               PROVE  Verified' >= Verified
    OBVIOUS
  <2>1. Len(file) \in Nat /\ Len(file') \in Nat
    BY DEF Typed
  <2>2. LinesStay
    BY LinesStayStep
  <2>3. VerifiedOf(file') >= VerifiedOf(file)
    BY <2>1, <2>2, VerifiedKeeps
  <2>4. Verified = VerifiedOf(file) /\ Verified' = VerifiedOf(file')
    BY DEF Verified, VerifiedOf, Good, GoodIn
  <2> QED
    BY <2>3, <2>4
<1>4. Spec => [](Typed /\ CutIsGarbage)
  BY <1>1, <1>2, TypedInit, TypedStep, PTL DEF Spec
<1> QED
  BY <1>3, <1>4, PTL DEF Spec, VerifiedOnlyGrows
=============================================================================
