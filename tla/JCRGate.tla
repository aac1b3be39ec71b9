------------------------------ MODULE JCRGate ------------------------------
(***************************************************************************)
(* The JCR safety gate (safety/jcr_gate.py), the certifier that checks one *)
(* of its decisions against INV-15 (safety/inv15_certifier.py over         *)
(* safety/z3_inv15_proof.py), and the cache salts that a decision leads to *)
(* (serving/prefix_salt_planner.py).  All three are pure.                  *)
(*                                                                         *)
(* Risks, rates and thresholds are in hundredths.  At the default          *)
(* threshold the code's doubles decide as the exact sums do: for judges no *)
(* sum of its constants is rounded across 0.7.                             *)
(*                                                                         *)
(* A definition marked (fault) is a plausible bug in the definition after  *)
(* it; nothing uses it, and some property tells the two apart.             *)
(***************************************************************************)
EXTENDS Integers

CONSTANTS
    JudgeRoles,   \* JUDGE_ROLES: the roles INV-15 protects
    Threshold     \* jcr_threshold

ASSUME ThresholdAssumption == Threshold \in 0..100

AtMost100(n) == IF n > 100 THEN 100 ELSE n

Extra(q) == IF q.candidates > 2 THEN 10 * (q.candidates - 2) ELSE 0

\* compute_jcr_risk of the inputs q of one agent step
Risk(q) ==
    AtMost100((IF q.role \in JudgeRoles THEN 60 ELSE 10)
                + Extra(q)
                + (IF q.shuffled THEN 20 ELSE 0)
                + (IF q.reuse > 80 THEN 15 ELSE 0))

\* (fault) at the threshold is above it
UseDenseFault(q) == q.role \in JudgeRoles /\ Risk(q) >= Threshold

\* INV-15: dense prefill exactly for judges above the threshold
UseDense(q) == q.role \in JudgeRoles /\ Risk(q) > Threshold

\* What build_inv15_constraints makes of the same inputs; its threshold is the
\* default one, whatever the gate's
Mandated(q) ==
    LET isJudge  == q.role \in JudgeRoles
        base     == IF isJudge THEN 60 ELSE 10
        shuffled == IF q.shuffled THEN 20 ELSE 0
        reuse    == IF q.reuse > 80 THEN 15 ELSE 0
    IN  isJudge /\ AtMost100(base + Extra(q) + shuffled + reuse) > 70

\* certify_decision: the refutation of the observed decision is unsatisfiable
Certified(q, dense) == dense = Mandated(q)

-----------------------------------------------------------------------------
SharedSalt(anchor, group) == <<"shared", anchor, group>>

\* (fault) the request left out of the salt
IsolatedSaltFault(anchor, request) == <<"iso", anchor>>

IsolatedSalt(anchor, request) == <<"iso", anchor, request>>

\* plan(): the salt of one agent's request
Salt(dense, anchor, group, request) ==
    IF dense THEN IsolatedSalt(anchor, request) ELSE SharedSalt(anchor, group)
=============================================================================
