---------------------------- MODULE MCFaissIndex ----------------------------
(* Small instances of FaissIndex. *)
EXTENDS FaissIndex, TLC

CONSTANTS a1, a2, t1, t2, t3

MCAgent  == {a1}
MCAgents == {a1, a2}
MCTasks2 == {t1, t2}
MCTasks3 == {t1, t2, t3}
TaskSymmetry == Permutations(Agents) \cup Permutations(Tasks)
=============================================================================
