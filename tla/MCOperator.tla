----------------------------- MODULE MCOperator -----------------------------
(* Small instances of Operator: up to two workers and two images.            *)
EXTENDS Operator, TLC

CONSTANTS i1, i2, p1, p2, p3

MCImages    == {i1, i2}
MCPasswords == {p1, p2, p3}

One   == [workers |-> 1, image |-> i1, ownRedis |-> FALSE]
Two   == [workers |-> 2, image |-> i2, ownRedis |-> FALSE]
TwoBy == [workers |-> 2, image |-> i1, ownRedis |-> TRUE]

Quiet == [edits |-> 0, deletes |-> 0, creates |-> 0, specs |-> {One}, faults |-> 0, churn |-> 0]

Edited    == [Quiet EXCEPT !.edits = 1, !.specs = {One, Two, TwoBy}, !.churn = 1]
Failing   == [Quiet EXCEPT !.faults = 1, !.specs = {Two, TwoBy}, !.churn = 2]
Deleted   == [Quiet EXCEPT !.deletes = 1]
Replaced  == [Quiet EXCEPT !.deletes = 1, !.creates = 1, !.specs = {TwoBy}, !.churn = 1]
Recreated == [Quiet EXCEPT !.deletes = 1, !.creates = 1]
\* One worker, two, and one again
EditedBack == [Quiet EXCEPT !.edits = 2, !.specs = {One, [One EXCEPT !.workers = 2]}, !.churn = 2]

MCScenarios   == {Edited, Failing, Deleted, Replaced}
MCRecreations == {Recreated}
MCEdits       == {Edited}
MCEditsBack   == {EditedBack}
=============================================================================
