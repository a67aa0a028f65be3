---------------------------- MODULE MCThreadPool ----------------------------
(* Instances of ThreadPool: tasks to queue and one to force, of which one    *)
(* may queue another.  In MCLeaveSpec the user logs out to leave.            *)
EXTENDS ThreadPool

CONSTANTS q1, q2, f1, f2

MCQueueable == {q1, q2}
MCOneQueueable == {q1}
MCForcible == {f1}
MCTools == {f1, f2}
MCQueuers == {q1}
MCNoTools == {}
MCNoQueuers == {}

MCLeaveSpec == Init /\ [][Next /\ (phase' = "purge" => quit')]_vars /\ Fairness
=============================================================================
