---------------------------- MODULE MCTransformPool ----------------------------
(* Values for the constants of TransformPool that a .cfg cannot write. *)
EXTENDS TransformPool

CONSTANTS t1, t2, t3, m1, m2

(* Scheduling only: no module is tracked. *)
NeedsNothing == [t \in Tasks |-> {}]

(* t1 and t2 share m1, t2 and t3 share m2: a task can find its modules       *)
(* executed and already reported on behalf of an earlier one.                *)
NeedsShared == [t \in Tasks |-> CASE t = t1 -> {m1}
                                  [] t = t2 -> {m1, m2}
                                  [] OTHER  -> {m2}]

ThreadSymmetry == Permutations(Workers)
SchedulingSymmetry == Permutations(Workers) \cup Permutations(Tasks)
=============================================================================
