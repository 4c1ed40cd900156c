--------------------------- MODULE TransformService ---------------------------
(***************************************************************************)
(* What the transform pool promises to the bundler plugin that calls it:   *)
(* each run() is answered exactly once, with the transform's result, with  *)
(* the transform's own error, or with PoolUnavailableError ("run this file *)
(* in-process"); a pool that has refused work never takes work again, and  *)
(* a closed pool leaves no call open.                                      *)
(***************************************************************************)
CONSTANT Tasks            \* the run() calls of a build, one element per call

VARIABLES outcome,        \* what each call's promise shows its caller
          stage           \* does the service still take work?

vars == <<outcome, stage>>

Outcomes == {"idle", "pending", "resolved", "rejected", "unavailable"}
Settled  == {"resolved", "rejected", "unavailable"}
Stages   == {"serving", "refusing", "closed"}

TypeOK == /\ outcome \in [Tasks -> Outcomes]
          /\ stage \in Stages

Pending == {t \in Tasks : outcome[t] = "pending"}

(* Every task of S gets outcome o; the others keep theirs. *)
Settle(S, o) == outcome' = [t \in Tasks |-> IF t \in S THEN o ELSE outcome[t]]

-----------------------------------------------------------------------------

Init == /\ outcome = [t \in Tasks |-> "idle"]
        /\ stage = "serving"

(* run(): taken on, or refused on the spot. *)
Call(t) == /\ outcome[t] = "idle"
           /\ \/ stage = "serving" /\ Settle({t}, "pending")
              \/ Settle({t}, "unavailable")
           /\ UNCHANGED stage

(* A worker answered with the transform's result or with its own error. *)
Answer(t) == /\ stage # "closed"
             /\ outcome[t] = "pending"
             /\ \E o \in {"resolved", "rejected"} : Settle({t}, o)
             /\ UNCHANGED stage

(* Some calls are handed back; the service may stop taking new ones. *)
GiveUp == /\ stage # "closed"
          /\ \E S \in SUBSET Pending : Settle(S, "unavailable")
          /\ stage' \in {stage, "refusing"}

(* dispose(): every open call is handed back. *)
Close == /\ stage # "closed"
         /\ Settle(Pending, "unavailable")
         /\ stage' = "closed"

Next == \/ \E t \in Tasks : Call(t) \/ Answer(t)
        \/ GiveUp
        \/ Close

Safety == Init /\ [][Next]_vars

(* Every call taken on is answered. *)
Answered == \A t \in Tasks : outcome[t] = "pending" ~> outcome[t] \in Settled

=============================================================================
