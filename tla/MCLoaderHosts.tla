------------------------------ MODULE MCLoaderHosts ------------------------------
(* The hosts of the module loader for TLC, one of them per behaviour: the     *)
(* CLI's watch mode or the SWC bridge over the same files. A schema file      *)
(* imports a helper and a native module, which is a schema file of its own;   *)
(* another imports that and exits the process.                                *)
(*                                                                            *)
(* A behaviour is of one scenario: a host, and bounds of it.                  *)
EXTENDS CliWatch, SwcBridge

CONSTANTS schema, helper, native_, exits, v0, v1, l1, l2

CONSTANT Scenarios
ASSUME ScenariosAssumption ==
  Scenarios \subseteq
    [host : {"watch", "swc"},
     edits : Nat, edited : SUBSET Files,    \* bounds: edits, and the files they are of
     calls : SUBSET Loads]                  \* bound: the SWC bridge's calls

VARIABLE scenario
vars == <<loaderVars, watchVars, swcVars, scenario>>
host == scenario.host

MCImports == (schema :> {schema, helper, native_}) @@ (helper :> {helper})
             @@ (native_ :> {native_}) @@ (exits :> {exits, schema, helper, native_})

Scenario(h, n, edited, calls) == [host |-> h, edits |-> n, edited |-> edited, calls |-> calls]
MCScenarios == {Scenario("watch", 2, Files, {}), Scenario("watch", 3, {schema}, {}),
                Scenario("swc", 1, Files, {l1, l2}), Scenario("swc", 2, Files, {l1})}

(* The two contents are alike, and so are the hosts in what they do to the    *)
(* marker: one initial state of each will do.                                 *)
Init ==
  /\ LoaderInit /\ WatchInit /\ SwcInit
  /\ content = [f \in Files |-> v0]
  /\ scenario \in Scenarios /\ userMarker = IF host = "swc" THEN "user" ELSE "unset"

Watch == host = "watch" /\ WatchNext /\ UNCHANGED swcVars
Swc   == host = "swc" /\ SwcNext /\ UNCHANGED watchVars
Next  ==
  /\ Watch \/ Swc
  /\ UNCHANGED scenario
  /\ edits' <= scenario.edits /\ \A f \in Files \ scenario.edited : content'[f] = content[f]
  /\ \A l \in Loads \ scenario.calls : call'[l] = call[l]

Proceed(l) ==
  /\ \/ host = "watch" /\ (WatchTask(l) \/ WatchLoad(l)) /\ UNCHANGED swcVars
     \/ host = "swc" /\ (SwcAnswering(l) \/ SwcLoad(l)) /\ UNCHANGED watchVars
  /\ UNCHANGED scenario
Timer == host = "watch" /\ WatchTimer /\ UNCHANGED <<swcVars, scenario>>

Spec == Init /\ [][Next]_vars /\ WF_vars(Timer) /\ \A l \in Loads : WF_vars(Proceed(l))

(* What watch mode writes, and what its loads see on the way.                  *)
WatchIsCurrent == host = "watch" => OutputIsCurrent /\ LoadSeesFlushed

(* What either host sets off comes to rest.                                    *)
ComesToRest == LoadsSettle /\ EditIsGenerated

(* Every variable of the loader and its hosts keeps its type.                  *)
TypeOK == LoaderTypeOK /\ WatchTypeOK /\ SwcTypeOK

===============================================================================
